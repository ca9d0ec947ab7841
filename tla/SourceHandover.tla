--------------------------- MODULE SourceHandover ---------------------------
(***************************************************************************)
(* Who drives a room: the Scheduler entities it was configured with (its   *)
(* sources) or Hearth.  This is mech_source.py's take-over, hand-back and  *)
(* re-assert, run by the evaluation of room.py, through unloads, reloads   *)
(* and restarts of the config entry.                                       *)
(*                                                                         *)
(* Everything runs on one event loop.  A callback, and a coroutine up to   *)
(* its next await, is one step; another task may run at every await, and   *)
(* the only awaits that matter here are the switch calls, one per source.  *)
(* A loop over the sources is a pointer: at = s says the call to s was     *)
(* made and has not returned yet.                                          *)
(***************************************************************************)
EXTENDS Naturals

CONSTANTS
  NSources,     \* how many Scheduler entities the room is configured with
  NLives,       \* bound: how many times the config entry may be set up
  MaxFailures,  \* bound: how many switch calls may raise
  MaxMoves      \* bound: how often people, peers and the Scheduler may act

ASSUME SizesAssumption ==
  /\ NSources \in Nat \ {0} /\ NLives \in Nat \ {0}
  /\ MaxFailures \in Nat /\ MaxMoves \in Nat

Source == 1..NSources
Life   == 1..NLives      \* one HearthRoom object for each set-up of the entry

VARIABLES
  enabled,      \* is the Scheduler entity switched on
  present,      \* is it in the state machine and available
  fate,         \* history: why Hearth owes the source a switch.turn_on, or "free"
  active,       \* switch.hearth_active
  schedule,     \* the room's schedule switch is on and it is not observing
  shared,       \* every other room the sources drive lets Hearth take over
  good,         \* _src_good is set: a schedule was derived once
  fails,        \* how many switch calls have raised
  moves,        \* how often the world around Hearth has acted
  life,         \* where each HearthRoom object is in its life
  took,         \* _took_over
  reenabled,    \* _source_reenabled_at: never, under 5 s ago, or longer ago
  young,        \* the 120 s check is armed: took over or re-enabled since less
  issue,        \* the scheduler_source_enabled repair is raised
  asked,        \* a task is about to call async_evaluate
  pending,      \* _pending_evaluate
  ev,           \* the evaluation that holds _evaluating
  reasserting,  \* _reasserting
  reassert,     \* where the _async_reassert_sources tasks are; 0: not begun
  unload        \* where async_source_unload's hand-back is

switches == <<enabled, present, fate, fails>>
controls == <<active, schedule, shared, good>>
settings == <<controls, moves>>
rooms    == <<life, took, reenabled, young, issue>>
tasks    == <<asked, pending, ev, reasserting, reassert, unload>>
vars     == <<switches, settings, rooms, tasks>>

(***************************************************************************)
(* held: a room owns the source, is taking it over or is handing it back.  *)
(* The others name the ways in which nobody is left to switch it on again. *)
(***************************************************************************)
Slips == {"failed",    \* the hand-back's turn_on raised
          "partial",   \* a take-over switched it off and then gave up
          "late",      \* a room that no longer owns it switched it off
          "dead",      \* an unloaded room switched it off
          "missed",    \* it was not there when the room was handed back
          "restart"}   \* Home Assistant restarted while a room owned it
Fates == {"free", "held"} \cup Slips

Phases == {"idle", "start", "takeover", "handback", "retry", "rest"}
Idle   == [pc |-> "idle", at |-> 0, ok |-> TRUE]

TypeOK ==
  /\ enabled \in [Source -> BOOLEAN]
  /\ present \in [Source -> BOOLEAN]
  /\ fate \in [Source -> Fates]
  /\ {active, schedule, shared, good} \subseteq BOOLEAN
  /\ fails \in 0..MaxFailures
  /\ moves \in 0..MaxMoves
  /\ life \in [Life -> {"absent", "loading", "ready", "unloading", "dead"}]
  /\ took \in [Life -> BOOLEAN]
  /\ reenabled \in [Life -> {"never", "recent", "due"}]
  /\ young \in [Life -> BOOLEAN]
  /\ issue \in [Life -> BOOLEAN]
  /\ asked \in [Life -> BOOLEAN]
  /\ pending \in [Life -> BOOLEAN]
  /\ ev \in [Life -> [pc : Phases, at : 0..NSources, ok : BOOLEAN]]
  /\ reasserting \in [Life -> BOOLEAN]
  /\ reassert \in [Life -> SUBSET (0..NSources)]
  /\ unload \in [Life -> 0..NSources]

-----------------------------------------------------------------------------
Wanted  == active /\ schedule
CanTakeOver == Wanted /\ shared /\ good
There   == {s \in Source : present[s]}
Running == {s \in There : enabled[s]}

Loaded(i)   == life[i] \in {"loading", "ready"}

(* Mutant: the age of the re-assert is compared the wrong way round.       *)
RetryDueEarly(i) == reenabled[i] = "recent" /\ ~reasserting[i]
RetryDue(i) == reenabled[i] = "due" /\ ~reasserting[i]

Later(k, S) == {s \in S : s > k}
First(S)    == {s \in S : \A t \in S : s <= t}

(* The outcomes of a switch call: it may raise, MaxFailures times in all.  *)
Outcomes == IF fails < MaxFailures THEN BOOLEAN ELSE {TRUE}

(* A room has taken the sources over, or is about to have.                 *)
Owns(i) == Loaded(i) /\ (took[i] \/ ev[i].pc = "takeover")
Owned   == \E i \in Life : Owns(i)

(* What a source that object i switches off now is to Hearth.              *)
Claim(i) == IF Owned THEN "held" ELSE IF Loaded(i) THEN "late" ELSE "dead"

(* The fates once object i has let go of the sources in S for the reason f *)
Slip(i, S, f) ==
  [s \in Source |-> IF s \in S /\ fate[s] = "held" /\ ~\E j \in Life \ {i} : Owns(j)
                      THEN f ELSE fate[s]]

(* The sources a loop that goes from k to n passes over.                   *)
Passed(k, n) == {s \in Source \ There : k < s /\ s < n}

(***************************************************************************)
(* A source changed: every loaded room asks for an evaluation.  When it    *)
(* came on, a room that owns it starts a re-assert (_on_source_reenabled). *)
(***************************************************************************)
SourceEvent == asked' = [i \in Life |-> asked[i] \/ Loaded(i)]

OnSourceReenabled ==
  LET Hit(i) == Loaded(i) /\ took[i] /\ active
  IN /\ reenabled' = [i \in Life |-> IF Hit(i) THEN "recent" ELSE reenabled[i]]
     /\ young' = [i \in Life |-> young[i] \/ Hit(i)]
     /\ reasserting' = [i \in Life |-> reasserting[i] \/ Hit(i)]
     /\ reassert' = [i \in Life |-> IF Hit(i) THEN reassert[i] \cup {0} ELSE reassert[i]]

(* Object i's switch.turn_off on s raises (ok is FALSE) or is done.        *)
TurnOff(i, s, ok) ==
  /\ enabled' = IF ok THEN [enabled EXCEPT ![s] = FALSE] ELSE enabled
  /\ fate' = IF ok THEN [fate EXCEPT ![s] = Claim(i)] ELSE fate
  /\ fails' = IF ok THEN fails ELSE fails + 1
  /\ UNCHANGED present
  /\ IF ok /\ enabled[s] THEN SourceEvent ELSE UNCHANGED asked

(* One turn of _call_sources("turn_on") for object i, from k to s.  The    *)
(* call raises, and nobody is left to make it again, or it is done, and    *)
(* the loaded rooms hear of it.                                            *)
TurnOn(i, k, s, ok) ==
  /\ enabled' = IF ok THEN [enabled EXCEPT ![s] = TRUE] ELSE enabled
  /\ fate' = IF ok THEN [Slip(i, Passed(k, s), "missed") EXCEPT ![s] = "free"]
                   ELSE [Slip(i, Passed(k, s), "missed") EXCEPT ![s] = Slip(i, {s}, "failed")[s]]
  /\ fails' = IF ok THEN fails ELSE fails + 1
  /\ UNCHANGED present
  /\ IF ok /\ ~enabled[s]
       THEN SourceEvent /\ OnSourceReenabled
       ELSE UNCHANGED <<asked, reenabled, young, reasserting, reassert>>

-----------------------------------------------------------------------------
(***************************************************************************)
(* The evaluation: async_evaluate around _reconcile_source.  The awaits of *)
(* the other mechanisms are the phase rest.                                *)
(***************************************************************************)
Phase(i, p) == ev' = [ev EXCEPT ![i] = [pc |-> p, at |-> 0, ok |-> TRUE]]

(* The end of _reconcile_source, _sync_issues: the repair stands while a   *)
(* source of an owned room has been on for longer than the check allows.   *)
Offenders(i) == IF took[i] /\ ~young[i] THEN Running ELSE {}

SyncIssues(i) ==
  /\ issue' = [issue EXCEPT ![i] = Offenders(i)' # {}]
  /\ Phase(i, "rest")

(* A task reaches async_evaluate: it runs, or is left to the one running.  *)
Evaluate(i) ==
  /\ asked[i]
  /\ asked' = [asked EXCEPT ![i] = FALSE]
  /\ IF ev[i].pc = "idle"
       THEN Phase(i, "start") /\ UNCHANGED pending
       ELSE pending' = [pending EXCEPT ![i] = TRUE] /\ UNCHANGED ev
  /\ UNCHANGED <<switches, settings, rooms, reasserting, reassert, unload>>

(* Mutant: only the room's own switches hand it back, the guard does not.  *)
StartHandBackUnwanted(i) ==
  /\ ~Wanted /\ took[i]
  /\ Phase(i, "handback")
  /\ took' = [took EXCEPT ![i] = FALSE]
  /\ young' = [young EXCEPT ![i] = FALSE]
  /\ UNCHANGED issue

(* The start of _hand_back: the room is not owned from here on.            *)
StartHandBack(i) ==
  /\ ~CanTakeOver /\ took[i]
  /\ Phase(i, "handback")
  /\ took' = [took EXCEPT ![i] = FALSE]
  /\ young' = [young EXCEPT ![i] = FALSE]
  /\ UNCHANGED issue

(* _reconcile_source up to its first call: what this evaluation will do.   *)
Reconcile(i) ==
  /\ ev[i].pc = "start"
  /\ UNCHANGED <<switches, settings>>
  /\ \/ /\ CanTakeOver /\ ~took[i]
        /\ Phase(i, "takeover")
        /\ UNCHANGED <<took, young, issue>>
     \/ StartHandBack(i)
     \/ /\ CanTakeOver /\ took[i] /\ RetryDue(i) /\ Running # {}
        /\ Phase(i, "retry")
        /\ UNCHANGED <<took, young, issue>>
     \/ /\ CanTakeOver = took[i] /\ (took[i] /\ RetryDue(i) => Running = {})
        /\ UNCHANGED <<took, young>>
        /\ SyncIssues(i)
  /\ UNCHANGED <<life, reenabled, asked, pending, reasserting, reassert, unload>>

(* _take_over, one source further: the room is owned once every call was   *)
(* made and none raised; otherwise the next evaluation tries again.        *)
TakeOver(i) ==
  LET rest == Later(ev[i].at, There)
  IN /\ ev[i].pc = "takeover"
     /\ \/ /\ rest # {}
           /\ \E s \in First(rest), ok \in Outcomes :
                /\ TurnOff(i, s, ok)
                /\ ev' = [ev EXCEPT ![i].at = s, ![i].ok = @ /\ ok]
           /\ UNCHANGED <<took, young, issue>>
        \/ /\ rest = {} /\ ev[i].ok
           /\ took' = [took EXCEPT ![i] = TRUE]
           /\ young' = [young EXCEPT ![i] = TRUE]
           /\ fate' = IF Loaded(i) THEN [s \in Source |-> IF fate[s] = "free" THEN "free" ELSE "held"]
                                   ELSE fate
           /\ UNCHANGED <<enabled, present, fails, asked>>
           /\ SyncIssues(i)
        \/ /\ rest = {} /\ ~ev[i].ok
           /\ fate' = Slip(i, Source, "partial")
           /\ UNCHANGED <<enabled, present, fails, took, young, asked>>
           /\ SyncIssues(i)
     /\ UNCHANGED <<settings, life, reenabled, pending, reasserting, reassert, unload>>

(* _hand_back of an evaluation, one source further.  What a call returns   *)
(* is dropped, and a source that is not there is passed over.              *)
HandBack(i) ==
  LET rest == Later(ev[i].at, There)
  IN /\ ev[i].pc = "handback"
     /\ \/ /\ rest # {}
           /\ \E s \in First(rest), ok \in Outcomes :
                /\ TurnOn(i, ev[i].at, s, ok)
                /\ ev' = [ev EXCEPT ![i].at = s]
           /\ UNCHANGED <<took, issue>>
        \/ /\ rest = {}
           /\ fate' = Slip(i, Passed(ev[i].at, NSources + 1), "missed")
           /\ UNCHANGED <<enabled, present, fails, took, asked, reenabled, young, reasserting, reassert>>
           /\ SyncIssues(i)
     /\ UNCHANGED <<settings, life, pending, unload>>

(* The retry of a re-assert: _turn_off_enabled_sources inside an           *)
(* evaluation, one source further.                                         *)
RetryReassert(i) ==
  LET rest == Later(ev[i].at, Running)
  IN /\ ev[i].pc = "retry"
     /\ UNCHANGED <<took, young>>
     /\ \/ /\ rest # {}
           /\ \E s \in First(rest), ok \in Outcomes :
                /\ TurnOff(i, s, ok)
                /\ ev' = [ev EXCEPT ![i].at = s]
           /\ UNCHANGED issue
        \/ /\ rest = {}
           /\ UNCHANGED <<switches, asked>>
           /\ SyncIssues(i)
     /\ UNCHANGED <<settings, life, reenabled, pending, reasserting, reassert, unload>>

(* Mutant: a call that raised leaves _evaluating set.                      *)
EndEvaluationSticks(i) ==
  /\ ev[i].pc = "rest" /\ fails = 0
  /\ Phase(i, IF pending[i] THEN "start" ELSE "idle")
  /\ pending' = [pending EXCEPT ![i] = FALSE]
  /\ life' = [life EXCEPT ![i] = IF @ = "loading" THEN "ready" ELSE @]
  /\ UNCHANGED <<switches, settings, took, reenabled, young, issue, asked,
                 reasserting, reassert, unload>>

(* The evaluation ends; one that was left to it runs at once.              *)
EndEvaluation(i) ==
  /\ ev[i].pc = "rest"
  /\ Phase(i, IF pending[i] THEN "start" ELSE "idle")
  /\ pending' = [pending EXCEPT ![i] = FALSE]
  /\ life' = [life EXCEPT ![i] = IF @ = "loading" THEN "ready" ELSE @]
  /\ UNCHANGED <<switches, settings, took, reenabled, young, issue, asked,
                 reasserting, reassert, unload>>

-----------------------------------------------------------------------------
(* One of object i's _async_reassert_sources tasks, where it stands at k:  *)
(* it does not look at _took_over again.                                   *)
Reassert(i, k) ==
  LET rest == Later(k, Running)
  IN /\ k \in reassert[i]
     /\ \/ /\ rest # {}
           /\ \E s \in First(rest), ok \in Outcomes :
                /\ TurnOff(i, s, ok)
                /\ reassert' = [reassert EXCEPT ![i] = (@ \ {k}) \cup {s}]
           /\ UNCHANGED reasserting
        \/ /\ rest = {}
           /\ reassert' = [reassert EXCEPT ![i] = @ \ {k}]
           /\ reasserting' = [reasserting EXCEPT ![i] = FALSE]
           /\ asked' = [asked EXCEPT ![i] = TRUE]
           /\ UNCHANGED switches
     /\ UNCHANGED <<settings, rooms, pending, ev, unload>>

(* Mutant: an age that no one tells apart from the others.                 *)
ReassertSettlesOld(i) ==
  /\ reenabled[i] = "recent"
  /\ reenabled' = [reenabled EXCEPT ![i] = "old"]
  /\ UNCHANGED <<switches, settings, life, took, young, issue, tasks>>

(* Time: the re-assert is 5 s old; the 120 s check fires.                  *)
ReassertSettles(i) ==
  /\ reenabled[i] = "recent"
  /\ reenabled' = [reenabled EXCEPT ![i] = "due"]
  /\ UNCHANGED <<switches, settings, life, took, young, issue, tasks>>

(* Mutant: the check that fires does not look at the sources.              *)
EnabledTimerIdle(i) ==
  /\ young[i]
  /\ young' = [young EXCEPT ![i] = FALSE]
  /\ UNCHANGED <<switches, settings, life, took, reenabled, issue, tasks>>

EnabledTimer(i) ==
  /\ young[i]
  /\ young' = [young EXCEPT ![i] = FALSE]
  /\ issue' = [issue EXCEPT ![i] = took[i] /\ Running # {}]
  /\ UNCHANGED <<switches, settings, life, took, reenabled, tasks>>

(* The poll and the exact-time triggers.                                   *)
Tick(i) ==
  /\ Loaded(i) /\ ~asked[i]
  /\ asked' = [asked EXCEPT ![i] = TRUE]
  /\ UNCHANGED <<switches, settings, rooms, pending, ev, reasserting, reassert, unload>>

-----------------------------------------------------------------------------
(***************************************************************************)
(* The config entry: set up, unloaded (for a reload, a removal), or cut    *)
(* short by a restart of Home Assistant.                                   *)
(***************************************************************************)
SetUp(i) ==
  /\ life[i] = "absent"
  /\ \A j \in Life : j < i => life[j] = "dead"
  /\ life' = [life EXCEPT ![i] = "loading"]
  /\ asked' = [asked EXCEPT ![i] = TRUE]
  /\ good' \in IF There = Source THEN {good, TRUE} ELSE {good}
  /\ UNCHANGED <<switches, active, schedule, shared, moves, took, reenabled, young, issue,
                 pending, ev, reasserting, reassert, unload>>

(* Mutant: an unload does not hand the sources back.                       *)
UnloadKeeps(i) ==
  /\ life[i] = "ready"
  /\ young' = [young EXCEPT ![i] = FALSE]
  /\ took' = [took EXCEPT ![i] = FALSE]
  /\ life' = [life EXCEPT ![i] = "dead"]
  /\ issue' = [issue EXCEPT ![i] = FALSE]
  /\ UNCHANGED <<switches, settings, reenabled, tasks>>

(* async_source_unload.  What a take-over that is still under way switched *)
(* off is owned by no one: _took_over is not set yet.                      *)
Unload(i) ==
  /\ life[i] = "ready"
  /\ young' = [young EXCEPT ![i] = FALSE]
  /\ took' = [took EXCEPT ![i] = FALSE]
  /\ IF took[i]
       THEN /\ life' = [life EXCEPT ![i] = "unloading"]
            /\ unload' = [unload EXCEPT ![i] = 0]
            /\ UNCHANGED <<fate, issue>>
       ELSE /\ life' = [life EXCEPT ![i] = "dead"]
            /\ fate' = IF ev[i].pc = "takeover" THEN Slip(i, Source, "dead") ELSE fate
            /\ issue' = [issue EXCEPT ![i] = FALSE]
            /\ UNCHANGED unload
  /\ UNCHANGED <<enabled, present, fails, settings, reenabled, asked, pending, ev,
                 reasserting, reassert>>

UnloadHandBack(i) ==
  LET rest == Later(unload[i], There)
  IN /\ life[i] = "unloading"
     /\ \/ /\ rest # {}
           /\ \E s \in First(rest), ok \in Outcomes :
                /\ TurnOn(i, unload[i], s, ok)
                /\ unload' = [unload EXCEPT ![i] = s]
           /\ UNCHANGED <<life, issue>>
        \/ /\ rest = {}
           /\ fate' = Slip(i, Passed(unload[i], NSources + 1), "missed")
           /\ life' = [life EXCEPT ![i] = "dead"]
           /\ issue' = [issue EXCEPT ![i] = FALSE]
           /\ unload' = [unload EXCEPT ![i] = 0]
           /\ UNCHANGED <<enabled, present, fails, asked, reenabled, young, reasserting, reassert>>
     /\ UNCHANGED <<settings, took, pending, ev>>

(* Every object goes with its tasks; the switches stay where they were.    *)
Restart ==
  /\ \E i \in Life : life[i] # "absent" /\ (life[i] # "dead" \/ ev[i].pc # "idle")
  /\ life' = [i \in Life |-> IF life[i] = "absent" THEN "absent" ELSE "dead"]
  /\ took' = [i \in Life |-> FALSE]
  /\ reenabled' = [i \in Life |-> "never"]
  /\ young' = [i \in Life |-> FALSE]
  /\ issue' = [i \in Life |-> FALSE]
  /\ asked' = [i \in Life |-> FALSE]
  /\ pending' = [i \in Life |-> FALSE]
  /\ ev' = [i \in Life |-> Idle]
  /\ reasserting' = [i \in Life |-> FALSE]
  /\ reassert' = [i \in Life |-> {}]
  /\ unload' = [i \in Life |-> 0]
  /\ fate' = [s \in Source |-> IF fate[s] = "held" THEN "restart" ELSE fate[s]]
  /\ UNCHANGED <<enabled, present, fails, settings>>

-----------------------------------------------------------------------------
(***************************************************************************)
(* The world: the user's switches, the peers and the Scheduler.            *)
(***************************************************************************)
(* Bounds how often the actions below happen.                              *)
Move == moves < MaxMoves /\ moves' = moves + 1

AskAll == asked' = [i \in Life |-> asked[i] \/ Loaded(i)]

SetActive ==
  /\ Move
  /\ active' = ~active
  /\ AskAll
  /\ UNCHANGED <<switches, schedule, shared, good, rooms, pending, ev, reasserting, reassert, unload>>

SetSchedule ==
  /\ Move
  /\ schedule' = ~schedule
  /\ AskAll
  /\ UNCHANGED <<switches, active, shared, good, rooms, pending, ev, reasserting, reassert, unload>>

PeerChanges ==
  /\ Move
  /\ shared' = ~shared
  /\ AskAll
  /\ UNCHANGED <<switches, active, schedule, good, rooms, pending, ev, reasserting, reassert, unload>>

(* Someone switches a Scheduler entity.                                    *)
SwitchedOn(s) ==
  /\ Move
  /\ present[s] /\ ~enabled[s]
  /\ enabled' = [enabled EXCEPT ![s] = TRUE]
  /\ fate' = [fate EXCEPT ![s] = "free"]
  /\ SourceEvent /\ OnSourceReenabled
  /\ UNCHANGED <<present, fails, controls, life, took, issue, pending, ev, unload>>

SwitchedOff(s) ==
  /\ Move
  /\ present[s] /\ enabled[s]
  /\ enabled' = [enabled EXCEPT ![s] = FALSE]
  /\ SourceEvent
  /\ UNCHANGED <<present, fate, fails, controls, rooms, pending, ev, reasserting, reassert, unload>>

(* A Scheduler entity goes away, and comes back with the state it had.     *)
SourceLost(s) ==
  /\ Move
  /\ present[s]
  /\ present' = [present EXCEPT ![s] = FALSE]
  /\ SourceEvent
  /\ UNCHANGED <<enabled, fate, fails, controls, rooms, pending, ev, reasserting, reassert, unload>>

SourceBack(s) ==
  /\ Move
  /\ ~present[s]
  /\ present' = [present EXCEPT ![s] = TRUE]
  /\ good' \in IF There \cup {s} = Source THEN {good, TRUE} ELSE {good}
  /\ SourceEvent
  /\ IF enabled[s] THEN OnSourceReenabled
                   ELSE UNCHANGED <<reenabled, young, reasserting, reassert>>
  /\ UNCHANGED <<enabled, fate, fails, active, schedule, shared, life, took, issue,
                 pending, ev, unload>>

-----------------------------------------------------------------------------
Init ==
  /\ enabled \in [Source -> BOOLEAN]
  /\ present = [s \in Source |-> TRUE]
  /\ fate = [s \in Source |-> "free"]
  /\ active = TRUE /\ schedule = FALSE /\ shared = TRUE /\ good = FALSE
  /\ fails = 0
  /\ moves = 0
  /\ life = [i \in Life |-> "absent"]
  /\ took = [i \in Life |-> FALSE]
  /\ reenabled = [i \in Life |-> "never"]
  /\ young = [i \in Life |-> FALSE]
  /\ issue = [i \in Life |-> FALSE]
  /\ asked = [i \in Life |-> FALSE]
  /\ pending = [i \in Life |-> FALSE]
  /\ ev = [i \in Life |-> Idle]
  /\ reasserting = [i \in Life |-> FALSE]
  /\ reassert = [i \in Life |-> {}]
  /\ unload = [i \in Life |-> 0]

(***************************************************************************)
(* A loop over the sources makes its first call at once: the event loop    *)
(* does not preempt, and a task that a callback creates starts at once.    *)
(***************************************************************************)
InStretch(i) ==
  \/ ev[i].pc \in {"takeover", "handback", "retry"} /\ ev[i].at = 0
  \/ 0 \in reassert[i]
  \/ life[i] = "unloading" /\ unload[i] = 0

CallLoop(i) == TakeOver(i) \/ HandBack(i) \/ RetryReassert(i)

Stretch(i) ==
  \/ ev[i].at = 0 /\ CallLoop(i)
  \/ Reassert(i, 0)
  \/ unload[i] = 0 /\ UnloadHandBack(i)

(* The evaluation of object i goes on.                                     *)
Proceed(i) == Reconcile(i) \/ CallLoop(i) \/ EndEvaluation(i)

(* A call returned to object i, or a task of its reached async_evaluate.   *)
Resume(i) ==
  \/ Proceed(i) \/ Evaluate(i) \/ UnloadHandBack(i)
  \/ \E k \in Source : Reassert(i, k)

Clock(i) == ReassertSettles(i) \/ EnabledTimer(i) \/ Tick(i)

World ==
  \/ SetActive \/ SetSchedule \/ PeerChanges \/ Restart
  \/ \E i \in Life : SetUp(i) \/ Unload(i)
  \/ \E s \in Source : SwitchedOn(s) \/ SwitchedOff(s) \/ SourceLost(s) \/ SourceBack(s)

Settled == \A i \in Life : ~InStretch(i)

Next ==
  \/ \E i \in Life : Stretch(i)
  \/ Settled /\ \E i \in Life : Resume(i) \/ Clock(i)
  \/ Settled /\ World

(***************************************************************************)
(* Home Assistant runs every task that can run in turn, a call returns and *)
(* the clock goes on.  Nothing makes a user, a peer or the Scheduler act.  *)
(***************************************************************************)
Fairness ==
  \A i \in Life :
    /\ WF_vars(Stretch(i))
    /\ WF_vars(Settled /\ Proceed(i))
    /\ WF_vars(Settled /\ UnloadHandBack(i))
    /\ \A k \in Source : WF_vars(Settled /\ Reassert(i, k))
    /\ WF_vars(Settled /\ Evaluate(i))
    /\ WF_vars(Settled /\ ReassertSettles(i))
    /\ WF_vars(Settled /\ EnabledTimer(i))
    /\ WF_vars(Settled /\ Tick(i))

Spec == Init /\ [][Next]_vars /\ Fairness

-----------------------------------------------------------------------------
(* Some task of object i is still going to settle the account of source s. *)
Settling(i, s) ==
  \/ Owns(i)
  \/ ev[i].pc = "handback" /\ s > ev[i].at
  \/ life[i] = "unloading" /\ s > unload[i]

(***************************************************************************)
(* Hearth never loses track of a source it switched off: a loaded room     *)
(* owns it or is taking it over, or a hand-back has yet to reach it.  The  *)
(* Slips are the only ways out, each with its own cause in the code.       *)
(***************************************************************************)
Accounted == \A s \in Source : fate[s] = "held" => \E i \in Life : Settling(i, s)

(***************************************************************************)
(* The two-brains repair of a loaded room says what is the case, whenever  *)
(* no evaluation is due: a source that is on under an owned room for       *)
(* longer than the check allows is reported, and nothing else is.          *)
(***************************************************************************)
RepairIsCurrent ==
  \A i \in Life :
    Loaded(i) /\ ev[i].pc \in {"idle", "rest"} /\ ~asked[i] /\ ~pending[i]
      => issue[i] = (Offenders(i) # {})

(* A room that may no longer own its sources hands them back.              *)
HandsBack ==
  \A i \in Life :
    (Loaded(i) /\ took[i] /\ ~CanTakeOver) ~> (~took[i] \/ CanTakeOver)

(* A room that may own its sources, and goes on to, takes them over even   *)
(* though calls fail now and then.                                         *)
TakesOver ==
  \A i \in Life :
    (Loaded(i) /\ CanTakeOver) ~> (took[i] \/ ~CanTakeOver \/ ~Loaded(i))

(* A source that came back on under an owned room, and that Hearth saw     *)
(* come on, does not stay on (D48), even though calls fail now and then.   *)
ReenabledGoesOff ==
  \A i \in Life, s \in Source :
    (Loaded(i) /\ took[i] /\ CanTakeOver /\ reenabled[i] # "never" /\ s \in Running)
      ~> (s \notin Running \/ ~took[i] \/ ~CanTakeOver \/ ~Loaded(i))

-----------------------------------------------------------------------------
(***************************************************************************)
(* What the README says of the schedule switch: turning it off "makes      *)
(* Hearth call switch.turn_on on every source schedule, so Scheduler is    *)
(* the fallback".  Once no task of the room is left to run, no source is   *)
(* off because Hearth switched it off after it had let the room go.        *)
(***************************************************************************)
Quiet(i) == ev[i].pc = "idle" /\ ~asked[i] /\ reassert[i] = {}

SwitchOffReturnsTheSources ==
  \A i \in Life :
    Loaded(i) /\ Quiet(i) /\ ~Wanted =>
      \A s \in There : enabled[s] \/ fate[s] # "late"

=============================================================================
