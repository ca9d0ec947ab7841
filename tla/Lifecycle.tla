------------------------------ MODULE Lifecycle ------------------------------
(***************************************************************************)
(* The rooms of one Home Assistant: their set-up and unload (__init__.py,  *)
(* room.py), and what they share: the services, the forecast timer, the    *)
(* global switches and the entry that owns them.                           *)
(*                                                                         *)
(* Some tasks call several rooms in turn and await each: a global switch   *)
(* (GlobalState), a service called without a room, and a room whose peers  *)
(* are to look again.  Such a loop holds the rooms it has still to call,   *)
(* and the room whose evaluation it started and waits for.  What is left   *)
(* of a room that was popped is the subject of SourceHandover.             *)
(***************************************************************************)
EXTENDS FiniteSets, Naturals

CONSTANTS
  Entry,     \* the config entries: one room each
  Caller,    \* bound: the loops that people may have under way
  Nobody,    \* no entry
  Stored,    \* what may be stored of a room's observe switch; "new": nothing
  MaxMoves   \* bound: how often people act, rooms are set up and polls fire

ASSUME PeopleAssumption ==
  /\ Nobody \notin Entry
  /\ Caller \cap Entry = {}
  /\ Stored \subseteq {"new", "on", "off"}
  /\ MaxMoves \in Nat

VARIABLES
  phase,     \* how far an entry is in async_setup_entry or async_unload_entry
  observe,   \* the room's observe switch as it is stored
  observing, \* the same in the memory of the room
  ready,     \* the room's ready flag
  ev,        \* the evaluation that holds _evaluating
  pending,   \* _pending_evaluate
  seen,      \* history: the global switches as the last evaluation read them
  loop,      \* the loops: of a set-up, by its entry, and of a caller
  global,    \* GlobalState: active and paused
  owner,     \* owner_entry_id
  switches,  \* the entry whose switch platform has the global switches
  services,  \* the services that are registered
  started,   \* Home Assistant has started: _on_started
  timer,     \* the hourly refresh of the forecasts is armed
  moves

rooms  == <<phase, observe, observing, ready>>
evals  == <<ev, pending, seen, loop>>
shared == <<global, owner, switches, services, started, timer>>
vars   == <<rooms, evals, shared, moves>>

Phases == {"off", "load", "seed", "setup", "peers", "platforms", "loaded", "closing", "unload"}
Kinds  == {"none", "change", "service", "setting", "peers"}
Services == {"boost", "others"}   \* hearth.boost is not among those that are removed
Idle   == [kind |-> "none", saving |-> FALSE, todo |-> {}, on |-> Nobody, of |-> Nobody]
Globals == [active : BOOLEAN, paused : BOOLEAN]

TypeOK ==
  /\ phase \in [Entry -> Phases]
  /\ observe \in [Entry -> {"new", "on", "off"}]
  /\ observing \in [Entry -> BOOLEAN]
  /\ ready \in [Entry -> BOOLEAN]
  /\ ev \in [Entry -> {"idle", "write", "rest"}]
  /\ pending \in [Entry -> BOOLEAN]
  /\ seen \in [Entry -> Globals]
  /\ loop \in [Entry \cup Caller ->
                 [kind : Kinds, saving : BOOLEAN, todo : SUBSET Entry,
                  on : Entry \cup {Nobody}, of : Entry \cup {Nobody}]]
  /\ global \in Globals
  /\ {owner, switches} \subseteq Entry \cup {Nobody}
  /\ services \subseteq Services
  /\ started \in {"no", "refreshing", "yes"}
  /\ timer \in BOOLEAN
  /\ moves \in 0..MaxMoves

(* hass.data["hearth"]["rooms"]: a room is in it from the start of its     *)
(* set-up until its platforms are unloaded.                                *)
Rooms == {e \in Entry : phase[e] \notin {"off", "unload"}}

Move == moves < MaxMoves /\ moves' = moves + 1

-----------------------------------------------------------------------------
(***************************************************************************)
(* An evaluation: it reads the global switches when it begins, writes the  *)
(* preset temperature, and runs again if it was asked for meanwhile.       *)
(***************************************************************************)
Begin(e) ==
  /\ ev' = [ev EXCEPT ![e] = "write"]
  /\ seen' = [seen EXCEPT ![e] = global]

(* Loop l calls async_evaluate of room e, and awaits what that starts.     *)
Ask(l, e) ==
  IF ev[e] = "idle"
    THEN Begin(e) /\ loop' = [loop EXCEPT ![l].todo = @ \ {e}, ![l].on = e] /\ UNCHANGED pending
    ELSE /\ pending' = [pending EXCEPT ![e] = TRUE]
         /\ loop' = [loop EXCEPT ![l].todo = @ \ {e}]
         /\ UNCHANGED <<ev, seen>>

(* _evaluate_adaptive: a room writes that is in scope and not observing.   *)
Writes(e) ==
  /\ ev[e] = "write"
  /\ seen[e].active /\ ~seen[e].paused /\ global.active
  /\ ~observing[e]

Write(e) ==
  /\ ev[e] = "write"
  /\ ev' = [ev EXCEPT ![e] = "rest"]
  /\ UNCHANGED <<rooms, pending, seen, loop, shared, moves>>

(* Mutant: what was asked for during an evaluation is forgotten.           *)
EndForgets(e) ==
  /\ ev[e] = "rest"
  /\ pending' = [pending EXCEPT ![e] = FALSE]
  /\ ev' = [ev EXCEPT ![e] = "idle"]
  /\ loop' = [l \in DOMAIN loop |-> IF loop[l].on = e THEN [loop[l] EXCEPT !.on = Nobody] ELSE loop[l]]
  /\ UNCHANGED <<rooms, seen, shared, moves>>

(* Mutant: the loop that waits is not told when it ends.                   *)
EndSilent(e) ==
  /\ ev[e] = "rest"
  /\ pending' = [pending EXCEPT ![e] = FALSE]
  /\ UNCHANGED <<rooms, shared, moves, loop>>
  /\ IF pending[e] THEN Begin(e) ELSE ev' = [ev EXCEPT ![e] = "idle"] /\ UNCHANGED seen

(* async_evaluate ends, and returns to the loop that awaits it, unless it  *)
(* was asked for meanwhile.                                                *)
End(e) ==
  /\ ev[e] = "rest"
  /\ pending' = [pending EXCEPT ![e] = FALSE]
  /\ UNCHANGED <<rooms, shared, moves>>
  /\ IF pending[e]
       THEN Begin(e) /\ UNCHANGED loop
       ELSE /\ ev' = [ev EXCEPT ![e] = "idle"]
            /\ loop' = [l \in DOMAIN loop |->
                          IF loop[l].on = e THEN [loop[l] EXCEPT !.on = Nobody] ELSE loop[l]]
            /\ UNCHANGED seen

(* The poll, an event of the VTherm.                                       *)
Poll(e) ==
  /\ Move
  /\ phase[e] \in {"setup", "peers", "platforms", "loaded", "closing"}
  /\ IF ev[e] = "idle" THEN Begin(e) /\ UNCHANGED pending
                       ELSE pending' = [pending EXCEPT ![e] = TRUE] /\ UNCHANGED <<ev, seen>>
  /\ UNCHANGED <<rooms, loop, shared>>

-----------------------------------------------------------------------------
(***************************************************************************)
(* The loops.  A peer is left out unless it is ready.                      *)
(***************************************************************************)
Call(l) ==
  /\ ~loop[l].saving /\ loop[l].on = Nobody
  /\ \E e \in loop[l].todo :
       IF loop[l].kind = "peers" /\ ~ready[e]
         THEN loop' = [loop EXCEPT ![l].todo = @ \ {e}] /\ UNCHANGED <<ev, pending, seen>>
         ELSE Ask(l, e)
  /\ UNCHANGED <<rooms, shared, moves>>

(* The last room was called: a new setting goes on with the peers, any     *)
(* other loop returns.                                                     *)
Return(c) ==
  /\ c \in Caller /\ loop[c].kind # "none"
  /\ ~loop[c].saving /\ loop[c].on = Nobody /\ loop[c].todo = {}
  /\ LET others == Rooms \ {loop[c].of}
     IN loop' = [loop EXCEPT ![c] = IF @.kind = "setting"
                                      THEN [Idle EXCEPT !.kind = "peers", !.todo = others] ELSE Idle]
  /\ UNCHANGED <<rooms, ev, pending, seen, shared, moves>>

(* GlobalState: the value is changed, it is stored, and every room there   *)
(* is then has to look at it.                                              *)
Change(c, new) ==
  /\ Move
  /\ switches # Nobody /\ loop[c].kind = "none"
  /\ global' = new
  /\ loop' = [loop EXCEPT ![c] = [Idle EXCEPT !.kind = "change", !.saving = TRUE]]
  /\ UNCHANGED <<rooms, ev, pending, seen, owner, switches, services, started, timer>>

SetActive(c) == Change(c, [global EXCEPT !.active = ~@])
SetPaused(c) == Change(c, [global EXCEPT !.paused = ~@])

(* It is stored: the rooms to look at it are those there are by now.       *)
Saved(c) ==
  /\ c \in Caller /\ loop[c].saving
  /\ loop' = [loop EXCEPT ![c].saving = FALSE, ![c].todo = IF loop[c].kind = "change" THEN Rooms ELSE @]
  /\ UNCHANGED <<rooms, ev, pending, seen, shared, moves>>

(* async_set_setting of the observe switch: stored at once, then the room  *)
(* and its peers look at it.                                               *)
SetObserve(c, e) ==
  /\ Move
  /\ phase[e] = "loaded" /\ loop[c].kind = "none"
  /\ observing' = [observing EXCEPT ![e] = ~@]
  /\ observe' = [observe EXCEPT ![e] = IF observing[e] THEN "off" ELSE "on"]
  /\ loop' = [loop EXCEPT ![c] = [Idle EXCEPT !.kind = "setting", !.saving = TRUE, !.todo = {e}, !.of = e]]
  /\ UNCHANGED <<phase, ready, ev, pending, seen, shared>>

(* hearth.recompute without a room: every room there is.                   *)
Recompute(c) ==
  /\ Move
  /\ "others" \in services /\ loop[c].kind = "none" /\ Rooms # {}
  /\ loop' = [loop EXCEPT ![c] = [Idle EXCEPT !.kind = "service", !.todo = Rooms]]
  /\ UNCHANGED <<rooms, ev, pending, seen, shared>>

-----------------------------------------------------------------------------
(***************************************************************************)
(* async_setup_entry: the services and the owner, then the room.           *)
(***************************************************************************)
To(e, p) == phase' = [phase EXCEPT ![e] = p]

SetUp(e) ==
  /\ Move
  /\ phase[e] = "off"
  /\ To(e, "load")
  /\ services' = IF "others" \in services THEN services ELSE Services
  /\ owner' = IF owner = Nobody THEN e ELSE owner
  /\ observing' = [observing EXCEPT ![e] = FALSE]
  /\ UNCHANGED <<observe, ready, evals, global, switches, started, timer>>

(* _async_load returns: a room that nothing is stored of observes (D49).   *)
Load(e) ==
  /\ phase[e] = "load"
  /\ To(e, "seed")
  /\ observing' = [observing EXCEPT ![e] = observe[e] # "off"]
  /\ observe' = [observe EXCEPT ![e] = IF @ = "new" THEN "on" ELSE @]
  /\ UNCHANGED <<ready, evals, shared, moves>>

(* _async_seed_if_needed returns, and the first evaluation is asked for.   *)
Seed(e) ==
  /\ phase[e] = "seed"
  /\ To(e, "setup")
  /\ Ask(e, e)
  /\ UNCHANGED <<observe, observing, ready, shared, moves>>

(* Mutant: the set-up stops once the room is ready.                        *)
SetUpStopsShort(e) ==
  /\ phase[e] = "setup" /\ loop[e].on = Nobody
  /\ To(e, "ready")
  /\ ready' = [ready EXCEPT ![e] = TRUE]
  /\ UNCHANGED <<observe, observing, evals, shared, moves>>

(* The room is ready, and its peers are to look again.                     *)
SetUpEvaluated(e) ==
  /\ phase[e] = "setup" /\ loop[e].on = Nobody
  /\ To(e, "peers")
  /\ ready' = [ready EXCEPT ![e] = TRUE]
  /\ loop' = [loop EXCEPT ![e] = [Idle EXCEPT !.kind = "peers", !.todo = Rooms \ {e}]]
  /\ UNCHANGED <<observe, observing, ev, pending, seen, shared, moves>>

PeersLooked(e) ==
  /\ phase[e] = "peers" /\ loop[e].todo = {} /\ loop[e].on = Nobody
  /\ To(e, "platforms")
  /\ loop' = [loop EXCEPT ![e] = Idle]
  /\ UNCHANGED <<observe, observing, ready, ev, pending, seen, shared, moves>>

(* The platforms are up, of the owner with the global switches.            *)
PlatformsUp(e) ==
  /\ phase[e] = "platforms"
  /\ To(e, "loaded")
  /\ switches' = IF owner = e THEN e ELSE switches
  /\ UNCHANGED <<observe, observing, ready, evals, global, owner, services, started, timer, moves>>

(***************************************************************************)
(* async_unload_entry: the platforms go, the room is popped, and when it   *)
(* was unloaded the last one takes the services and the timer with it.     *)
(***************************************************************************)
Unload(e) ==
  /\ Move
  /\ phase[e] = "loaded"
  /\ To(e, "closing")
  /\ UNCHANGED <<observe, observing, ready, evals, shared>>

(* A popped room is off the loops: what they do to it is not followed.     *)
Pop(e) ==
  /\ phase[e] = "closing"
  /\ To(e, "unload")
  /\ ready' = [ready EXCEPT ![e] = FALSE]
  /\ switches' = IF switches = e THEN Nobody ELSE switches
  /\ ev' = [ev EXCEPT ![e] = "idle"]
  /\ pending' = [pending EXCEPT ![e] = FALSE]
  /\ loop' = [l \in DOMAIN loop |-> [loop[l] EXCEPT !.todo = @ \ {e}, !.on = IF @ = e THEN Nobody ELSE @]]
  /\ UNCHANGED <<observe, observing, seen, global, owner, services, started, timer, moves>>

(* Mutant: the entry that is gone is still the owner.                      *)
UnloadedOwns(e) ==
  /\ phase[e] = "unload"
  /\ To(e, "off")
  /\ IF Rooms = {} THEN services' = services \ {"others"} /\ timer' = FALSE
                   ELSE UNCHANGED <<services, timer>>
  /\ UNCHANGED <<observe, observing, ready, evals, global, owner, switches, started, moves>>

(* Mutant: the services go with the last room that is loaded.              *)
UnloadedTakes(e) ==
  /\ phase[e] = "unload"
  /\ To(e, "off")
  /\ owner' = IF owner = e THEN Nobody ELSE owner
  /\ IF \A d \in Rooms : phase[d] # "loaded" THEN services' = services \ {"others"} /\ timer' = FALSE
                                             ELSE UNCHANGED <<services, timer>>
  /\ UNCHANGED <<observe, observing, ready, evals, global, switches, started, moves>>

Unloaded(e) ==
  /\ phase[e] = "unload"
  /\ To(e, "off")
  /\ owner' = IF owner = e THEN Nobody ELSE owner
  /\ IF Rooms = {} THEN services' = services \ {"others"} /\ timer' = FALSE
                   ELSE UNCHANGED <<services, timer>>
  /\ UNCHANGED <<observe, observing, ready, evals, global, switches, started, moves>>

(* Home Assistant has started: the forecasts are fetched, and from then on *)
(* every hour.                                                             *)
Start ==
  /\ Move
  /\ started = "no"
  /\ started' = "refreshing"
  /\ UNCHANGED <<rooms, evals, global, owner, switches, services, timer>>

Refreshed ==
  /\ started = "refreshing"
  /\ started' = "yes"
  /\ timer' = TRUE
  /\ UNCHANGED <<rooms, evals, global, owner, switches, services, moves>>

-----------------------------------------------------------------------------
Init ==
  /\ phase = [e \in Entry |-> "off"]
  /\ observe \in [Entry -> Stored]
  /\ observing = [e \in Entry |-> FALSE]
  /\ ready = [e \in Entry |-> FALSE]
  /\ ev = [e \in Entry |-> "idle"]
  /\ pending = [e \in Entry |-> FALSE]
  /\ global = [active |-> TRUE, paused |-> FALSE]
  /\ seen = [e \in Entry |-> global]
  /\ loop = [l \in Entry \cup Caller |-> Idle]
  /\ owner = Nobody /\ switches = Nobody
  /\ services = Services
  /\ started = "no" /\ timer = FALSE
  /\ moves = 0

Steps(e) ==
  \/ Write(e) \/ End(e) \/ Load(e) \/ Seed(e) \/ SetUpEvaluated(e) \/ PeersLooked(e)
  \/ PlatformsUp(e) \/ Pop(e) \/ Unloaded(e)

People ==
  \/ \E e \in Entry : SetUp(e) \/ Unload(e) \/ Poll(e)
  \/ \E c \in Caller : SetActive(c) \/ SetPaused(c) \/ Recompute(c) \/ \E e \in Entry : SetObserve(c, e)
  \/ Start

Next ==
  \/ \E e \in Entry : Steps(e)
  \/ \E l \in Entry \cup Caller : Call(l)
  \/ \E c \in Caller : Return(c) \/ Saved(c)
  \/ Refreshed
  \/ People

(* Home Assistant runs every task that can run; nothing makes people act.  *)
Fairness ==
  /\ \A e \in Entry : WF_vars(Steps(e))
  /\ \A l \in Entry \cup Caller : WF_vars(Call(l))
  /\ \A c \in Caller : WF_vars(Return(c)) /\ WF_vars(Saved(c))
  /\ WF_vars(Refreshed)

Spec == Init /\ [][Next]_vars /\ Fairness

-----------------------------------------------------------------------------
(* Every service is there for as long as there is a room to serve, though  *)
(* one room may be set up while the last of the others is being unloaded.  *)
RoomsAreServed == Rooms # {} => services = Services

(* D3: no entry that is gone owns the global switches, for then they would *)
(* not come back with the next entry, and no other entry shows them.       *)
OwnerIsThere ==
  /\ owner # Nobody => phase[owner] # "off"
  /\ switches # Nobody => switches = owner

(* A global switch reaches every room: once no loop is under way, no room  *)
(* has last looked at anything but what the switches say.                  *)
GlobalReachesEveryRoom ==
  (\A c \in Caller : loop[c].kind = "none") =>
    \A e \in Entry : phase[e] = "loaded" /\ ev[e] = "idle" => seen[e] = global

(* No loop waits for ever: a call of a global switch, a service or a       *)
(* setting returns, and an entry that is being set up is set up.           *)
CallsReturn ==
  /\ \A c \in Caller : loop[c].kind # "none" ~> loop[c].kind = "none"
  /\ \A e \in Entry : phase[e] = "load" ~> phase[e] = "loaded"

-----------------------------------------------------------------------------
(***************************************************************************)
(* What README.md says of the observe switch: "Hearth writes nothing to    *)
(* the room: no adaptive comfort write".                                   *)
(***************************************************************************)
ObservedRoomIsNotWritten ==
  [][\A e \in Entry : Writes(e) /\ ev'[e] = "rest" => observe[e] = "off"]_vars

=============================================================================
