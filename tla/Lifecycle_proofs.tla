-------------------------- MODULE Lifecycle_proofs ---------------------------
(***************************************************************************)
(* The services, the owner of the global switches, and how far a change of *)
(* those switches reaches, for any number of rooms.  The first two need to *)
(* know where an entry is in its set-up or unload, and nothing of the      *)
(* evaluations and the loops; the third needs those, and their types.      *)
(***************************************************************************)
EXTENDS Lifecycle, TLAPS

(* The part of the state these proofs are about has its type.              *)
PhasesTyped ==
  /\ phase \in [Entry -> Phases]
  /\ {owner, switches} \subseteq Entry \cup {Nobody}

(* hearth.boost is never removed, so it is there whenever the rest is.     *)
BoostStays == services = Services \/ services = {"boost"}

(* The global switches stand on a platform that is up.                     *)
SwitchesStand == switches # Nobody => phase[switches] \in {"loaded", "closing"}

LifeInv == PhasesTyped /\ BoostStays /\ SwitchesStand /\ RoomsAreServed /\ OwnerIsThere

(* A step that leaves entries, services and ownership alone keeps LifeInv. *)
LEMMA LifeStable == LifeInv /\ UNCHANGED <<phase, owner, switches, services>> => LifeInv'
  BY DEF LifeInv, PhasesTyped, BoostStays, SwitchesStand, RoomsAreServed, OwnerIsThere, Rooms

LEMMA InitLife == Init => LifeInv
  BY PeopleAssumption
  DEF Init, LifeInv, PhasesTyped, BoostStays, SwitchesStand, RoomsAreServed, OwnerIsThere, Rooms, Phases

(* Every step of an entry that does not end its unload moves it on between *)
(* phases that are in Rooms, and may bring up or take down the switches.   *)
LEMMA MoveOn ==
  ASSUME NEW e \in Entry, NEW p \in Phases \ {"off"}, LifeInv, phase[e] # "off", To(e, p),
         UNCHANGED <<owner, services>>,
         p = "unload" \/ phase[e] # "unload",
         switches' = switches \/ (switches' = e /\ owner = e /\ p \in {"loaded", "closing"})
           \/ (switches' = Nobody),
         switches' = e => p \in {"loaded", "closing"}
  PROVE  LifeInv'
<1> USE PeopleAssumption DEF LifeInv, PhasesTyped, To
<1>1. PhasesTyped'
  OBVIOUS
<1>2. BoostStays' /\ OwnerIsThere'
  BY DEF BoostStays, OwnerIsThere
<1>3. SwitchesStand'
  BY DEF SwitchesStand, OwnerIsThere
<1>4. RoomsAreServed'
  <2>1. Rooms' \subseteq Rooms
    BY DEF Rooms
  <2> QED BY <2>1 DEF RoomsAreServed
<1> QED BY <1>1, <1>2, <1>3, <1>4

LEMMA SetUpLife == ASSUME NEW e \in Entry, LifeInv, SetUp(e) PROVE LifeInv'
<1> USE PeopleAssumption DEF LifeInv, PhasesTyped, SetUp, To
<1>1. PhasesTyped'
  BY DEF Phases
<1>2. BoostStays' /\ RoomsAreServed'
  BY DEF BoostStays, RoomsAreServed, Services
<1>3. SwitchesStand'
  BY DEF SwitchesStand
<1>4. OwnerIsThere'
  BY DEF OwnerIsThere
<1> QED BY <1>1, <1>2, <1>3, <1>4

(* The last step of an unload: the entry lets go of the switches, and the  *)
(* services go only when no room is left.                                  *)
LEMMA UnloadedLife == ASSUME NEW e \in Entry, LifeInv, Unloaded(e) PROVE LifeInv'
<1> USE PeopleAssumption DEF LifeInv, PhasesTyped, Unloaded, To
<1>1. PhasesTyped'
  BY DEF Phases
<1>2. Rooms' = Rooms
  BY DEF Rooms
<1>3. BoostStays' /\ RoomsAreServed'
  BY <1>2 DEF BoostStays, RoomsAreServed, Services
<1>4. switches # e
  BY DEF SwitchesStand
<1>5. SwitchesStand' /\ OwnerIsThere'
  BY <1>4 DEF SwitchesStand, OwnerIsThere
<1> QED BY <1>1, <1>3, <1>5

LEMMA StepsLife == ASSUME NEW e \in Entry, LifeInv, Steps(e) PROVE LifeInv'
<1>1. CASE Write(e) \/ End(e)
  BY <1>1, LifeStable DEF Write, End, rooms, shared
<1>2. CASE Load(e)
  BY <1>2, MoveOn, PeopleAssumption DEF Load, shared, LifeInv, SwitchesStand, Phases
<1>3. CASE Seed(e)
  BY <1>3, MoveOn, PeopleAssumption DEF Seed, shared, LifeInv, SwitchesStand, Phases
<1>4. CASE SetUpEvaluated(e)
  BY <1>4, MoveOn, PeopleAssumption DEF SetUpEvaluated, shared, LifeInv, SwitchesStand, Phases
<1>5. CASE PeersLooked(e)
  BY <1>5, MoveOn, PeopleAssumption DEF PeersLooked, shared, LifeInv, SwitchesStand, Phases
<1>6. CASE PlatformsUp(e)
  BY <1>6, MoveOn, PeopleAssumption DEF PlatformsUp, LifeInv, SwitchesStand, Phases
<1>7. CASE Pop(e)
  BY <1>7, MoveOn, PeopleAssumption DEF Pop, LifeInv, SwitchesStand, Phases
<1>8. CASE Unloaded(e)
  BY <1>8, UnloadedLife
<1> QED BY <1>1, <1>2, <1>3, <1>4, <1>5, <1>6, <1>7, <1>8 DEF Steps

LEMMA PeopleLife == ASSUME LifeInv, People PROVE LifeInv'
<1>1. ASSUME NEW e \in Entry, SetUp(e) PROVE LifeInv'
  BY <1>1, SetUpLife
<1>2. ASSUME NEW e \in Entry, Unload(e) PROVE LifeInv'
  BY <1>2, MoveOn, PeopleAssumption DEF Unload, shared, LifeInv, SwitchesStand, Phases
<1>3. ASSUME NEW e \in Entry, Poll(e) PROVE LifeInv'
  BY <1>3, LifeStable DEF Poll, rooms, shared
<1>4. ASSUME NEW c \in Caller, SetActive(c) \/ SetPaused(c) PROVE LifeInv'
  BY <1>4, LifeStable DEF SetActive, SetPaused, Change, rooms
<1>5. ASSUME NEW c \in Caller, Recompute(c) PROVE LifeInv'
  BY <1>5, LifeStable DEF Recompute, rooms, shared
<1>6. ASSUME NEW c \in Caller, NEW e \in Entry, SetObserve(c, e) PROVE LifeInv'
  BY <1>6, LifeStable DEF SetObserve, shared
<1>7. CASE Start
  BY <1>7, LifeStable DEF Start, rooms
<1> QED BY <1>1, <1>2, <1>3, <1>4, <1>5, <1>6, <1>7 DEF People

LEMMA NextLife == LifeInv /\ [Next]_vars => LifeInv'
<1> SUFFICES ASSUME LifeInv, [Next]_vars PROVE LifeInv'
  OBVIOUS
<1>1. ASSUME NEW e \in Entry, Steps(e) PROVE LifeInv'
  BY <1>1, StepsLife
<1>2. ASSUME NEW l \in Entry \cup Caller, Call(l) PROVE LifeInv'
  BY <1>2, LifeStable DEF Call, rooms, shared
<1>3. ASSUME NEW c \in Caller, Return(c) \/ Saved(c) PROVE LifeInv'
  BY <1>3, LifeStable DEF Return, Saved, rooms, shared
<1>4. CASE Refreshed
  BY <1>4, LifeStable DEF Refreshed, rooms
<1>5. CASE People
  BY <1>5, PeopleLife
<1>6. CASE UNCHANGED vars
  BY <1>6, LifeStable DEF vars, rooms, shared
<1> QED BY <1>1, <1>2, <1>3, <1>4, <1>5, <1>6 DEF Next

-----------------------------------------------------------------------------
(***************************************************************************)
(* async_setup_services and async_unload_services: for any number of       *)
(* rooms, every service is registered while a room is there.               *)
(***************************************************************************)
THEOREM ServicesHold == Spec => []RoomsAreServed
<1>1. LifeInv => RoomsAreServed
  BY DEF LifeInv
<1> QED BY <1>1, InitLife, NextLife, PTL DEF Spec

(***************************************************************************)
(* owner_entry_id (D3): for any number of rooms, the owner of the global   *)
(* switches is an entry that is there, and only the owner shows them.      *)
(***************************************************************************)
THEOREM OwnerHolds == Spec => []OwnerIsThere
<1>1. LifeInv => OwnerIsThere
  BY DEF LifeInv
<1> QED BY <1>1, InitLife, NextLife, PTL DEF Spec

-----------------------------------------------------------------------------
(***************************************************************************)
(* The types of the whole state, the loops among it.                       *)
(***************************************************************************)
LoopRec == [kind : Kinds, saving : BOOLEAN, todo : SUBSET Entry,
            on : Entry \cup {Nobody}, of : Entry \cup {Nobody}]

EvTyped == /\ ev \in [Entry -> {"idle", "write", "rest"}]
           /\ pending \in [Entry -> BOOLEAN]
           /\ seen \in [Entry -> Globals]
LoopTyped == loop \in [Entry \cup Caller -> LoopRec]

(* A loop that goes on is a loop.                                          *)
LEMMA LoopGoesOn ==
  ASSUME NEW r \in LoopRec, NEW T \in SUBSET Entry, NEW o \in Entry \cup {Nobody}
  PROVE  /\ [r EXCEPT !.todo = T, !.on = o] \in LoopRec
         /\ [r EXCEPT !.saving = FALSE, !.todo = T] \in LoopRec
<1>1. [r EXCEPT !.todo = T, !.on = o] \in LoopRec
  BY Zenon DEF LoopRec
<1>2. [r EXCEPT !.saving = FALSE, !.todo = T] \in LoopRec
  BY Zenon DEF LoopRec
<1> QED
  BY <1>1, <1>2

LEMMA PopTypes ==
  ASSUME TypeOK, NEW e \in Entry, Pop(e)
  PROVE  LoopTyped'
<1>1. LoopTyped
  BY DEF TypeOK, LoopTyped, LoopRec
<1>2. ASSUME NEW l \in Entry \cup Caller
      PROVE  loop'[l] \in LoopRec
  <2> DEFINE T == loop[l].todo \ {e}
             o == IF loop[l].on = e THEN Nobody ELSE loop[l].on
  <2>1. loop[l] \in LoopRec /\ T \in SUBSET Entry /\ o \in Entry \cup {Nobody}
    BY <1>1 DEF LoopTyped, LoopRec
  <2>2. loop'[l] = [loop[l] EXCEPT !.todo = T, !.on = o]
    BY <1>1 DEF Pop, LoopTyped
  <2> HIDE DEF T, o
  <2>3. [loop[l] EXCEPT !.todo = T, !.on = o] \in LoopRec
    BY <2>1, LoopGoesOn
  <2> QED
    BY <2>2, <2>3
<1>3. loop' = [l \in Entry \cup Caller |-> loop'[l]]
  BY <1>1 DEF Pop, LoopTyped
<1> QED
  BY <1>2, <1>3 DEF LoopTyped

LEMMA SavedTypes ==
  ASSUME TypeOK, NEW c \in Caller, Saved(c)
  PROVE  LoopTyped'
<1> DEFINE T == IF loop[c].kind = "change" THEN Rooms ELSE loop[c].todo
           r == [loop[c] EXCEPT !.saving = FALSE, !.todo = T]
<1>1. LoopTyped
  BY DEF TypeOK, LoopTyped, LoopRec
<1>2. loop[c] \in LoopRec /\ T \in SUBSET Entry
  BY <1>1 DEF LoopTyped, LoopRec, Rooms
<1>3. r \in LoopRec
  <2> HIDE DEF T
  <2> QED
    BY <1>2, PeopleAssumption, LoopGoesOn
<1>4. loop' = [loop EXCEPT ![c] = r]
  BY DEF Saved
<1> HIDE DEF r
<1> QED
  BY <1>1, <1>3, <1>4 DEF LoopTyped

LEMMA BeginTypes ==
  ASSUME TypeOK, NEW e \in Entry, Begin(e)
  PROVE  ev' \in [Entry -> {"idle", "write", "rest"}] /\ seen' \in [Entry -> Globals]
BY DEF TypeOK, Begin

LEMMA AskTypes ==
  ASSUME TypeOK, NEW l \in Entry \cup Caller, NEW e \in Entry, Ask(l, e)
  PROVE  EvTyped' /\ LoopTyped'
<1>1. LoopTyped
  BY DEF TypeOK, LoopTyped, LoopRec
<1>2. CASE ev[e] = "idle"
  <2>1. loop' = [loop EXCEPT ![l].todo = @ \ {e}, ![l].on = e] /\ Begin(e) /\ UNCHANGED pending
    BY <1>2 DEF Ask
  <2>2. LoopTyped'
    BY <1>1, <2>1 DEF LoopTyped, LoopRec
  <2> QED
    BY <2>1, <2>2, BeginTypes DEF EvTyped, TypeOK
<1>3. CASE ev[e] # "idle"
  <2>1. loop' = [loop EXCEPT ![l].todo = @ \ {e}] /\ pending' = [pending EXCEPT ![e] = TRUE] /\ UNCHANGED <<ev, seen>>
    BY <1>3 DEF Ask
  <2>2. LoopTyped'
    BY <1>1, <2>1 DEF LoopTyped, LoopRec
  <2> QED
    BY <2>1, <2>2 DEF EvTyped, TypeOK
<1> QED
  BY <1>2, <1>3

LEMMA MoveTypes == ASSUME TypeOK, Move PROVE moves' \in 0..MaxMoves
BY PeopleAssumption DEF TypeOK, Move

LEMMA ToTypes == ASSUME TypeOK, NEW e \in Entry, NEW p \in Phases, To(e, p) PROVE phase' \in [Entry -> Phases]
BY DEF TypeOK, To

LEMMA InitTypes == Init => TypeOK
<1> SUFFICES ASSUME Init PROVE TypeOK
  OBVIOUS
<1>1. global \in Globals
  BY DEF Init, Globals
<1>2. Idle \in LoopRec
  BY DEF Kinds, Idle, LoopRec
<1>3. EvTyped
  BY <1>1 DEF Init, EvTyped
<1>4. LoopTyped
  BY <1>2 DEF Init, LoopTyped
<1>5. phase \in [Entry -> Phases] /\ observe \in [Entry -> {"new", "on", "off"}]
  BY PeopleAssumption DEF Init, Phases
<1>6. observing \in [Entry -> BOOLEAN] /\ ready \in [Entry -> BOOLEAN]
  BY DEF Init
<1>7. moves \in 0..MaxMoves /\ services \subseteq Services /\ {owner, switches} \subseteq Entry \cup {Nobody}
  BY PeopleAssumption DEF Init
<1>8. started \in {"no", "refreshing", "yes"} /\ timer \in BOOLEAN
  BY DEF Init
<1> QED
  BY <1>1, <1>3, <1>4, <1>5, <1>6, <1>7, <1>8 DEF TypeOK, EvTyped, LoopTyped, LoopRec

LEMMA StepsTypes == ASSUME TypeOK, NEW e \in Entry, Steps(e) PROVE TypeOK'
<1> USE DEF TypeOK, EvTyped, LoopTyped, LoopRec
<1>0. {"off", "load", "seed", "setup", "peers", "platforms", "loaded", "closing", "unload"} = Phases
  BY DEF Phases
<1>1. CASE Write(e)
  BY <1>1 DEF Write, rooms, shared
<1>2. CASE End(e)
  <2>1. EvTyped'
    BY <1>2, BeginTypes DEF End
  <2>2. LoopTyped'
    <3>1. CASE UNCHANGED loop
      BY <3>1
    <3>2. CASE loop' = [l \in DOMAIN loop |->
                          IF loop[l].on = e THEN [loop[l] EXCEPT !.on = Nobody] ELSE loop[l]]
      BY <3>2
    <3> QED
      BY <1>2, <3>1, <3>2 DEF End
  <2> QED
    BY <1>2, <2>1, <2>2 DEF End, rooms, shared
<1>3. CASE Load(e)
  BY <1>0, <1>3, ToTypes DEF Load, evals, shared
<1>4. CASE Seed(e)
  BY <1>0, <1>4, ToTypes, AskTypes DEF Seed, shared
<1>5. CASE SetUpEvaluated(e)
  <2>1. [Idle EXCEPT !.kind = "peers", !.todo = Rooms \ {e}] \in LoopRec
    BY DEF Kinds, Idle, Rooms
  <2>2. LoopTyped'
    BY <1>5, <2>1 DEF SetUpEvaluated
  <2> QED
    BY <1>0, <1>5, <2>2, ToTypes DEF SetUpEvaluated, shared
<1>6. CASE PeersLooked(e)
  <2>1. Idle \in LoopRec
    BY DEF Kinds, Idle
  <2>2. LoopTyped'
    BY <1>6, <2>1 DEF PeersLooked
  <2> QED
    BY <1>0, <1>6, <2>2, ToTypes DEF PeersLooked, shared
<1>7. CASE PlatformsUp(e)
  BY <1>0, <1>7, ToTypes DEF PlatformsUp, evals
<1>8. CASE Pop(e)
  <2>1. LoopTyped'
    BY <1>8, PopTypes
  <2> QED
    BY <1>0, <1>8, <2>1, ToTypes DEF Pop
<1>9. CASE Unloaded(e)
  BY <1>0, <1>9, ToTypes DEF Unloaded, evals
<1> QED
  BY <1>1, <1>2, <1>3, <1>4, <1>5, <1>6, <1>7, <1>8, <1>9 DEF Steps

(* A loop of a person begins or goes on, or several at once.               *)
LEMMA LoopsTypes ==
  ASSUME TypeOK,
         \/ \E l \in Entry \cup Caller : Call(l)
         \/ \E c \in Caller : Return(c) \/ Saved(c)
  PROVE  TypeOK'
<1> USE DEF TypeOK, EvTyped, LoopTyped, LoopRec
<1>1. ASSUME NEW l \in Entry \cup Caller, Call(l)
      PROVE  TypeOK'
  <2>1. PICK e \in loop[l].todo :
          \/ loop' = [loop EXCEPT ![l].todo = @ \ {e}] /\ UNCHANGED <<ev, pending, seen>>
          \/ Ask(l, e)
    BY <1>1 DEF Call
  <2>2. e \in Entry
    OBVIOUS
  <2>3. CASE loop' = [loop EXCEPT ![l].todo = @ \ {e}] /\ UNCHANGED <<ev, pending, seen>>
    BY <1>1, <2>3 DEF Call, rooms, shared
  <2>4. CASE Ask(l, e)
    BY <1>1, <2>2, <2>4, AskTypes DEF Call, rooms, shared
  <2> QED
    BY <2>1, <2>3, <2>4
<1>2. ASSUME NEW c \in Caller, Return(c)
      PROVE  TypeOK'
  <2>1. Idle \in LoopRec /\ \A T \in SUBSET Entry : [Idle EXCEPT !.kind = "peers", !.todo = T] \in LoopRec
    BY DEF Kinds, Idle
  <2>2. Rooms \ {loop[c].of} \in SUBSET Entry
    BY DEF Rooms
  <2>3. LoopTyped'
    BY <1>2, <2>1, <2>2 DEF Return
  <2> QED
    BY <1>2, <2>3 DEF Return, rooms, shared
<1>3. ASSUME NEW c \in Caller, Saved(c)
      PROVE  TypeOK'
  <2>1. LoopTyped'
    BY <1>3, SavedTypes
  <2> QED
    BY <1>3, <2>1 DEF Saved, rooms, shared
<1> QED
  BY <1>1, <1>2, <1>3

LEMMA PeopleTypes == ASSUME TypeOK, People PROVE TypeOK'
<1> USE DEF TypeOK, EvTyped, LoopTyped, LoopRec
<1>0. {"off", "load", "seed", "setup", "peers", "platforms", "loaded", "closing", "unload"} = Phases
  BY DEF Phases
<1>1. ASSUME NEW e \in Entry, SetUp(e)
      PROVE  TypeOK'
  BY <1>0, <1>1, ToTypes, MoveTypes DEF SetUp, evals
<1>2. ASSUME NEW e \in Entry, Unload(e)
      PROVE  TypeOK'
  BY <1>0, <1>2, ToTypes, MoveTypes DEF Unload, evals, shared
<1>3. ASSUME NEW e \in Entry, Poll(e)
      PROVE  TypeOK'
  <2>1. EvTyped'
    BY <1>3, BeginTypes DEF Poll
  <2> QED
    BY <1>3, <2>1, MoveTypes DEF Poll, rooms, shared
<1>4. ASSUME NEW c \in Caller, SetActive(c) \/ SetPaused(c)
      PROVE  TypeOK'
  <2>1. PICK new \in Globals : Change(c, new)
    BY <1>4 DEF SetActive, SetPaused, Globals
  <2>2. [Idle EXCEPT !.kind = "change", !.saving = TRUE] \in LoopRec
    BY DEF Kinds, Idle
  <2>3. LoopTyped'
    BY <2>1, <2>2 DEF Change
  <2> QED
    BY <2>1, <2>3, MoveTypes DEF Change, rooms
<1>5. ASSUME NEW c \in Caller, Recompute(c)
      PROVE  TypeOK'
  <2>1. [Idle EXCEPT !.kind = "service", !.todo = Rooms] \in LoopRec
    BY DEF Kinds, Idle, Rooms
  <2>2. LoopTyped'
    BY <1>5, <2>1 DEF Recompute
  <2> QED
    BY <1>5, <2>2, MoveTypes DEF Recompute, rooms, shared
<1>6. ASSUME NEW c \in Caller, NEW e \in Entry, SetObserve(c, e)
      PROVE  TypeOK'
  <2>1. [Idle EXCEPT !.kind = "setting", !.saving = TRUE, !.todo = {e}, !.of = e] \in LoopRec
    BY DEF Kinds, Idle
  <2>2. LoopTyped'
    BY <1>6, <2>1 DEF SetObserve
  <2> QED
    BY <1>6, <2>2, MoveTypes DEF SetObserve, shared
<1>7. CASE Start
  BY <1>7, MoveTypes DEF Start, rooms, evals
<1> QED
  BY <1>1, <1>2, <1>3, <1>4, <1>5, <1>6, <1>7 DEF People

LEMMA NextTypes == TypeOK /\ [Next]_vars => TypeOK'
<1> SUFFICES ASSUME TypeOK, [Next]_vars PROVE TypeOK'
  OBVIOUS
<1>1. CASE Refreshed
  BY <1>1 DEF Refreshed, rooms, evals, TypeOK
<1>2. CASE UNCHANGED vars
  BY <1>2 DEF vars, rooms, evals, shared, TypeOK
<1> QED
  BY <1>1, <1>2, StepsTypes, LoopsTypes, PeopleTypes DEF Next

(***************************************************************************)
(* Every reachable state has the types of the model, for any number of     *)
(* rooms, loops and moves: a loop waits for a room or for nobody, and has  *)
(* nothing but rooms left to call.                                         *)
(***************************************************************************)
THEOREM TypesHold == Spec => []TypeOK
BY InitTypes, NextTypes, PTL DEF Spec

-----------------------------------------------------------------------------
(***************************************************************************)
(* The global switches.  A room that has been evaluated once and has last  *)
(* looked at other switches is asked to look again, or a change is still   *)
(* under way: it is not stored yet, or it has yet to call the room.        *)
(***************************************************************************)
InUse(e)   == phase[e] \in {"setup", "peers", "platforms", "loaded", "closing"}
Asked(e)   == pending[e] /\ ev[e] # "idle"
Told(c, e) == loop[c].kind = "change" /\ (loop[c].saving \/ e \in loop[c].todo)
Reached(e) == InUse(e) => seen[e] = global \/ Asked(e) \/ \E c \in Caller : Told(c, e)
ReachInv   == TypeOK /\ \A e \in Entry : Reached(e)

(* What a step leaves alone of a room and of a change under way stays.     *)
LEMMA ReachedFrame ==
  ASSUME NEW e \in Entry, Reached(e),
         InUse(e)' => InUse(e),
         UNCHANGED <<seen[e], global>>,
         Asked(e) => Asked(e)',
         \A c \in Caller : Told(c, e) => Told(c, e)'
  PROVE  Reached(e)'
BY DEF Reached

(* A loop calls a room: the room looks now, or once more when it is done.  *)
LEMMA AskReached ==
  ASSUME TypeOK, NEW l \in Entry \cup Caller, NEW e \in Entry, Ask(l, e), UNCHANGED global
  PROVE  seen'[e] = global' \/ Asked(e)'
BY DEF Ask, Begin, Asked, TypeOK

LEMMA AskOthers ==
  ASSUME TypeOK, NEW l \in Entry \cup Caller, NEW e \in Entry, Ask(l, e),
         NEW d \in Entry, d # e
  PROVE  /\ seen'[d] = seen[d] /\ (Asked(d) => Asked(d)')
         /\ \A c \in Caller : Told(c, d) => Told(c, d)'
<1>1. seen'[d] = seen[d] /\ ev'[d] = ev[d] /\ pending'[d] = pending[d]
  BY DEF Ask, Begin, TypeOK
<1>2. ASSUME NEW c \in Caller
      PROVE  /\ loop'[c].kind = loop[c].kind /\ loop'[c].saving = loop[c].saving
             /\ d \in loop[c].todo => d \in loop'[c].todo
  BY DEF Ask, TypeOK
<1> QED
  BY <1>1, <1>2 DEF Asked, Told

LEMMA StepsReach ==
  ASSUME ReachInv, NEW e \in Entry, Steps(e), NEW d \in Entry
  PROVE  Reached(d)'
<1>0. TypeOK /\ Reached(d)
  BY DEF ReachInv
<1>1. CASE Write(e)
  BY <1>0, <1>1, ReachedFrame DEF Write, rooms, shared, InUse, Asked, Told, TypeOK
<1>2. CASE End(e)
  <2>1. UNCHANGED <<phase, global>>
    BY <1>2 DEF End, rooms, shared
  <2>2. \A c \in Caller : Told(c, d) => Told(c, d)'
    <3>1. ASSUME NEW c \in Caller
          PROVE  /\ loop'[c].kind = loop[c].kind /\ loop'[c].saving = loop[c].saving
                 /\ loop'[c].todo = loop[c].todo
      BY <1>0, <1>2 DEF End, TypeOK
    <3> QED
      BY <3>1 DEF Told
  <2>3. CASE d = e /\ pending[e]
    BY <1>0, <1>2, <2>1, <2>3 DEF End, Begin, Reached, TypeOK
  <2>4. CASE d = e /\ ~pending[e]
    BY <1>0, <1>2, <2>1, <2>2, <2>4, ReachedFrame DEF End, Asked, InUse
  <2>5. CASE d # e
    <3>1. seen'[d] = seen[d] /\ ev'[d] = ev[d] /\ pending'[d] = pending[d]
      BY <1>0, <1>2, <2>5 DEF End, Begin, TypeOK
    <3> QED
      BY <1>0, <2>1, <2>2, <3>1, ReachedFrame DEF Asked, InUse
  <2> QED
    BY <2>3, <2>4, <2>5
<1>3. CASE Seed(e)
  <2>1. Ask(e, e) /\ UNCHANGED global
    BY <1>3 DEF Seed, shared
  <2>2. CASE d = e
    BY <1>0, <2>1, <2>2, AskReached DEF Reached
  <2>3. CASE d # e
    <3>1. InUse(d)' => InUse(d)
      BY <1>0, <1>3, <2>3 DEF Seed, To, InUse, TypeOK
    <3> QED
      BY <1>0, <2>1, <2>3, <3>1, AskOthers, ReachedFrame
  <2> QED
    BY <2>2, <2>3
<1>4. CASE SetUpEvaluated(e) \/ PeersLooked(e)
  <2>1. UNCHANGED <<ev, pending, seen, global>>
    BY <1>4 DEF SetUpEvaluated, PeersLooked, shared
  <2>2. \A c \in Caller : loop'[c] = loop[c]
    BY <1>0, <1>4, PeopleAssumption DEF SetUpEvaluated, PeersLooked, TypeOK
  <2>3. InUse(d)' => InUse(d)
    BY <1>0, <1>4 DEF SetUpEvaluated, PeersLooked, To, InUse, TypeOK
  <2> QED
    BY <1>0, <2>1, <2>2, <2>3, ReachedFrame DEF Asked, Told
<1>5. CASE Load(e) \/ PlatformsUp(e) \/ Unloaded(e)
  <2>1. UNCHANGED <<ev, pending, seen, loop, global>>
    BY <1>5 DEF Load, PlatformsUp, Unloaded, evals, shared
  <2>2. InUse(d)' => InUse(d)
    BY <1>0, <1>5 DEF Load, PlatformsUp, Unloaded, To, InUse, TypeOK
  <2> QED
    BY <1>0, <2>1, <2>2, ReachedFrame DEF Asked, Told
<1>6. CASE Pop(e)
  <2>1. CASE d = e
    BY <1>0, <1>6, <2>1 DEF Pop, To, InUse, Reached, TypeOK
  <2>2. CASE d # e
    <3>1. ASSUME NEW c \in Caller
          PROVE  /\ loop'[c].kind = loop[c].kind /\ loop'[c].saving = loop[c].saving
                 /\ loop'[c].todo = loop[c].todo \ {e}
      <4> DEFINE T == loop[c].todo \ {e}
                 o == IF loop[c].on = e THEN Nobody ELSE loop[c].on
      <4>1. loop[c] \in LoopRec
        BY <1>0 DEF TypeOK, LoopRec
      <4>2. loop'[c] = [loop[c] EXCEPT !.todo = T, !.on = o]
        BY <1>0, <1>6 DEF Pop, TypeOK
      <4> HIDE DEF T, o
      <4>3. /\ loop'[c].kind = loop[c].kind /\ loop'[c].saving = loop[c].saving
            /\ loop'[c].todo = T
        BY <4>1, <4>2 DEF LoopRec
      <4> QED
        BY <4>3 DEF T
    <3>2. /\ UNCHANGED <<seen, global>> /\ ev'[d] = ev[d] /\ pending'[d] = pending[d]
          /\ InUse(d)' => InUse(d)
      BY <1>0, <1>6, <2>2 DEF Pop, To, InUse, TypeOK
    <3> QED
      BY <1>0, <2>2, <3>1, <3>2, ReachedFrame DEF Asked, Told
  <2> QED
    BY <2>1, <2>2
<1> QED
  BY <1>1, <1>2, <1>3, <1>4, <1>5, <1>6 DEF Steps

(* A loop goes on: what a change has yet to call is called, and nothing    *)
(* else of it is lost.                                                     *)
LEMMA LoopsReach ==
  ASSUME ReachInv, NEW d \in Entry,
         \/ \E l \in Entry \cup Caller : Call(l)
         \/ \E c \in Caller : Return(c) \/ Saved(c)
  PROVE  Reached(d)'
<1>0. TypeOK /\ Reached(d)
  BY DEF ReachInv
<1>1. ASSUME NEW l \in Entry \cup Caller, Call(l)
      PROVE  Reached(d)'
  <2>1. PICK e \in loop[l].todo :
          \/ /\ loop[l].kind = "peers"
             /\ loop' = [loop EXCEPT ![l].todo = @ \ {e}] /\ UNCHANGED <<ev, pending, seen>>
          \/ Ask(l, e)
    BY <1>1 DEF Call
  <2>2. e \in Entry /\ UNCHANGED <<phase, global>>
    BY <1>0, <1>1 DEF Call, rooms, shared, TypeOK
  <2>3. CASE Ask(l, e) /\ d = e
    BY <1>0, <2>2, <2>3, AskReached DEF Reached
  <2>4. CASE Ask(l, e) /\ d # e
    BY <1>0, <2>2, <2>4, AskOthers, ReachedFrame DEF InUse
  <2>5. CASE loop[l].kind = "peers" /\ loop' = [loop EXCEPT ![l].todo = @ \ {e}] /\ UNCHANGED <<ev, pending, seen>>
    <3>1. \A c \in Caller : Told(c, d) => Told(c, d)'
      BY <1>0, <2>5 DEF Told, TypeOK
    <3> QED
      BY <1>0, <2>2, <2>5, <3>1, ReachedFrame DEF InUse, Asked
  <2> QED
    BY <2>1, <2>3, <2>4, <2>5
<1>2. ASSUME NEW c \in Caller, Return(c)
      PROVE  Reached(d)'
  <2>1. UNCHANGED <<phase, ev, pending, seen, global>> /\ ~Told(c, d)
    BY <1>2 DEF Return, rooms, shared, Told
  <2>2. \A b \in Caller : Told(b, d) => Told(b, d)'
    BY <1>0, <1>2, <2>1 DEF Return, Told, TypeOK
  <2> QED
    BY <1>0, <2>1, <2>2, ReachedFrame DEF InUse, Asked
<1>3. ASSUME NEW c \in Caller, Saved(c)
      PROVE  Reached(d)'
  <2>1. UNCHANGED <<phase, ev, pending, seen, global>>
    BY <1>3 DEF Saved, rooms, shared
  <2>2. CASE ~InUse(d)
    BY <2>1, <2>2 DEF Reached, InUse
  <2>3. CASE InUse(d)
    <3>1. d \in Rooms
      BY <2>3 DEF InUse, Rooms
    <3>2. Told(c, d) => Told(c, d)'
      BY <1>0, <1>3, <3>1 DEF Saved, Told, TypeOK
    <3>3. \A b \in Caller \ {c} : Told(b, d) => Told(b, d)'
      BY <1>0, <1>3 DEF Saved, Told, TypeOK
    <3> QED
      BY <1>0, <2>1, <3>2, <3>3, ReachedFrame DEF InUse, Asked
  <2> QED
    BY <2>2, <2>3
<1> QED
  BY <1>1, <1>2, <1>3

LEMMA PeopleReach ==
  ASSUME ReachInv, People, NEW d \in Entry
  PROVE  Reached(d)'
<1>0. TypeOK /\ Reached(d)
  BY DEF ReachInv
<1>1. ASSUME NEW e \in Entry, SetUp(e) \/ Unload(e)
      PROVE  Reached(d)'
  <2>1. UNCHANGED <<ev, pending, seen, loop, global>>
    BY <1>1 DEF SetUp, Unload, evals, shared
  <2>2. InUse(d)' => InUse(d)
    BY <1>0, <1>1 DEF SetUp, Unload, To, InUse, TypeOK
  <2> QED
    BY <1>0, <2>1, <2>2, ReachedFrame DEF Asked, Told
<1>2. ASSUME NEW e \in Entry, Poll(e)
      PROVE  Reached(d)'
  <2>1. UNCHANGED <<phase, loop, global>>
    BY <1>2 DEF Poll, rooms, shared
  <2>2. CASE d = e
    BY <1>0, <1>2, <2>1, <2>2 DEF Poll, Begin, Reached, Asked, TypeOK
  <2>3. CASE d # e
    <3>1. seen'[d] = seen[d] /\ ev'[d] = ev[d] /\ pending'[d] = pending[d]
      BY <1>0, <1>2, <2>3 DEF Poll, Begin, TypeOK
    <3> QED
      BY <1>0, <2>1, <3>1, ReachedFrame DEF InUse, Asked, Told
  <2> QED
    BY <2>2, <2>3
<1>3. ASSUME NEW c \in Caller, SetActive(c) \/ SetPaused(c)
      PROVE  Reached(d)'
  <2>1. loop' = [loop EXCEPT ![c] = [Idle EXCEPT !.kind = "change", !.saving = TRUE]]
    BY <1>3 DEF SetActive, SetPaused, Change
  <2>2. loop'[c].kind = "change" /\ loop'[c].saving
    BY <1>0, <2>1 DEF Idle, TypeOK
  <2> QED
    BY <2>2 DEF Reached, Told
<1>4. ASSUME NEW c \in Caller,
             Recompute(c) \/ \E e \in Entry : SetObserve(c, e)
      PROVE  Reached(d)'
  <2>1. UNCHANGED <<phase, ev, pending, seen, global>> /\ loop[c].kind = "none"
    BY <1>4 DEF Recompute, SetObserve, rooms, shared
  <2>2. \A b \in Caller \ {c} : loop'[b] = loop[b]
    BY <1>0, <1>4 DEF Recompute, SetObserve, TypeOK
  <2> QED
    BY <1>0, <2>1, <2>2, ReachedFrame DEF InUse, Asked, Told
<1>5. CASE Start
  BY <1>0, <1>5, ReachedFrame DEF Start, rooms, evals, InUse, Asked, Told
<1> QED
  BY <1>1, <1>2, <1>3, <1>4, <1>5 DEF People

LEMMA NextReach == ReachInv /\ [Next]_vars => ReachInv'
<1> SUFFICES ASSUME ReachInv, [Next]_vars PROVE ReachInv'
  OBVIOUS
<1>1. TypeOK'
  BY NextTypes DEF ReachInv
<1>2. ASSUME NEW d \in Entry
      PROVE  Reached(d)'
  <2>1. CASE Refreshed \/ UNCHANGED vars
    <3>1. UNCHANGED <<phase, ev, pending, seen, loop, global>>
      BY <2>1 DEF Refreshed, vars, rooms, evals, shared
    <3> QED
      BY <3>1 DEF ReachInv, Reached, InUse, Asked, Told
  <2> QED
    BY <2>1, StepsReach, LoopsReach, PeopleReach DEF Next
<1> QED
  BY <1>1, <1>2 DEF ReachInv

(***************************************************************************)
(* For any number of rooms, of loops and of moves: once no loop is under   *)
(* way, every room that is loaded and rests has last looked at the global  *)
(* switches as they are.                                                   *)
(***************************************************************************)
THEOREM GlobalHolds == Spec => []GlobalReachesEveryRoom
<1>1. Init => ReachInv
  BY InitTypes DEF Init, ReachInv, Reached, InUse
<1>2. ReachInv => GlobalReachesEveryRoom
  BY DEF ReachInv, Reached, InUse, Asked, Told, GlobalReachesEveryRoom
<1> QED
  BY <1>1, <1>2, NextReach, PTL DEF Spec

=============================================================================
