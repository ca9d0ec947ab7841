------------------------ MODULE PresetControl_proofs ------------------------
(***************************************************************************)
(* What holds of a room's preset for every day of blocks, every window and *)
(* time-out, and any number of moves of people and of the VTherm.          *)
(***************************************************************************)
EXTENDS PresetControl, TLAPS, WellFoundedInduction

(***************************************************************************)
(* A set of slots has a first one and, with an end, a last one: so there   *)
(* always is a block in force, and a stand-down always has an end.         *)
(***************************************************************************)
LEMMA FirstExists ==
  ASSUME NEW S \in SUBSET Nat, S # {}
  PROVE  \E m \in S : \A n \in S : m <= n
<1>1. PICK m \in S : \A n \in S : ~ (<<n, m>> \in OpToRel(<, Nat))
  BY NatLessThanWellFounded, WFMin
<1>2. ASSUME NEW n \in S
      PROVE  m <= n
  <2>1. n \in Nat /\ m \in Nat
    OBVIOUS
  <2>2. n < m => <<n, m>> \in OpToRel(<, Nat)
    BY <2>1 DEF OpToRel
  <2>3. ~ (<<n, m>> \in OpToRel(<, Nat))
    BY <1>1
  <2>4. ~ (n < m)
    BY <2>2, <2>3
  <2> QED
    BY <2>1, <2>4
<1> QED
  BY <1>2

LEMMA LastExists ==
  ASSUME NEW k \in Nat, NEW S \in SUBSET (0..k), S # {}
  PROVE  \E m \in S : \A n \in S : n <= m
<1> DEFINE T == {k - n : n \in S}
<1>1. T \in SUBSET Nat /\ T # {}
  <2>1. \A n \in S : k - n \in Nat
    OBVIOUS
  <2> QED
    BY <2>1
<1>2. PICK d \in T : \A e \in T : d <= e
  <2> HIDE DEF T
  <2> QED
    BY <1>1, FirstExists
<1>3. PICK m \in S : d = k - m
  BY <1>2
<1>4. ASSUME NEW n \in S
      PROVE  n <= m
  <2>1. k - n \in T
    OBVIOUS
  <2> QED
    <3>1. k - m <= k - n
      BY <1>2, <1>3, <2>1
    <3>2. m \in Int /\ n \in Int
      OBVIOUS
    <3> QED
      BY <3>1, <3>2
<1> QED
  BY <1>4

LEMMA SlotsAreNat == At \subseteq Nat /\ 0 \in At
BY ScheduleAssumption DEF Time

LEMMA CurrentIs ==
  ASSUME now \in Time
  PROVE  /\ Current \in At /\ Current <= now
         /\ \A b \in At : b <= now => b <= Current
<1> DEFINE S == {a \in At : a <= now}
<1>1. now \in Nat /\ S \in SUBSET (0..now) /\ 0 \in S
  <2>1. now \in Nat
    BY ScheduleAssumption DEF Time
  <2>2. \A a \in S : a \in 0..now
    BY <2>1, SlotsAreNat
  <2>3. 0 \in S
    BY <2>1, SlotsAreNat
  <2> HIDE DEF S
  <2> QED
    BY <2>1, <2>2, <2>3
<1>2. PICK m \in S : \A n \in S : n <= m
  <2> HIDE DEF S
  <2> QED
    BY <1>1, LastExists
<1>3. \E a \in At : a <= now /\ \A b \in At : b <= now => b <= a
  BY <1>2
<1> QED
  BY <1>3 DEF Current

LEMMA StandDownEnds ==
  ASSUME now \in Time
  PROVE  StandDownUntil \in Nat /\ now < StandDownUntil
<1> DEFINE ends == {now + Timeout} \cup (IF Enabled("schedule") THEN Upcoming ELSE {})
<1>1. ends \in SUBSET Nat /\ ends # {} /\ \A e \in ends : now < e
  <2>1. now + Timeout \in Nat /\ now < now + Timeout
    BY ScheduleAssumption, SizesAssumption DEF Time
  <2>2. Upcoming \subseteq Nat /\ \A e \in Upcoming : now < e
    BY SlotsAreNat, ScheduleAssumption DEF Upcoming, Time
  <2> QED
    BY <2>1, <2>2
<1>2. \E m \in ends : \A n \in ends : m <= n
  <2> HIDE DEF ends
  <2> QED
    BY <1>1, FirstExists
<1> QED
  BY <1>1, <1>2 DEF StandDownUntil

LEMMA BlockPresets == \A b \in At : PresetOf[b] \in Presets /\ b \in Time
BY ScheduleAssumption

-----------------------------------------------------------------------------
(***************************************************************************)
(* The helpers keep the types of what they change.                         *)
(***************************************************************************)
LEMMA ScopeTypes ==
  ASSUME TypeOK, NEW v \in Scopes, UpdateDormant(v)
  PROVE  reason' \in Scopes \cup {"disabled", "paused"} /\ resume' \in BOOLEAN
BY DEF TypeOK, UpdateDormant, ComputeDormant, LeavesPause

LEMMA MoveTypes ==
  ASSUME TypeOK, moves < MaxMoves
  PROVE  moves + 1 \in 0..MaxMoves
BY SizesAssumption DEF TypeOK

LEMMA ArriveTypes ==
  ASSUME TypeOK, NEW p \in Presets, Arrive(p)
  PROVE  /\ preset' \in Presets
         /\ boost' \in [on : BOOLEAN, from : Presets, until : Nat, by : Owners]
         /\ boostEnded' \in BOOLEAN
         /\ standdown' \in [until : Nat, cause : {"none", "change", "boost", "service"}]
         /\ reason' \in Scopes \cup {"disabled", "paused"} /\ resume' \in BOOLEAN
         /\ due' \in BOOLEAN
<1>1. UpdateDormant(vt) /\ vt \in Scopes
  BY DEF Arrive, TypeOK
<1>2. NoBoost \in [on : BOOLEAN, from : Presets, until : Nat, by : Owners]
  BY DEF NoBoost, Presets, Owners
<1>3. NotDown \in [until : Nat, cause : {"none", "change", "boost", "service"}]
  BY DEF NotDown
<1> QED
  BY <1>1, <1>2, <1>3, ScopeTypes DEF Arrive, TypeOK

LEMMA SetPresetTypes ==
  ASSUME TypeOK, NEW p \in Presets, NEW outcome \in Outcomes, NEW owner \in Owners,
         NEW wrong \in Slips, SetPreset(p, outcome, owner, wrong)
  PROVE  /\ preset' \in Presets
         /\ boost' \in [on : BOOLEAN, from : Presets, until : Nat, by : Owners]
         /\ vt' \in Scopes
         /\ boostEnded' \in BOOLEAN
         /\ standdown' \in [until : Nat, cause : {"none", "change", "boost", "service"}]
         /\ reason' \in Scopes \cup {"disabled", "paused"} /\ resume' \in BOOLEAN
         /\ due' \in BOOLEAN
         /\ by' \in Owners /\ slip' \in Slips
         /\ moves' \in 0..MaxMoves
<1>1. moves' \in 0..MaxMoves
  <2>1. outcome = "raised" => moves < MaxMoves
    BY DEF Outcomes
  <2> QED
    BY <2>1, MoveTypes DEF SetPreset, TypeOK
<1>2. "failed" \in Slips
  BY DEF Slips
<1>3. CASE outcome = "done"
  BY <1>1, <1>3, ArriveTypes DEF SetPreset, TypeOK
<1>4. CASE outcome # "done"
  BY <1>1, <1>2, <1>4 DEF SetPreset, TypeOK, scope
<1> QED
  BY <1>3, <1>4

(* What a call that ends a skip may come to.                               *)
LEMMA PutBackIs ==
  ASSUME NEW c, NEW outcome, PutBack(c, outcome)
  PROVE  \E owner \in {"hearth", skip.by}, wrong \in {"none", "before", "late", slip} :
           /\ SetPreset(c.to, outcome, owner, wrong)
           /\ \/ applied = Never
              \/ wrong \in {"before", "late"}
              \/ owner = "hearth" /\ c.to = PresetOf[applied]
BY DEF PutBack

LEMMA PutBackTypes ==
  ASSUME TypeOK, NEW c, c.to \in Presets, NEW outcome \in Outcomes, PutBack(c, outcome)
  PROVE  \E p \in Presets, owner \in Owners, wrong \in Slips : SetPreset(p, outcome, owner, wrong)
<1>1. /\ "hearth" \in Owners /\ skip.by \in Owners
      /\ {"none", "before", "late", slip} \subseteq Slips
  BY DEF Owners, Slips, TypeOK
<1>2. PICK owner \in {"hearth", skip.by}, wrong \in {"none", "before", "late", slip} :
        SetPreset(c.to, outcome, owner, wrong)
  BY PutBackIs
<1> QED
  BY <1>1, <1>2

LEMMA SkipOverIs ==
  ASSUME TypeOK, SkipOver
  PROVE  /\ skip' \in [on : BOOLEAN, prev : Presets, from : Time, by : Owners]
         /\ ~skip'.on /\ skip'.by = skip.by
BY SlotsAreNat, BlockPresets DEF TypeOK, SkipOver, NoSkip, Presets

LEMMA RestoreTypes ==
  ASSUME TypeOK
  PROVE  /\ RestoreTarget \in Presets
         /\ RestoreApplied \in At \cup {Never}
         /\ RestoreKey \in At \cup {Never}
<1>1. Current \in At
  BY CurrentIs DEF TypeOK
<1> QED
  BY <1>1, BlockPresets DEF TypeOK, RestoreTarget, RestoreApplied, RestoreKey

LEMMA EndSkipTypes ==
  ASSUME TypeOK, NEW restore, EndSkipAtOnce(restore)
  PROVE  /\ skip' \in [on : BOOLEAN, prev : Presets, from : Time, by : Owners]
         /\ applied' \in At \cup {Never}
         /\ by' \in Owners /\ slip' \in Slips
BY RestoreTypes, SkipOverIs DEF TypeOK, EndSkipAtOnce, Owners, Slips

LEMMA GotoIs ==
  ASSUME NEW pc, Goto(pc)
  PROVE  ev'.pc = pc
BY DEF Goto, Idle

LEMMA EvTypes ==
  ASSUME TypeOK
  PROVE  /\ \A pc \in Phases : [Idle EXCEPT !.pc = pc] \in [pc : Phases, to : Presets, key : At \cup {Never}]
         /\ \A pc \in Phases, p \in Presets, k \in At \cup {Never} :
              [pc |-> pc, to |-> p, key |-> k] \in [pc : Phases, to : Presets, key : At \cup {Never}]
BY DEF TypeOK, Idle, Presets, Never

-----------------------------------------------------------------------------
(***************************************************************************)
(* Every action keeps the types.                                           *)
(***************************************************************************)
LEMMA EvaluationTypes == ASSUME TypeOK, Evaluation PROVE TypeOK'
<1> USE DEF vtherm, switches, memory, scope, tasks, history
<1>0. {"idle", "skip", "starting", "restoring", "schedule", "setting"} = Phases /\ vt \in Scopes
  BY DEF Phases, TypeOK
<1>1. CASE StartEvaluation
  <2>1. ev' \in [pc : Phases, to : Presets, key : At \cup {Never}] /\ touched' \in BOOLEAN
    BY <1>0, <1>1, EvTypes DEF StartEvaluation, Goto, StampsSkip, TypeOK
  <2>2. reason' \in Scopes \cup {"disabled", "paused"} /\ resume' \in BOOLEAN
    BY <1>0, <1>1 DEF StartEvaluation, ComputeDormant, LeavesPause, TypeOK
  <2>3. standdown' \in [until : Nat, cause : {"none", "change", "boost", "service"}]
    BY <1>1 DEF StartEvaluation, NotDown, TypeOK
  <2>4. applied' \in At \cup {Never}
    BY <1>1 DEF StartEvaluation, TypeOK
  <2> QED
    BY <1>1, <2>1, <2>2, <2>3, <2>4 DEF StartEvaluation, TypeOK
<1>2. CASE StartSkip
  <2>1. ev' \in [pc : Phases, to : Presets, key : At \cup {Never}]
    BY <1>0, <1>2, EvTypes DEF StartSkip, Goto, Call, Presets
  <2>2. skip' \in [on : BOOLEAN, prev : Presets, from : Time, by : Owners]
    BY <1>2 DEF StartSkip, TypeOK
  <2> QED
    BY <1>2, <2>1, <2>2 DEF StartSkip, TypeOK
<1>3. CASE DecideAgainstSkip
  <2>1. ev' \in [pc : Phases, to : Presets, key : At \cup {Never}]
    BY <1>0, <1>3, EvTypes DEF DecideAgainstSkip, Goto
  <2>2. decided' \in BOOLEAN
    BY <1>3 DEF DecideAgainstSkip, TypeOK
  <2> QED
    BY <1>3, <2>1, <2>2 DEF DecideAgainstSkip, TypeOK
<1>4. CASE SuperviseSkip
  <2>1. /\ ev' \in [pc : Phases, to : Presets, key : At \cup {Never}]
        /\ skip' \in [on : BOOLEAN, prev : Presets, from : Time, by : Owners]
        /\ applied' \in At \cup {Never}
        /\ by' \in Owners /\ slip' \in Slips
    <3>1. ASSUME NEW restore \in BOOLEAN, EndSkipAtOnce(restore), Goto("schedule")
          PROVE  <2>1!1 /\ <2>1!2 /\ <2>1!3 /\ <2>1!4
      BY <1>0, <3>1, EvTypes, EndSkipTypes DEF Goto
    <3>2. CASE applied' = RestoreApplied /\ Call("restoring", RestoreTarget, RestoreKey) /\ UNCHANGED <<skip, history>>
      BY <1>0, <3>2, EvTypes, RestoreTypes DEF Call, TypeOK
    <3>3. CASE Goto("schedule") /\ UNCHANGED <<skip, applied, history>>
      BY <1>0, <3>3, EvTypes DEF Goto, TypeOK
    <3> QED
      BY <1>4, <3>1, <3>2, <3>3 DEF SuperviseSkip
  <2> QED
    BY <1>4, <2>1 DEF SuperviseSkip, TypeOK
<1>5. CASE SkipCallReturns
  <2>1. PICK outcome \in Outcomes :
          \/ /\ ev.pc = "starting"
             /\ SetPreset("eco", outcome, "skip", IF skip.on /\ ~touched THEN slip ELSE "late")
             /\ UNCHANGED skip
          \/ PutBack(ev, outcome) /\ SkipOver
    BY <1>5 DEF SkipCallReturns
  <2>2. \E p \in Presets, owner \in Owners, wrong \in Slips : SetPreset(p, outcome, owner, wrong)
    <3>1. "eco" \in Presets /\ "skip" \in Owners /\ "late" \in Slips /\ slip \in Slips /\ ev.to \in Presets
      BY DEF Presets, Owners, Slips, TypeOK
    <3> QED
      BY <2>1, <3>1, PutBackTypes
  <2>3. skip' \in [on : BOOLEAN, prev : Presets, from : Time, by : Owners]
    BY <2>1, SkipOverIs DEF TypeOK
  <2>4. ev' \in [pc : Phases, to : Presets, key : At \cup {Never}]
    BY <1>0, <1>5, EvTypes DEF SkipCallReturns, Goto
  <2> QED
    BY <1>5, <2>2, <2>3, <2>4, SetPresetTypes DEF SkipCallReturns, TypeOK
<1>6. CASE EvaluateSchedule
  <2>1. latch' \in At \cup {Never}
    BY <1>6, ScheduleAssumption DEF EvaluateSchedule, LatchAfter, TypeOK
  <2>2. Driven \in At
    BY <2>1, CurrentIs DEF Driven, TypeOK
  <2>3. ev' \in [pc : Phases, to : Presets, key : At \cup {Never}]
    BY <1>0, <1>6, <2>2, EvTypes, BlockPresets DEF EvaluateSchedule, Goto, Call
  <2>4. applied' \in At \cup {Never} /\ by' \in Owners /\ slip' \in Slips
    BY <1>6, <2>2 DEF EvaluateSchedule, Owners, Slips, TypeOK
  <2>5. boostEnded' \in BOOLEAN
    BY <1>6 DEF EvaluateSchedule, TypeOK
  <2> QED
    BY <1>6, <2>1, <2>3, <2>4, <2>5 DEF EvaluateSchedule, TypeOK
<1>7. CASE ScheduleCallReturns
  <2>1. PICK outcome \in Outcomes : SetPreset(ev.to, outcome, "hearth", "none")
    BY <1>7 DEF ScheduleCallReturns
  <2>2. "hearth" \in Owners /\ "none" \in Slips /\ ev.to \in Presets /\ ev.key \in At \cup {Never}
    BY DEF Owners, Slips, TypeOK
  <2>3. ev' \in [pc : Phases, to : Presets, key : At \cup {Never}]
    BY <1>0, <1>7, EvTypes DEF ScheduleCallReturns, Goto
  <2> QED
    BY <1>7, <2>1, <2>2, <2>3, SetPresetTypes DEF ScheduleCallReturns, TypeOK
<1> QED
  BY <1>1, <1>2, <1>3, <1>4, <1>5, <1>6, <1>7 DEF Evaluation

LEMMA OverrideTypes == ASSUME TypeOK, Override \/ OverrideReturns PROVE TypeOK'
<1> USE DEF vtherm, switches, memory, scope, tasks, history
<1>0. Idle \in [pc : {"idle", "restoring"}, to : Presets, key : At \cup {Never}]
  BY DEF Idle, Presets
<1>1. CASE Override
  <2>1. standdown' \in [until : Nat, cause : {"none", "change", "boost", "service"}]
    <3>1. PICK until \in {StandDownUntil} \cup {now + d : d \in 1..MaxBoost} :
            standdown' = [until |-> until, cause |-> "service"]
      BY <1>1 DEF Override
    <3>2. until \in Nat
      BY StandDownEnds, ScheduleAssumption, SizesAssumption DEF TypeOK, Time
    <3> QED
      BY <3>1, <3>2
  <2>2. /\ skip' \in [on : BOOLEAN, prev : Presets, from : Time, by : Owners]
        /\ applied' \in At \cup {Never}
        /\ by' \in Owners /\ slip' \in Slips
        /\ svc' \in [pc : {"idle", "restoring"}, to : Presets, key : At \cup {Never}]
        /\ due' \in BOOLEAN
    <3>1. CASE due' = TRUE /\ UNCHANGED <<skip, applied, history, svc>>
      BY <3>1 DEF TypeOK
    <3>2. CASE EndSkipAtOnce(TRUE) /\ due' = TRUE /\ UNCHANGED svc
      BY <3>2, EndSkipTypes DEF TypeOK
    <3>3. CASE /\ applied' = RestoreApplied
               /\ svc' = [pc |-> "restoring", to |-> RestoreTarget, key |-> RestoreKey]
               /\ UNCHANGED <<skip, history, due>>
      BY <3>3, RestoreTypes DEF TypeOK
    <3> QED
      BY <1>1, <3>1, <3>2, <3>3 DEF Override
  <2>3. moves' \in 0..MaxMoves
    BY <1>1, MoveTypes DEF Override, Move
  <2> QED
    BY <1>1, <2>1, <2>2, <2>3 DEF Override, TypeOK
<1>2. CASE OverrideReturns
  <2>1. skip' \in [on : BOOLEAN, prev : Presets, from : Time, by : Owners]
    BY <1>2, SkipOverIs DEF OverrideReturns
  <2>2. PICK outcome \in Outcomes :
          \/ /\ outcome = "done"
             /\ PutBack(svc, outcome)
          \/ /\ outcome # "done"
             /\ IF outcome = "raised" THEN slip' = "failed" /\ moves' = moves + 1
                                      ELSE UNCHANGED <<slip, moves>>
             /\ due' = TRUE
             /\ UNCHANGED <<vtherm, boostEnded, standdown, scope, by>>
    BY <1>2 DEF OverrideReturns
  <2>3. CASE outcome = "done"
    <3>1. \E p \in Presets, owner \in Owners, wrong \in Slips : SetPreset(p, outcome, owner, wrong)
      BY <2>2, <2>3, PutBackTypes DEF TypeOK
    <3> QED
      BY <1>0, <1>2, <2>1, <3>1, SetPresetTypes DEF OverrideReturns, TypeOK
  <2>4. CASE outcome # "done"
    <3>1. outcome = "raised" => moves + 1 \in 0..MaxMoves
      BY <2>2, MoveTypes DEF Outcomes
    <3>2. moves' \in 0..MaxMoves /\ slip' \in Slips
      BY <2>2, <2>4, <3>1 DEF TypeOK, Slips
    <3> QED
      BY <1>0, <1>2, <2>1, <2>2, <2>4, <3>2 DEF OverrideReturns, TypeOK
  <2> QED
    BY <2>3, <2>4
<1> QED
  BY <1>1, <1>2

LEMMA PeopleTypes ==
  ASSUME TypeOK,
         \/ \E p \in {"eco", "comfort", "frost"} : PersonSets(p)
         \/ \E d \in 1..MaxBoost : BoostStarts(d)
         \/ \E k \in Mechanisms : Flip(k)
         \/ SetObserve \/ SetActive \/ SetPaused \/ Reload
  PROVE  TypeOK'
<1> USE DEF vtherm, switches, memory, scope, tasks, history
<1>0. Move => moves' \in 0..MaxMoves
  BY MoveTypes DEF Move
<1>1. ASSUME NEW p \in {"eco", "comfort", "frost"}, PersonSets(p)
      PROVE  TypeOK'
  <2>1. reason' \in Scopes \cup {"disabled", "paused"} /\ resume' \in BOOLEAN
    BY <1>1, ScopeTypes DEF PersonSets, TypeOK
  <2>2. standdown' \in [until : Nat, cause : {"none", "change", "boost", "service"}]
    BY <1>1, StandDownEnds DEF PersonSets, TypeOK
  <2>3. p \in Presets /\ by' \in Owners /\ slip' \in Slips
    BY <1>1 DEF PersonSets, Presets, Owners, Slips
  <2> QED
    BY <1>0, <1>1, <2>1, <2>2, <2>3 DEF PersonSets, TypeOK
<1>2. ASSUME NEW d \in 1..MaxBoost, BoostStarts(d)
      PROVE  TypeOK'
  <2>1. reason' \in Scopes \cup {"disabled", "paused"} /\ resume' \in BOOLEAN
    BY <1>2, ScopeTypes DEF BoostStarts, TypeOK
  <2>2. now + d \in Nat
    BY ScheduleAssumption, SizesAssumption DEF TypeOK, Time
  <2>3. /\ boost' \in [on : BOOLEAN, from : Presets, until : Nat, by : Owners]
        /\ standdown' \in [until : Nat, cause : {"none", "change", "boost", "service"}]
    BY <1>2, <2>2 DEF BoostStarts, TypeOK
  <2>4. preset' \in Presets /\ by' \in Owners
    BY <1>2 DEF BoostStarts, Presets, Owners
  <2> QED
    BY <1>0, <1>2, <2>1, <2>3, <2>4 DEF BoostStarts, TypeOK
<1>3. ASSUME NEW k \in Mechanisms, Flip(k)
      PROVE  TypeOK'
  BY <1>0, <1>3 DEF Flip, TypeOK
<1>4. CASE SetObserve \/ SetActive \/ SetPaused
  <2>1. PauseUnnoticed \in Slips
    BY DEF PauseUnnoticed, Slips, TypeOK
  <2> QED
    BY <1>0, <1>4, <2>1 DEF SetObserve, SetActive, SetPaused, TypeOK
<1>5. CASE Reload
  <2>1. moves' \in 0..MaxMoves /\ reason' \in Scopes \cup {"disabled", "paused"} /\ resume' \in BOOLEAN
    BY <1>0, <1>5 DEF Reload, Scopes
  <2>2. slip' \in Slips /\ due' \in BOOLEAN
    BY <1>5 DEF Reload, Slips, TypeOK
  <2> QED
    BY <1>5, <2>1, <2>2 DEF Reload, TypeOK
<1> QED
  BY <1>1, <1>2, <1>3, <1>4, <1>5

LEMMA VThermTypes == ASSUME TypeOK, VTherm PROVE TypeOK'
<1> USE DEF vtherm, switches, memory, scope, tasks, history
<1>0. /\ Move => moves' \in 0..MaxMoves
      /\ NoBoost \in [on : BOOLEAN, from : Presets, until : Nat, by : Owners]
      /\ NotDown \in [until : Nat, cause : {"none", "change", "boost", "service"}]
  BY MoveTypes DEF Move, NoBoost, NotDown, Presets, Owners
<1>1. CASE BoostEnds
  <2>1. reason' \in Scopes \cup {"disabled", "paused"} /\ resume' \in BOOLEAN
    BY <1>1, ScopeTypes DEF BoostEnds, TypeOK
  <2>2. standdown' \in [until : Nat, cause : {"none", "change", "boost", "service"}]
    BY <1>0, <1>1 DEF BoostEnds, TypeOK
  <2>3. moves' \in 0..MaxMoves
    BY <1>1, MoveTypes DEF BoostEnds, TypeOK
  <2> QED
    BY <1>0, <1>1, <2>1, <2>2, <2>3 DEF BoostEnds, TypeOK
<1>2. ASSUME NEW p \in {"eco", "comfort"}, SchedulerSets(p)
      PROVE  TypeOK'
  <2>1. reason' \in Scopes \cup {"disabled", "paused"} /\ resume' \in BOOLEAN
    BY <1>2, ScopeTypes DEF SchedulerSets, TypeOK
  <2>2. p \in Presets /\ by' \in Owners
    BY <1>2 DEF SchedulerSets, Presets, Owners
  <2> QED
    BY <1>0, <1>2, <2>1, <2>2 DEF SchedulerSets, TypeOK
<1>3. ASSUME NEW v \in Scopes, ScopeChanges(v)
      PROVE  TypeOK'
  <2>1. reason' \in Scopes \cup {"disabled", "paused"} /\ resume' \in BOOLEAN
    BY <1>3, ScopeTypes DEF ScopeChanges
  <2> QED
    BY <1>0, <1>3, <2>1 DEF ScopeChanges, TypeOK
<1>4. ASSUME NEW p \in Presets, VThermBack(p)
      PROVE  TypeOK'
  <2>1. "none" \in Scopes
    BY DEF Scopes
  <2>2. reason' \in Scopes \cup {"disabled", "paused"} /\ resume' \in BOOLEAN
    BY <1>4, <2>1, ScopeTypes DEF VThermBack
  <2>3. /\ preset' \in Presets
        /\ boost' \in [on : BOOLEAN, from : Presets, until : Nat, by : Owners]
        /\ standdown' \in [until : Nat, cause : {"none", "change", "boost", "service"}]
        /\ external' \in Time \cup {Never} /\ touched' \in BOOLEAN
        /\ applied' \in At \cup {Never} /\ by' \in Owners
    <3>1. CASE /\ standdown' = [until |-> boost.until, cause |-> "boost"]
               /\ external' = now /\ touched' = TRUE /\ UNCHANGED <<preset, boost, applied, by>>
      BY <3>1 DEF TypeOK
    <3>2. CASE /\ preset' = p /\ boost' = NoBoost /\ applied' = Never
               /\ by' \in {boost.by, by, "vtherm"} /\ UNCHANGED <<standdown, external, touched>>
      BY <1>0, <3>2 DEF TypeOK, Owners
    <3> QED
      BY <1>4, <3>1, <3>2 DEF VThermBack
  <2> QED
    BY <1>4, <2>1, <2>2, <2>3 DEF VThermBack, TypeOK
<1> QED
  BY <1>1, <1>2, <1>3, <1>4 DEF VTherm

LEMMA InitTypes == Init => TypeOK
<1> SUFFICES ASSUME Init PROVE TypeOK
  OBVIOUS
<1>1. 0 \in Time /\ PresetOf[0] \in Presets /\ 0 \in 0..MaxMoves
  BY BlockPresets, SlotsAreNat, SizesAssumption
<1>2. /\ "eco" \in Presets /\ "none" \in Scopes /\ "none" \in Slips
      /\ "hearth" \in Owners /\ "vtherm" \in Owners /\ "idle" \in Phases
  BY DEF Presets, Scopes, Slips, Owners, Phases
<1>3. /\ NoBoost \in [on : BOOLEAN, from : Presets, until : Nat, by : Owners]
      /\ NotDown \in [until : Nat, cause : {"none", "change", "boost", "service"}]
      /\ NoSkip \in [on : BOOLEAN, prev : Presets, from : Time, by : Owners]
      /\ Idle \in [pc : {"idle", "restoring"}, to : Presets, key : At \cup {Never}]
      /\ Idle \in [pc : Phases, to : Presets, key : At \cup {Never}]
  BY <1>1, <1>2 DEF NoBoost, NotDown, NoSkip, Idle
<1>4. preset \in Presets /\ wants \subseteq Mechanisms
  BY <1>1, <1>2 DEF Init
<1> QED
  BY <1>1, <1>2, <1>3, <1>4 DEF Init, TypeOK

LEMMA NextTypes == TypeOK /\ [Next]_vars => TypeOK'
<1> SUFFICES ASSUME TypeOK, [Next]_vars PROVE TypeOK'
  OBVIOUS
<1>1. CASE Tick
  <2>1. now + 1 \in Time
    BY <1>1, ScheduleAssumption DEF Tick, TypeOK, Time
  <2>2. now' \in Time /\ boostEnded' \in BOOLEAN /\ due' \in BOOLEAN
    BY <1>1, <2>1 DEF Tick
  <2>3. /\ UNCHANGED <<preset, boost, vt, wants, observe, active, paused, moves, reason, resume>>
        /\ UNCHANGED <<standdown, external, touched, applied, latch, skip, decided, ev, svc, by, slip>>
    BY <1>1 DEF Tick, vtherm, switches, scope, history
  <2> QED
    BY <2>2, <2>3 DEF TypeOK
<1>2. CASE UNCHANGED vars
  BY <1>2 DEF TypeOK, vars, vtherm, switches, memory, scope, tasks, history
<1> QED
  BY <1>1, <1>2, EvaluationTypes, OverrideTypes, PeopleTypes, VThermTypes DEF Next, People

(***************************************************************************)
(* Every reachable state has the types of the model: what counts as        *)
(* applied, what is latched and what a call is for are blocks or nothing.  *)
(***************************************************************************)
THEOREM TypesHold == Spec => []TypeOK
BY InitTypes, NextTypes, PTL DEF Spec

-----------------------------------------------------------------------------
(***************************************************************************)
(* A call of the schedule is for a block, to that block's preset, and for  *)
(* the latched block when there is one.  Nothing but the evaluation moves  *)
(* the latch, and it does so before it calls.                              *)
(***************************************************************************)
CallInv ==
  ev.pc = "setting" => /\ ev.key \in At
                       /\ ev.to = PresetOf[ev.key]
                       /\ latch # Never => ev.key = latch

LEMMA CallElsewhere ==
  ASSUME UNCHANGED <<ev, latch>>, CallInv
  PROVE  CallInv'
BY DEF CallInv

LEMMA CallNext == TypeOK /\ CallInv /\ [Next]_vars => CallInv'
<1> SUFFICES ASSUME TypeOK, CallInv, [Next]_vars PROVE CallInv'
  OBVIOUS
<1> USE DEF vtherm, switches, memory, scope, tasks, history
<1>1. CASE StartEvaluation \/ StartSkip \/ DecideAgainstSkip \/ SuperviseSkip \/ SkipCallReturns
  <2>1. \/ Goto("skip") \/ Goto("schedule")
        \/ Call("starting", "eco", Never) \/ Call("restoring", RestoreTarget, RestoreKey)
    BY <1>1 DEF StartEvaluation, StartSkip, DecideAgainstSkip, SuperviseSkip, SkipCallReturns
  <2>2. ev'.pc # "setting"
    <3>1. CASE Goto("skip") \/ Goto("schedule")
      BY <3>1, GotoIs
    <3>2. CASE Call("starting", "eco", Never) \/ Call("restoring", RestoreTarget, RestoreKey)
      BY <3>2 DEF Call
    <3> QED
      BY <2>1, <3>1, <3>2
  <2> QED
    BY <2>2 DEF CallInv
<1>2. CASE EvaluateSchedule
  <2>1. latch' \in At \cup {Never} /\ Current \in At
    BY <1>2, CurrentIs, ScheduleAssumption DEF EvaluateSchedule, LatchAfter, TypeOK
  <2>2. CASE Goto("idle")
    BY <2>2 DEF Goto, CallInv, TypeOK
  <2>3. CASE Call("setting", PresetOf[Driven], Driven)
    BY <2>1, <2>3 DEF Call, CallInv, Driven
  <2> QED
    BY <1>2, <2>2, <2>3 DEF EvaluateSchedule
<1>3. CASE ScheduleCallReturns
  BY <1>3 DEF ScheduleCallReturns, Goto, CallInv, TypeOK
<1>4. CASE Override \/ OverrideReturns \/ Tick \/ UNCHANGED vars
  BY <1>4, CallElsewhere DEF Override, OverrideReturns, Tick, vars
<1>5. CASE People
  <2>1. Override \/ UNCHANGED <<ev, latch>>
    BY <1>5 DEF People, PersonSets, BoostStarts, Flip, SetObserve, SetActive, SetPaused, Reload
  <2> QED
    BY <1>4, <2>1, CallElsewhere
<1>6. CASE VTherm
  <2>1. UNCHANGED <<ev, latch>>
    BY <1>6 DEF VTherm, BoostEnds, SchedulerSets, ScopeChanges, VThermBack
  <2> QED
    BY <2>1, CallElsewhere
<1> QED
  BY <1>1, <1>2, <1>3, <1>4, <1>5, <1>6 DEF Next, Evaluation

(***************************************************************************)
(* D62, D63, D66: whatever people and the VTherm did while the call was    *)
(* under way, a latched room is not taken off the block it preheats for.   *)
(***************************************************************************)
THEOREM PreheatHolds == Spec => PreheatIsNotUndone
<1>1. Init => CallInv
  BY DEF Init, Idle, CallInv
<1>2. TypeOK /\ CallInv /\ [Next]_vars
        => [latch # Never /\ latch' = latch /\ ScheduleCallReturns
              => preset' \in {preset, PresetOf[latch]}]_vars
  <2>1. ASSUME CallInv, latch # Never, ScheduleCallReturns
        PROVE  preset' \in {preset, PresetOf[latch]}
    <3>1. ev.to = PresetOf[latch]
      BY <2>1 DEF CallInv, ScheduleCallReturns
    <3>2. PICK outcome \in Outcomes : SetPreset(ev.to, outcome, "hearth", "none")
      BY <2>1 DEF ScheduleCallReturns
    <3> QED
      BY <3>1, <3>2 DEF SetPreset, Arrive
  <2> QED
    BY <2>1
<1>3. Spec => [](TypeOK /\ CallInv)
  BY <1>1, InitTypes, NextTypes, CallNext, PTL DEF Spec
<1> QED
  BY <1>2, <1>3, PTL DEF Spec, PreheatIsNotUndone

-----------------------------------------------------------------------------
(***************************************************************************)
(* SkipLeavesNothingBehind is not inductive: it holds when all is settled, *)
(* and everything that keeps it true happens when it is not.               *)
(*                                                                         *)
(* A skip starts before its end time, and once that has come an evaluation *)
(* is on its way that ends it.                                             *)
(***************************************************************************)
Ending ==
  /\ ev.pc = "starting" => now < SkipEnd /\ decided
  /\ skip.on /\ now >= SkipEnd => due \/ ev.pc \in {"skip", "restoring"}

(***************************************************************************)
(* A skip's preset is eco, written over another, there is one only after   *)
(* the day's decision, a boost goes back to it as to any other, and a      *)
(* boost is a person's.                                                    *)
(***************************************************************************)
Owned ==
  /\ ~decided => by # "skip" /\ boost.by # "skip"
  /\ skip.by # "skip"
  /\ skip.on /\ (by = "skip" \/ boost.by = "skip" \/ ev.pc = "starting") => skip.prev # "eco"
  /\ by = "skip" => preset = "eco"
  /\ boost.by = "skip" => boost.from = "eco"
  /\ boost.on => by = "person" /\ preset = "boost"

(***************************************************************************)
(* The eco of a skip that is over, or that a person's change ends, stays   *)
(* only until a call arrives or the schedule applies its block anew.       *)
(***************************************************************************)
UnderWay == ev.pc = "restoring" \/ svc.pc = "restoring"

Left ==
  by = "skip" /\ vt # "gone" /\ (~skip.on \/ touched)
    => applied = Never \/ slip # "none" \/ UnderWay

SkipInv == Ending /\ Owned /\ Left

LEMMA SkipInit == Init => SkipInv
BY DEF Init, SkipInv, Ending, Owned, Left, NoBoost, NoSkip, Idle


(***************************************************************************)
(* A call, whoever makes it.                                               *)
(***************************************************************************)
LEMMA SetPresetOwns ==
  ASSUME TypeOK, Owned, NEW p, NEW outcome \in Outcomes, NEW owner, NEW wrong,
         owner = "skip" => p = "eco" /\ decided /\ ev.pc = "starting",
         SetPreset(p, outcome, owner, wrong), UNCHANGED decided, skip'.by = skip.by,
         skip'.on => UNCHANGED skip /\ ev'.pc # "starting"
  PROVE  Owned'
<1>1. CASE outcome = "done"
  <2>1. /\ preset' = p /\ boost' = NoBoost
        /\ by' = IF preset = p /\ owner = "skip" THEN by ELSE owner
    BY <1>1 DEF SetPreset, Arrive
  <2> QED
    BY <2>1 DEF Owned, NoBoost
<1>2. CASE outcome # "done"
  BY <1>2 DEF SetPreset, Owned
<1> QED
  BY <1>1, <1>2

LEMMA PutBackOwns ==
  ASSUME TypeOK, Owned, NEW c, NEW outcome \in Outcomes, PutBack(c, outcome)
  PROVE  /\ UNCHANGED decided /\ skip'.by = skip.by /\ ~skip'.on => Owned'
         /\ by' = "skip" => vt' = "gone" \/ slip' = "failed"
<1>1. PICK owner \in {"hearth", skip.by}, wrong \in {"none", "before", "late", slip} :
        SetPreset(c.to, outcome, owner, wrong)
  BY PutBackIs
<1>2. owner # "skip"
  BY DEF Owned
<1>3. by' = "skip" => vt' = "gone" \/ slip' = "failed"
  BY <1>1, <1>2 DEF SetPreset, Outcomes
<1> QED
  BY <1>1, <1>2, <1>3, SetPresetOwns

(***************************************************************************)
(* A skip that ends with no call to make.                                  *)
(***************************************************************************)
LEMMA EndSkipOwns ==
  ASSUME TypeOK, Owned, NEW restore \in BOOLEAN, EndSkipAtOnce(restore),
         UNCHANGED <<decided, preset, boost>>
  PROVE  Owned'
<1>1. ~skip'.on /\ skip'.by = skip.by
  BY SkipOverIs DEF EndSkipAtOnce
<1>2. IsRestored => ~boost.on
  <2>1. Enabled("schedule") => RestoreTarget # "boost" /\ RestoreTarget # "none"
    <3>1. PresetOf[Current] \in Presets \ {"boost"}
      BY CurrentIs, ScheduleAssumption DEF TypeOK
    <3> QED
      BY <3>1 DEF RestoreTarget, Presets
  <2> QED
    BY <2>1 DEF IsRestored, Owned, Seen
<1>3. by' = by \/ (IsRestored /\ by' = "hearth")
  BY DEF EndSkipAtOnce
<1> QED
  BY <1>1, <1>2, <1>3 DEF Owned

LEMMA EndSkipLeaves ==
  ASSUME TypeOK, Owned, Left, NEW restore \in BOOLEAN, EndSkipAtOnce(restore),
         skip.on, restore \/ touched, by' = "skip", vt # "gone"
  PROVE  applied' = Never \/ slip' # "none" \/ UnderWay
<1>1. by = "skip" /\ Seen = "eco" /\ ~IsRestored
  BY DEF EndSkipAtOnce, Seen, Owned
<1>2. RestoreTarget # "eco"
  BY <1>1 DEF IsRestored, RestoreTarget, Owned
<1>3. ~restore
  BY <1>1, <1>2 DEF EndSkipAtOnce, Restores
<1>4. applied = Never \/ slip # "none" \/ UnderWay
  BY <1>1, <1>3 DEF Left
<1> QED
  BY <1>1, <1>4, <1>2 DEF EndSkipAtOnce

-----------------------------------------------------------------------------
(***************************************************************************)
(* The evaluation.                                                         *)
(***************************************************************************)
LEMMA SkipEvaluation == ASSUME TypeOK, SkipInv, Evaluation PROVE SkipInv'
<1> USE DEF vtherm, switches, memory, scope, tasks, history, SkipInv
<1>1. CASE StartEvaluation
  <2>1. /\ ev.pc = "idle" /\ ev'.pc = "skip" /\ applied' \in {applied, Never}
        /\ UNCHANGED <<now, vt, preset, boost, skip, decided, svc, by, slip>>
        /\ touched' = (touched /\ skip.on)
    BY <1>1, GotoIs DEF StartEvaluation, StampsSkip
  <2> QED
    BY <2>1 DEF Ending, Owned, Left, UnderWay
<1>2. CASE StartSkip
  <2>1. now \in Int /\ SkipEnd \in Int
    BY ScheduleAssumption, SizesAssumption DEF TypeOK, Time
  <2>2. /\ now < SkipEnd /\ ~decided /\ by # "skip" /\ boost.by # "skip"
        /\ decided' = TRUE /\ skip'.by = by /\ skip'.prev = preset /\ skip'.on
        /\ UNCHANGED <<now, preset, boost, by>>
    BY <1>2, <2>1 DEF StartSkip, DecisionDue, DecisionMissed, Owned
  <2>3. ev'.pc \in {"schedule", "starting"} /\ (ev'.pc = "starting" => preset # "eco")
    BY <1>2, GotoIs DEF StartSkip, Call
  <2> QED
    BY <2>1, <2>2, <2>3 DEF Ending, Owned, Left
<1>3. CASE DecideAgainstSkip
  <2>1. /\ ~skip.on /\ ev.pc = "skip" /\ ev'.pc = "schedule" /\ (decided => decided')
        /\ UNCHANGED <<vt, preset, boost, skip, svc, by, slip, touched, applied>>
    BY <1>3, GotoIs DEF DecideAgainstSkip, DecisionDue, TypeOK
  <2> QED
    BY <2>1 DEF Ending, Owned, Left, UnderWay
<1>4. CASE SuperviseSkip
  <2>0. /\ ev.pc = "skip" /\ skip.on
        /\ UNCHANGED <<now, vt, preset, boost, decided, due, svc, touched>>
    BY <1>4 DEF SuperviseSkip
  <2>1. ASSUME NEW restore \in BOOLEAN, SkipEnds(restore), EndSkipAtOnce(restore), Goto("schedule")
        PROVE  SkipInv'
    <3>1. ev'.pc = "schedule" /\ ~skip'.on
      BY <2>1, GotoIs, SkipOverIs DEF EndSkipAtOnce
    <3>2. restore \/ touched
      BY <2>1 DEF SkipEnds
    <3>3. Ending'
      BY <3>1 DEF Ending
    <3>4. Owned'
      BY <2>0, <2>1, EndSkipOwns
    <3>5. by' = "skip" /\ vt # "gone" => applied' = Never \/ slip' # "none" \/ UnderWay
      BY <2>0, <2>1, <3>2, EndSkipLeaves
    <3> QED
      BY <2>0, <3>1, <3>3, <3>4, <3>5 DEF Left, UnderWay
  <2>2. CASE Call("restoring", RestoreTarget, RestoreKey) /\ UNCHANGED <<skip, history>>
    BY <2>0, <2>2 DEF Call, Ending, Owned, Left, UnderWay
  <2>3. CASE SkipGoesOn /\ Goto("schedule") /\ UNCHANGED <<skip, applied, history>>
    <3>1. now < SkipEnd /\ ~touched /\ ev'.pc = "schedule"
      BY <2>3, GotoIs DEF SkipGoesOn
    <3>2. now \in Int /\ SkipEnd \in Int
      BY ScheduleAssumption, SizesAssumption DEF TypeOK, Time
    <3> QED
      BY <2>0, <2>3, <3>1, <3>2 DEF Ending, Owned, Left, UnderWay
  <2> QED
    BY <1>4, <2>1, <2>2, <2>3 DEF SuperviseSkip
<1>5. CASE SkipCallReturns
  <2>0. ev'.pc = "schedule" /\ UNCHANGED <<now, touched, decided, svc, applied>>
    BY <1>5, GotoIs DEF SkipCallReturns
  <2>1. ASSUME NEW outcome \in Outcomes, ev.pc = "starting", UNCHANGED skip,
               SetPreset("eco", outcome, "skip", IF skip.on /\ ~touched THEN slip ELSE "late")
        PROVE  SkipInv'
    <3>1. now < SkipEnd /\ decided
      BY <2>1 DEF Ending
    <3>2. now \in Int /\ SkipEnd \in Int
      BY ScheduleAssumption, SizesAssumption DEF TypeOK, Time
    <3>3. Owned'
      BY <2>0, <2>1, <3>1, SetPresetOwns
    <3>4. Left'
      <4>1. CASE outcome = "done"
        BY <2>0, <2>1, <4>1 DEF SetPreset, Left
      <4>2. CASE outcome # "done"
        BY <2>0, <2>1, <4>2 DEF SetPreset, Outcomes, Left, UnderWay
      <4> QED
        BY <4>1, <4>2
    <3> QED
      BY <2>0, <2>1, <3>1, <3>2, <3>3, <3>4 DEF Ending
  <2>2. ASSUME NEW outcome \in Outcomes, PutBack(ev, outcome), SkipOver
        PROVE  SkipInv'
    <3>1. ~skip'.on /\ skip'.by = skip.by
      BY <2>2, SkipOverIs
    <3>2. Owned' /\ (by' = "skip" => vt' = "gone" \/ slip' = "failed")
      BY <2>0, <2>2, <3>1, PutBackOwns
    <3> QED
      BY <2>0, <3>1, <3>2 DEF Ending, Left
  <2> QED
    BY <1>5, <2>1, <2>2 DEF SkipCallReturns
<1>6. CASE EvaluateSchedule
  <2>0. /\ ev.pc = "schedule" /\ ev'.pc \in {"idle", "setting"}
        /\ UNCHANGED <<now, vt, preset, boost, skip, decided, due, svc, touched>>
    BY <1>6, GotoIs DEF EvaluateSchedule, Call
  <2>1. Ending'
    BY <2>0 DEF Ending
  <2>2. CASE UNCHANGED <<applied, history>>
    BY <2>0, <2>1, <2>2 DEF Owned, Left, UnderWay
  <2>3. ASSUME NEW block \in At, NEW kept \in BOOLEAN, kept => applied # Never,
               kept \/ Seen = PresetOf[block],
               by' = IF kept THEN by ELSE "hearth",
               slip' = IF ~kept THEN "none" ELSE IF by \in {"hearth", "vtherm"} THEN "stale" ELSE slip
        PROVE  SkipInv'
    <3>1. CASE kept
      BY <2>0, <2>1, <2>3, <3>1 DEF Owned, Left, UnderWay
    <3>2. CASE ~kept
      <4>1. ~boost.on
        <5>1. PresetOf[block] \in Presets \ {"boost"}
          BY ScheduleAssumption
        <5> QED
          BY <2>3, <3>2, <5>1 DEF Owned, Seen, Presets
      <4> QED
        BY <2>0, <2>1, <2>3, <3>2, <4>1 DEF Owned, Left
    <3> QED
      BY <3>1, <3>2
  <2>4. Driven \in At
    BY <1>6, CurrentIs, ScheduleAssumption DEF EvaluateSchedule, LatchAfter, Driven, TypeOK
  <2> QED
    BY <1>6, <2>2, <2>3, <2>4 DEF EvaluateSchedule
<1>7. CASE ScheduleCallReturns
  <2>0. /\ ev.pc = "setting" /\ ev'.pc = "idle"
        /\ UNCHANGED <<now, skip, decided, svc, touched>>
    BY <1>7, GotoIs DEF ScheduleCallReturns
  <2>1. PICK outcome \in Outcomes : SetPreset(ev.to, outcome, "hearth", "none")
    BY <1>7 DEF ScheduleCallReturns
  <2>2. Owned'
    BY <2>0, <2>1, SetPresetOwns
  <2>3. by' = "skip" => vt' = "gone" \/ slip' = "failed"
    BY <2>1 DEF SetPreset, Outcomes
  <2>4. due' = TRUE \/ due' = due
    BY <2>1 DEF SetPreset, Arrive
  <2> QED
    BY <2>0, <2>2, <2>3, <2>4 DEF Ending, Left
<1> QED
  BY <1>1, <1>2, <1>3, <1>4, <1>5, <1>6, <1>7 DEF Evaluation

(***************************************************************************)
(* hearth.override, which may end the skip beside the evaluation.          *)
(***************************************************************************)
LEMMA SkipOverride == ASSUME TypeOK, SkipInv, Override \/ OverrideReturns PROVE SkipInv'
<1> USE DEF vtherm, switches, memory, scope, tasks, history, SkipInv
<1>1. CASE Override
  <2>0. UNCHANGED <<now, vt, preset, boost, decided, touched, ev>> /\ svc = Idle
    BY <1>1 DEF Override
  <2>1. CASE due' = TRUE /\ UNCHANGED <<skip, applied, history, svc>>
    BY <2>0, <2>1 DEF Ending, Owned, Left, UnderWay
  <2>2. CASE skip.on /\ EndSkipAtOnce(TRUE) /\ due' = TRUE /\ UNCHANGED svc
    <3>1. Owned'
      BY <2>0, <2>2, EndSkipOwns
    <3>2. by' = "skip" /\ vt # "gone" => applied' = Never \/ slip' # "none" \/ UnderWay
      BY <2>2, EndSkipLeaves
    <3> QED
      BY <2>0, <2>2, <3>1, <3>2 DEF Ending, Left, UnderWay
  <2>3. CASE /\ svc' = [pc |-> "restoring", to |-> RestoreTarget, key |-> RestoreKey]
             /\ UNCHANGED <<skip, history, due>>
    BY <2>0, <2>3 DEF Ending, Owned, Left, UnderWay
  <2> QED
    BY <1>1, <2>1, <2>2, <2>3 DEF Override
<1>2. CASE OverrideReturns
  <2>0. UNCHANGED <<now, decided, ev>> /\ ~skip'.on /\ skip'.by = skip.by
    BY <1>2, SkipOverIs DEF OverrideReturns
  <2>1. Ending'
    BY <2>0 DEF Ending
  <2>2. PICK outcome \in Outcomes :
          \/ PutBack(svc, outcome)
          \/ /\ outcome # "done"
             /\ IF outcome = "raised" THEN slip' = "failed" /\ moves' = moves + 1
                                      ELSE UNCHANGED <<slip, moves>>
             /\ UNCHANGED <<vtherm, boostEnded, standdown, scope, by>>
    BY <1>2 DEF OverrideReturns
  <2>3. CASE PutBack(svc, outcome)
    BY <2>0, <2>1, <2>3, PutBackOwns DEF Left
  <2>4. CASE /\ outcome # "done"
             /\ outcome = "raised" => slip' = "failed"
             /\ UNCHANGED <<preset, boost, vt, by>>
    BY <2>0, <2>1, <2>4 DEF Outcomes, Owned, Left
  <2> QED
    BY <2>2, <2>3, <2>4
<1> QED
  BY <1>1, <1>2

LEMMA SkipPeople ==
  ASSUME TypeOK, SkipInv,
         \/ \E p \in {"eco", "comfort", "frost"} : PersonSets(p)
         \/ \E d \in 1..MaxBoost : BoostStarts(d)
         \/ \E k \in Mechanisms : Flip(k)
         \/ SetObserve \/ SetActive \/ SetPaused \/ Reload
  PROVE  SkipInv'
<1> USE DEF vtherm, switches, memory, scope, tasks, history, SkipInv
<1>1. ASSUME NEW p \in {"eco", "comfort", "frost"}, PersonSets(p)
      PROVE  SkipInv'
  <2>1. /\ ~boost.on /\ by' \in {"paused", "person"}
        /\ UNCHANGED <<now, boost, skip, decided, ev, svc>> /\ due' = TRUE
    BY <1>1 DEF PersonSets
  <2> QED
    BY <2>1 DEF Ending, Owned, Left
<1>2. ASSUME NEW d \in 1..MaxBoost, BoostStarts(d)
      PROVE  SkipInv'
  <2>1. /\ by' = "person" /\ preset' = "boost" /\ boost'.by = by /\ boost'.from = preset
        /\ UNCHANGED <<now, skip, decided, ev, svc>> /\ due' = TRUE
    BY <1>2 DEF BoostStarts
  <2> QED
    BY <2>1 DEF Ending, Owned, Left
<1>3. ASSUME \/ \E k \in Mechanisms : Flip(k)
             \/ SetObserve \/ SetActive \/ SetPaused \/ Reload
      PROVE  SkipInv'
  <2>1. /\ due' = TRUE /\ slip' \in {slip, "forgot"}
        /\ UNCHANGED <<now, vt, preset, boost, skip, decided, ev, svc, by, touched, applied>>
    BY <1>3 DEF Flip, SetObserve, SetActive, SetPaused, Reload, PauseUnnoticed
  <2> QED
    BY <2>1 DEF Ending, Owned, Left, UnderWay
<1> QED
  BY <1>1, <1>2, <1>3

LEMMA SkipVTherm == ASSUME TypeOK, SkipInv, VTherm PROVE SkipInv'
<1> USE DEF vtherm, switches, memory, scope, tasks, history, SkipInv
<1>0. due' = TRUE /\ UNCHANGED <<now, skip, decided, ev, svc>>
  BY DEF VTherm, BoostEnds, SchedulerSets, ScopeChanges, VThermBack
<1>1. CASE BoostEnds
  <2>1. applied' = Never /\ by' = boost.by /\ preset' = boost.from /\ boost' = NoBoost
    BY <1>1 DEF BoostEnds
  <2> QED
    BY <1>0, <2>1 DEF Ending, Owned, Left, NoBoost
<1>2. ASSUME NEW p \in {"eco", "comfort"}, SchedulerSets(p)
      PROVE  SkipInv'
  <2>1. ~boost.on /\ by' = "vtherm" /\ UNCHANGED boost
    BY <1>2 DEF SchedulerSets
  <2> QED
    BY <1>0, <2>1 DEF Ending, Owned, Left
<1>3. ASSUME NEW v \in Scopes, ScopeChanges(v)
      PROVE  SkipInv'
  <2>1. vt # "gone" /\ UNCHANGED <<preset, boost, touched, applied, by, slip>>
    BY <1>3 DEF ScopeChanges
  <2> QED
    BY <1>0, <2>1 DEF Ending, Owned, Left, UnderWay
<1>4. ASSUME NEW p \in Presets, VThermBack(p)
      PROVE  SkipInv'
  <2>1. CASE boost.on /\ UNCHANGED <<preset, boost, applied, by>>
    BY <1>0, <2>1 DEF Ending, Owned, Left
  <2>2. CASE /\ preset' = p /\ boost' = NoBoost /\ applied' = Never
             /\ by' = IF boost.on /\ p = boost.from THEN boost.by ELSE IF p = preset THEN by ELSE "vtherm"
    BY <1>0, <2>2 DEF Ending, Owned, Left, NoBoost
  <2> QED
    BY <1>4, <2>1, <2>2 DEF VThermBack
<1> QED
  BY <1>1, <1>2, <1>3, <1>4 DEF VTherm

LEMMA SkipNext == TypeOK /\ SkipInv /\ [Next]_vars => SkipInv'
<1> SUFFICES ASSUME TypeOK, SkipInv, [Next]_vars PROVE SkipInv'
  OBVIOUS
<1>1. CASE Tick
  <2>1. /\ ev.pc = "idle" /\ due' = TRUE
        /\ UNCHANGED <<vt, preset, boost, skip, decided, ev, svc, by, slip, touched, applied>>
    BY <1>1 DEF Tick, Settled, vtherm, history
  <2> QED
    BY <2>1 DEF SkipInv, Ending, Owned, Left, UnderWay
<1>2. CASE UNCHANGED vars
  BY <1>2 DEF vars, vtherm, switches, memory, scope, tasks, history,
              SkipInv, Ending, Owned, Left, UnderWay
<1> QED
  BY <1>1, <1>2, SkipEvaluation, SkipOverride, SkipPeople, SkipVTherm DEF Next, People

(***************************************************************************)
(* Whatever became of the calls that began and ended it, a skip is over at *)
(* its end time, and its eco is gone, or the schedule is to put its own    *)
(* block back, or one of the slips says why not.                           *)
(***************************************************************************)
THEOREM SkipHolds == Spec => []SkipLeavesNothingBehind
<1>1. TypeOK /\ SkipInv => SkipLeavesNothingBehind
  BY DEF SkipInv, Ending, Left, UnderWay, SkipLeavesNothingBehind, Settled, Idle
<1>2. Spec => [](TypeOK /\ SkipInv)
  BY InitTypes, NextTypes, SkipInit, SkipNext, PTL DEF Spec
<1> QED
  BY <1>1, <1>2, PTL

-----------------------------------------------------------------------------
(***************************************************************************)
(* ScheduleObeyed for every day of blocks.  Settled states are few: the    *)
(* invariant says what holds while an evaluation, a call or an event is    *)
(* still to come.                                                          *)
(*                                                                         *)
(* dormant_reason is what it would be now, unless an evaluation is asked   *)
(* for that finds out.                                                     *)
(***************************************************************************)
ScopeKnown == ~due => reason = ComputeDormant(vt)

(***************************************************************************)
(* A room the schedule is in charge of has applied the block it should be  *)
(* on, or calls for it, or is asked to look again.                         *)
(***************************************************************************)
Target == IF latch # Never THEN latch ELSE Current

Aimed ==
  /\ ev.pc = "setting" => ~skip.on
  /\ ~due /\ ev.pc \in {"idle", "setting"} => latch = Never \/ latch > now
  /\ ~due /\ ev.pc = "idle" /\ InCharge => applied = Target
  /\ ~due /\ ev.pc = "setting" /\ InCharge => ev.key = Target

(***************************************************************************)
(* Whoever is about a skip knows that the day is decided.  A skip that a   *)
(* change touched ends in the same slot, also one that only starts after   *)
(* that change in the same evaluation.                                     *)
(***************************************************************************)
SkipOpen == skip.on \/ (ev.pc = "skip" /\ ~decided)

Decides == skip.on \/ svc # Idle \/ ev.pc \in {"starting", "restoring"} => decided

TouchEnds ==
  SkipOpen /\ touched => external = now /\ (due \/ (skip.on /\ ev.pc \in {"skip", "restoring"}))

(***************************************************************************)
(* There is nothing to obey yet, or a slip or a call answers for it.       *)
(***************************************************************************)
Excused == applied = Never \/ slip # "none" \/ vt = "gone" \/ UnderWay

(***************************************************************************)
(* During a skip the preset is eco, or a person's if touched.              *)
(***************************************************************************)
SkipKept ==
  /\ SkipOpen /\ touched => by \in {"person", "paused"} \/ Excused
  /\ skip.on /\ ~touched /\ preset # "eco" => Excused \/ ev.pc = "starting"
  /\ skip.on /\ ~touched /\ preset = "eco" /\ ev.pc = "starting" => Excused

(***************************************************************************)
(* A change in a pause lasts until the pause is seen to end.               *)
(***************************************************************************)
PauseAhead == resume \/ reason = "paused" \/ (active /\ paused)

PauseKept == by = "paused" => Excused \/ PauseAhead

(***************************************************************************)
(* The preset is that of the applied block, or somebody else's by right.   *)
(***************************************************************************)
Justified ==
  ~boost.on => \/ Excused
               \/ preset = PresetOf[applied]
               \/ by = "person" /\ external >= applied
               \/ by = "paused" /\ PauseAhead
               \/ by = "skip" /\ skip.on
               \/ ev.pc = "starting"

ObeyInv == TouchEnds /\ SkipKept /\ PauseKept /\ Justified

LEMMA ObeyInit == Init => ScopeKnown /\ Aimed /\ Decides /\ ObeyInv
BY DEF Init, ScopeKnown, Aimed, Decides, ObeyInv, SkipOpen, TouchEnds, SkipKept, PauseKept, Justified, Excused, Idle, NoSkip

-----------------------------------------------------------------------------
LEMMA DecidesNext == TypeOK /\ Decides /\ [Next]_vars => Decides'
<1> SUFFICES ASSUME TypeOK, Decides, [Next]_vars PROVE Decides'
  OBVIOUS
<1> USE DEF Decides, vtherm, switches, memory, scope, tasks, history
<1>1. CASE StartEvaluation
  BY <1>1, GotoIs DEF StartEvaluation
<1>2. CASE StartSkip
  BY <1>2 DEF StartSkip
<1>3. CASE DecideAgainstSkip
  BY <1>3, GotoIs DEF DecideAgainstSkip, DecisionDue
<1>4. CASE SuperviseSkip
  BY <1>4 DEF SuperviseSkip
<1>5. CASE SkipCallReturns
  BY <1>5, GotoIs DEF SkipCallReturns, SkipOver, NoSkip
<1>6. CASE EvaluateSchedule \/ ScheduleCallReturns
  BY <1>6, GotoIs DEF EvaluateSchedule, ScheduleCallReturns, Call
<1>7. CASE Override
  BY <1>7, SkipOverIs DEF Override, EndSkipAtOnce
<1>8. CASE OverrideReturns
  BY <1>8, SkipOverIs DEF OverrideReturns
<1>9. CASE People /\ ~Override
  BY <1>9 DEF People, PersonSets, BoostStarts, Flip, SetObserve, SetActive, SetPaused, Reload
<1>10. CASE VTherm
  BY <1>10 DEF VTherm, BoostEnds, SchedulerSets, ScopeChanges, VThermBack
<1>11. CASE Tick \/ UNCHANGED vars
  BY <1>11 DEF Tick, vars
<1> QED
  BY <1>1, <1>2, <1>3, <1>4, <1>5, <1>6, <1>7, <1>8, <1>9, <1>10, <1>11 DEF Next, Evaluation

LEMMA ScopeNext == ScopeKnown /\ [Next]_vars => ScopeKnown'
<1> SUFFICES ASSUME ScopeKnown, [Next]_vars PROVE ScopeKnown'
  OBVIOUS
<1> USE DEF vtherm, switches, memory, scope, tasks, history
<1>1. \/ due' = TRUE
      \/ reason' = ComputeDormant(vt) /\ UNCHANGED <<vt, active, paused>>
      \/ UNCHANGED <<due, reason, vt, active, paused>>
  <2>1. CASE Evaluation
    <3>1. ASSUME NEW p, NEW outcome, NEW owner, NEW wrong, SetPreset(p, outcome, owner, wrong),
                 UNCHANGED switches
          PROVE  due' = TRUE \/ UNCHANGED <<due, reason, vt, active, paused>>
      BY <3>1 DEF SetPreset, Arrive
    <3>2. CASE SkipCallReturns
      BY <3>1, <3>2, PutBackIs DEF SkipCallReturns
    <3>3. CASE ScheduleCallReturns
      BY <3>1, <3>3 DEF ScheduleCallReturns
    <3>4. CASE StartEvaluation \/ StartSkip \/ DecideAgainstSkip \/ SuperviseSkip \/ EvaluateSchedule
      BY <3>4 DEF StartEvaluation, StartSkip, DecideAgainstSkip, SuperviseSkip, EvaluateSchedule
    <3> QED
      BY <2>1, <3>2, <3>3, <3>4 DEF Evaluation
  <2>2. CASE OverrideReturns
    <3>1. PICK outcome \in Outcomes : (PutBack(svc, outcome) /\ outcome = "done") \/ due' = TRUE
      BY <2>2 DEF OverrideReturns
    <3> QED
      BY <3>1, PutBackIs DEF SetPreset, Arrive
  <2>3. CASE People
    BY <2>3 DEF People, Override, PersonSets, BoostStarts, Flip, SetObserve, SetActive, SetPaused, Reload
  <2>4. CASE VTherm
    BY <2>4 DEF VTherm, BoostEnds, SchedulerSets, ScopeChanges, VThermBack
  <2>5. CASE Tick \/ UNCHANGED vars
    BY <2>5 DEF Tick, vars
  <2> QED
    BY <2>1, <2>2, <2>3, <2>4, <2>5 DEF Next
<1> QED
  BY <1>1 DEF ScopeKnown, ComputeDormant

(***************************************************************************)
(* Whoever does not ask for an evaluation leaves the aim alone.            *)
(***************************************************************************)
LEMMA InChargeKept ==
  ASSUME UNCHANGED <<now, wants, observe, active, reason, standdown>>, InCharge', skip.on => skip'.on
  PROVE  InCharge
BY DEF InCharge, Enabled, StandingDown

LEMMA AimedNext == TypeOK /\ Aimed /\ [Next]_vars => Aimed'
<1> SUFFICES ASSUME TypeOK, Aimed, [Next]_vars PROVE Aimed'
  OBVIOUS
<1> USE DEF vtherm, switches, memory, scope, tasks, history
<1>0. ASSUME due' = TRUE, ev'.pc = "setting" => ev.pc = "setting" /\ (skip'.on => skip.on)
      PROVE  Aimed'
  BY <1>0 DEF Aimed
<1>1. CASE StartEvaluation \/ StartSkip \/ DecideAgainstSkip \/ SuperviseSkip \/ SkipCallReturns
  <2>1. \/ Goto("skip") \/ Goto("schedule")
        \/ Call("starting", "eco", Never) \/ Call("restoring", RestoreTarget, RestoreKey)
    BY <1>1 DEF StartEvaluation, StartSkip, DecideAgainstSkip, SuperviseSkip, SkipCallReturns
  <2>2. ev'.pc \notin {"idle", "setting"}
    BY <2>1, GotoIs DEF Call
  <2> QED
    BY <2>2 DEF Aimed
<1>2. CASE EvaluateSchedule
  <2>0. UNCHANGED <<now, skip, due, reason, wants, active, observe, standdown>>
    BY <1>2 DEF EvaluateSchedule
  <2>1. latch' = Never \/ latch' > now
    BY <1>2 DEF EvaluateSchedule, LatchAfter, LatchHolds, LatchStarts, NextWarmBy
  <2>2. Driven = Target' /\ (InCharge' <=> InCharge) /\ (InCharge => MaySchedule)
    BY <2>0 DEF Driven, Target, Current, InCharge, MaySchedule, Enabled, StandingDown, Blocked
  <2>3. \/ Goto("idle") /\ (~MaySchedule \/ applied' = Driven)
        \/ Call("setting", PresetOf[Driven], Driven) /\ MaySchedule
    BY <1>2 DEF EvaluateSchedule
  <2>4. CASE Goto("idle") /\ (~MaySchedule \/ applied' = Driven)
    BY <2>0, <2>1, <2>2, <2>4, GotoIs DEF Aimed
  <2>5. CASE Call("setting", PresetOf[Driven], Driven) /\ MaySchedule
    BY <2>0, <2>1, <2>2, <2>5 DEF Aimed, Call, MaySchedule
  <2> QED
    BY <2>3, <2>4, <2>5
<1>3. CASE ScheduleCallReturns
  <2>1. /\ ev.pc = "setting" /\ ev'.pc = "idle" /\ applied' = ev.key
        /\ UNCHANGED <<now, wants, observe, active, latch, skip>>
    BY <1>3, GotoIs DEF ScheduleCallReturns
  <2>2. due' = TRUE \/ UNCHANGED <<due, reason, standdown>>
    BY <1>3 DEF ScheduleCallReturns, SetPreset, Arrive
  <2>3. CASE UNCHANGED <<due, reason, standdown>>
    <3>1. Target' = Target
      BY <2>1 DEF Target, Current
    <3>2. InCharge' => InCharge
      BY <2>1, <2>3, InChargeKept
    <3> QED
      BY <2>1, <2>3, <3>1, <3>2 DEF Aimed
  <2> QED
    BY <1>0, <2>1, <2>2, <2>3
<1>4. CASE Override
  <2>0. /\ UNCHANGED <<now, ev, latch>> /\ (skip'.on => skip.on)
        /\ standdown'.until \in {StandDownUntil} \cup {now + d : d \in 1..MaxBoost}
    <3>1. UNCHANGED <<now, ev, latch>> /\ (skip'.on => skip.on)
      BY <1>4, SkipOverIs DEF Override, EndSkipAtOnce
    <3>2. PICK until \in {StandDownUntil} \cup {now + d : d \in 1..MaxBoost} :
            standdown' = [until |-> until, cause |-> "service"]
      BY <1>4 DEF Override
    <3> QED
      BY <3>1, <3>2
  <2>1. ~InCharge'
    <3>1. now < standdown'.until
      BY <2>0, StandDownEnds, ScheduleAssumption, SizesAssumption DEF TypeOK, Time
    <3> QED
      BY <2>0, <3>1 DEF InCharge, StandingDown
  <2>2. due' = TRUE \/ due' = due
    BY <1>4 DEF Override
  <2> QED
    BY <1>0, <2>0, <2>1, <2>2 DEF Aimed
<1>5. CASE OverrideReturns
  <2>1. due' = TRUE /\ UNCHANGED ev /\ ~skip'.on
    <3>1. PICK outcome \in Outcomes : (PutBack(svc, outcome) /\ outcome = "done") \/ due' = TRUE
      BY <1>5 DEF OverrideReturns
    <3>2. due' = TRUE
      BY <3>1, PutBackIs DEF SetPreset, Arrive
    <3> QED
      BY <1>5, <3>2, SkipOverIs DEF OverrideReturns
  <2> QED
    BY <1>0, <2>1
<1>6. CASE People
  <2>1. ASSUME ~Override
        PROVE  due' = TRUE /\ ev' = ev /\ skip' = skip
    BY <1>6, <2>1 DEF People, PersonSets, BoostStarts, Flip, SetObserve, SetActive, SetPaused, Reload
  <2> QED
    BY <1>0, <1>4, <2>1
<1>7. CASE VTherm
  <2>1. due' = TRUE /\ UNCHANGED <<ev, skip>>
    BY <1>7 DEF VTherm, BoostEnds, SchedulerSets, ScopeChanges, VThermBack
  <2> QED
    BY <1>0, <2>1
<1>8. CASE Tick
  <2>1. due' = TRUE /\ UNCHANGED <<ev, skip>>
    BY <1>8 DEF Tick
  <2> QED
    BY <1>0, <2>1
<1>9. CASE UNCHANGED vars
  BY <1>9 DEF vars, Aimed, InCharge, Enabled, StandingDown, Target, Current
<1> QED
  BY <1>1, <1>2, <1>3, <1>4, <1>5, <1>6, <1>7, <1>8, <1>9 DEF Next, Evaluation

-----------------------------------------------------------------------------
(***************************************************************************)
(* What a step keeps when it moves nothing that the room is judged by.     *)
(***************************************************************************)
LEMMA PauseStaysAhead ==
  ASSUME NEW v, UpdateDormant(v), UNCHANGED <<active, paused>>, PauseAhead
  PROVE  PauseAhead'
BY DEF UpdateDormant, LeavesPause, ComputeDormant, PauseAhead

LEMMA ExcusedObeys ==
  ASSUME Excused', TouchEnds'
  PROVE  ObeyInv'
BY DEF ObeyInv, SkipKept, PauseKept, Justified

(***************************************************************************)
(* A call that ends a skip leaves the right preset, or there is an excuse. *)
(***************************************************************************)
LEMMA FailedIsExcused ==
  ASSUME NEW p, NEW outcome \in Outcomes, NEW owner, NEW wrong,
         SetPreset(p, outcome, owner, wrong), outcome # "done"
  PROVE  Excused'
BY DEF SetPreset, Outcomes, Excused

LEMMA PutBackObeys ==
  ASSUME TypeOK, Owned, NEW c, NEW outcome \in Outcomes, PutBack(c, outcome),
         UNCHANGED applied, ~SkipOpen'
  PROVE  ObeyInv'
<1>1. PICK owner \in {"hearth", skip.by}, wrong \in {"none", "before", "late", slip} :
        /\ SetPreset(c.to, outcome, owner, wrong)
        /\ \/ applied = Never
           \/ wrong \in {"before", "late"}
           \/ owner = "hearth" /\ c.to = PresetOf[applied]
  BY PutBackIs
<1>2. TouchEnds' /\ ~skip'.on
  BY DEF TouchEnds, SkipOpen
<1>3. CASE outcome # "done"
  BY <1>1, <1>2, <1>3, FailedIsExcused, ExcusedObeys
<1>4. CASE outcome = "done"
  <2>1. preset' = c.to /\ by' = owner /\ slip' = wrong
    BY <1>1, <1>4 DEF SetPreset, Arrive, Owned
  <2>2. CASE applied = Never \/ wrong \in {"before", "late"}
    <3>1. Excused'
      BY <2>1, <2>2 DEF Excused
    <3> QED
      BY <1>2, <3>1, ExcusedObeys
  <2>3. CASE owner = "hearth" /\ c.to = PresetOf[applied]
    BY <1>2, <2>1, <2>3 DEF ObeyInv, SkipKept, PauseKept, Justified
  <2> QED
    BY <1>1, <2>2, <2>3
<1> QED
  BY <1>3, <1>4

(***************************************************************************)
(* A skip that ends with no call to make: the preset is the one to come    *)
(* back to, or it is a person's, or eco is still to be written.            *)
(***************************************************************************)
LEMMA EndSkipObeys ==
  ASSUME TypeOK, SkipInv, ObeyInv, skip.on, NEW restore \in BOOLEAN, EndSkipAtOnce(restore),
         restore \/ touched,
         decided, UNCHANGED <<decided, now, preset, boost, vt, external, active, paused, resume, reason>>,
         UnderWay => UnderWay', ev.pc = "starting" => ev'.pc = "starting"
  PROVE  ObeyInv'
<1> USE DEF ObeyInv, SkipInv
<1>1. ~skip'.on
  BY SkipOverIs DEF EndSkipAtOnce
<1>2. TouchEnds' /\ SkipKept'
  BY <1>1 DEF TouchEnds, SkipKept, SkipOpen
<1>3. SUFFICES ASSUME ~Excused'
               PROVE  PauseKept' /\ Justified'
  BY <1>2, ExcusedObeys
<1>4. vt # "gone" /\ Seen = preset /\ ~UnderWay /\ applied' # Never /\ slip' = "none"
  BY <1>3 DEF Excused, Seen
<1>5. slip = "none" /\ (applied = Never => Seen = RestoreTarget)
  BY <1>4 DEF EndSkipAtOnce
<1>6. CASE IsRestored
  <2>1. by' = "hearth" /\ preset' = PresetOf[applied']
    BY <1>4, <1>6 DEF EndSkipAtOnce, IsRestored, RestoreTarget, RestoreApplied
  <2> QED
    BY <2>1 DEF PauseKept, Justified
<1>7. CASE ~IsRestored
  <2>1. by' = by /\ by # "skip"
    BY <1>3, <1>4, <1>7, EndSkipLeaves DEF EndSkipAtOnce, Excused
  <2>2. ~Excused
    <3>1. applied = Never => applied' = Never
      BY <1>5, <1>7 DEF EndSkipAtOnce, IsRestored, RestoreApplied
    <3> QED
      BY <1>4, <1>5, <3>1 DEF Excused
  <2>3. PauseAhead => PauseAhead'
    BY DEF PauseAhead
  <2>4. PauseKept'
    BY <2>1, <2>2, <2>3 DEF PauseKept
  <2>5. CASE Enabled("schedule")
    <3>1. applied' = Current /\ Current <= now
      BY <2>5, CurrentIs DEF EndSkipAtOnce, RestoreApplied, TypeOK
    <3>2. CASE touched
      BY <2>1, <2>2, <2>3, <3>1, <3>2 DEF SkipKept, TouchEnds, PauseKept, Justified, SkipOpen
    <3>3. CASE ~touched
      <4>1. preset # "eco"
        BY <1>4, <1>7, <2>5, <3>3 DEF EndSkipAtOnce, Restores, IsRestored
      <4> QED
        BY <2>2, <2>4, <3>3, <4>1 DEF SkipKept, Justified
    <3> QED
      BY <3>2, <3>3
  <2>6. CASE ~Enabled("schedule")
    <3>1. applied' = applied
      BY <2>6 DEF EndSkipAtOnce, RestoreApplied
    <3> QED
      BY <2>1, <2>2, <2>3, <2>4, <3>1 DEF Justified
  <2> QED
    BY <2>4, <2>5, <2>6
<1> QED
  BY <1>2, <1>6, <1>7

-----------------------------------------------------------------------------
LEMMA ObeyEvaluation ==
  ASSUME TypeOK, SkipInv, CallInv, Aimed, Decides, ObeyInv, Evaluation
  PROVE  ObeyInv'
<1> USE DEF vtherm, switches, memory, scope, tasks, history, ObeyInv, SkipInv, SkipOpen
<1>1. CASE StartEvaluation
  <2>1. /\ ev.pc = "idle" /\ ev'.pc = "skip"
        /\ UNCHANGED <<now, vt, preset, boost, active, paused, skip, decided, svc, by, slip, external>>
        /\ touched' = (touched /\ skip.on)
    BY <1>1, GotoIs DEF StartEvaluation, StampsSkip
  <2>2. applied' = Never \/ (applied' = applied /\ (PauseAhead => PauseAhead'))
    BY <1>1 DEF StartEvaluation, LeavesPause, ComputeDormant, PauseAhead
  <2>3. TouchEnds'
    BY <2>1 DEF TouchEnds
  <2>4. CASE applied' = Never
    BY <2>3, <2>4, ExcusedObeys DEF Excused
  <2>5. CASE applied' = applied /\ (PauseAhead => PauseAhead')
    BY <2>1, <2>3, <2>5 DEF SkipKept, PauseKept, Justified, Excused, UnderWay
  <2> QED
    BY <2>2, <2>4, <2>5
<1>2. CASE StartSkip
  <2>1. /\ ev.pc = "skip" /\ ~decided /\ ~skip.on /\ UNCHANGED <<touched, due>>
        /\ IF preset = "eco" THEN ev'.pc = "schedule" ELSE ev'.pc = "starting"
        /\ UNCHANGED <<now, vt, preset, boost, active, paused, reason, resume, applied, svc, by, slip, external>>
    BY <1>2, GotoIs DEF StartSkip, DecisionDue, Call
  <2>2. by # "skip"
    BY <2>1 DEF Owned
  <2> QED
    BY <2>1, <2>2 DEF TouchEnds, SkipKept, PauseKept, Justified, Excused, UnderWay, PauseAhead
<1>3. CASE DecideAgainstSkip
  <2>1. /\ ~skip.on /\ ev.pc = "skip" /\ ev'.pc = "schedule"
        /\ UNCHANGED <<vt, preset, boost, active, paused, reason, resume, applied, skip, svc, by, slip, external>>
    BY <1>3, GotoIs DEF DecideAgainstSkip
  <2> QED
    BY <2>1 DEF TouchEnds, SkipKept, PauseKept, Justified, Excused, UnderWay, PauseAhead
<1>4. CASE SuperviseSkip
  <2>0. /\ ev.pc = "skip" /\ skip.on
        /\ decided
        /\ UNCHANGED <<now, vt, preset, boost, active, paused, reason, resume, due, svc, external>>
        /\ UNCHANGED <<touched, decided>>
    BY <1>4 DEF SuperviseSkip, Decides
  <2>1. ASSUME NEW restore \in BOOLEAN, SkipEnds(restore), EndSkipAtOnce(restore)
        PROVE  ObeyInv'
    <3>1. restore \/ touched
      BY <2>1 DEF SkipEnds
    <3>2. UnderWay => UnderWay'
      BY <2>0 DEF UnderWay
    <3> QED
      BY <2>0, <2>1, <3>1, <3>2, EndSkipObeys
  <2>2. CASE Call("restoring", RestoreTarget, RestoreKey) /\ UNCHANGED skip
    <3>1. ev'.pc = "restoring"
      BY <2>2 DEF Call
    <3>2. TouchEnds' /\ Excused'
      BY <2>0, <2>2, <3>1 DEF TouchEnds, Excused, UnderWay
    <3> QED
      BY <3>2, ExcusedObeys
  <2>3. CASE SkipGoesOn /\ Goto("schedule") /\ UNCHANGED <<skip, applied, history>>
    <3>1. ~touched /\ ev'.pc = "schedule"
      BY <2>3, GotoIs DEF SkipGoesOn
    <3> QED
      BY <2>0, <2>3, <3>1 DEF TouchEnds, SkipKept, PauseKept, Justified, Excused, UnderWay, PauseAhead
  <2> QED
    BY <1>4, <2>1, <2>2, <2>3 DEF SuperviseSkip
<1>5. CASE SkipCallReturns
  <2>0. /\ ev'.pc = "schedule"
        /\ UNCHANGED <<now, active, paused, external, touched, decided, svc, applied>>
    BY <1>5, GotoIs DEF SkipCallReturns
  <2>1. ASSUME NEW outcome \in Outcomes, ev.pc = "starting", UNCHANGED skip,
               SetPreset("eco", outcome, "skip", IF skip.on /\ ~touched THEN slip ELSE "late")
        PROVE  ObeyInv'
    <3>1. due' = TRUE \/ due' = due
      BY <2>1 DEF SetPreset, Arrive
    <3>2. TouchEnds'
      BY <2>0, <2>1, <3>1 DEF TouchEnds
    <3>3. CASE outcome # "done"
      BY <2>1, <3>2, <3>3, FailedIsExcused, ExcusedObeys
    <3>4. CASE outcome = "done"
      <4>1. /\ preset' = "eco" /\ by' = IF preset = "eco" THEN by ELSE "skip"
            /\ slip' = IF skip.on /\ ~touched THEN slip ELSE "late"
            /\ UNCHANGED vt /\ UpdateDormant(vt)
        BY <2>1, <3>4 DEF SetPreset, Arrive
      <4>2. CASE ~skip.on \/ touched
        <5>1. Excused'
          BY <4>1, <4>2 DEF Excused
        <5> QED
          BY <3>2, <5>1, ExcusedObeys
      <4>3. CASE skip.on /\ ~touched
        <5>1. Excused => Excused'
          BY <2>0, <2>1, <4>1, <4>3 DEF Excused, UnderWay
        <5>2. PauseAhead => PauseAhead'
          BY <2>0, <4>1, PauseStaysAhead
        <5>3. preset = "eco" => Excused
          BY <2>1, <4>3 DEF SkipKept
        <5> QED
          BY <2>0, <2>1, <3>2, <4>1, <4>3, <5>1, <5>2, <5>3 DEF SkipKept, PauseKept, Justified
      <4> QED
        BY <4>2, <4>3
    <3> QED
      BY <3>3, <3>4
  <2>2. ASSUME NEW outcome \in Outcomes, PutBack(ev, outcome), SkipOver
        PROVE  ObeyInv'
    BY <2>0, <2>2, SkipOverIs, PutBackObeys
  <2> QED
    BY <1>5, <2>1, <2>2 DEF SkipCallReturns
<1>6. CASE EvaluateSchedule
  <2>0. /\ ev.pc = "schedule" /\ ev'.pc \in {"idle", "setting"}
        /\ UNCHANGED <<now, vt, preset, boost, active, paused, reason, resume, skip, due, svc, external, touched>>
    BY <1>6, GotoIs DEF EvaluateSchedule, Call
  <2>1. TouchEnds'
    BY <2>0 DEF TouchEnds
  <2>2. CASE UNCHANGED <<applied, history>>
    BY <2>0, <2>1, <2>2 DEF SkipKept, PauseKept, Justified, Excused, UnderWay, PauseAhead
  <2>3. ASSUME NEW block \in At, NEW kept \in BOOLEAN, kept => external >= block /\ applied # Never,
               ~skip.on, kept \/ Seen = PresetOf[block], applied' = block,
               by' = IF kept THEN by ELSE "hearth",
               slip' = IF ~kept THEN "none" ELSE IF by \in {"hearth", "vtherm"} THEN "stale" ELSE slip
        PROVE  ObeyInv'
    <3>1. CASE kept
      <4>1. Excused => Excused'
        BY <2>0, <2>3, <3>1 DEF Excused, UnderWay
      <4>2. by = "skip" => Excused
        BY <2>3 DEF Left, Excused
      <4>3. by \in {"hearth", "vtherm"} => Excused'
        BY <2>3, <3>1 DEF Excused
      <4>4. by \in {"hearth", "skip", "person", "paused", "vtherm"}
        BY DEF TypeOK, Owners
      <4>5. PauseAhead' = PauseAhead
        BY <2>0 DEF PauseAhead
      <4> QED
        BY <2>0, <2>1, <2>3, <3>1, <4>1, <4>2, <4>3, <4>4, <4>5 DEF SkipKept, PauseKept, Justified
    <3>2. CASE ~kept
      BY <2>0, <2>1, <2>3, <3>2 DEF SkipKept, PauseKept, Justified, Excused, Seen
    <3> QED
      BY <3>1, <3>2
  <2>4. Driven \in At
    BY <1>6, CurrentIs, ScheduleAssumption DEF EvaluateSchedule, LatchAfter, Driven, TypeOK
  <2> QED
    BY <1>6, <2>2, <2>3, <2>4 DEF EvaluateSchedule, MaySchedule
<1>7. CASE ScheduleCallReturns
  <2>0. /\ ev.pc = "setting" /\ ev'.pc = "idle" /\ applied' = ev.key /\ UNCHANGED <<now, skip, touched>>
    BY <1>7, GotoIs DEF ScheduleCallReturns
  <2>1. ~skip.on /\ ev.to = PresetOf[ev.key]
    BY <2>0 DEF Aimed, CallInv
  <2>2. PICK outcome \in Outcomes : SetPreset(ev.to, outcome, "hearth", "none")
    BY <1>7 DEF ScheduleCallReturns
  <2>3. TouchEnds'
    BY <2>0, <2>1 DEF TouchEnds
  <2>4. CASE outcome # "done"
    BY <2>2, <2>3, <2>4, FailedIsExcused, ExcusedObeys
  <2>5. CASE outcome = "done"
    <3>1. preset' = PresetOf[applied'] /\ by' = "hearth"
      BY <2>0, <2>1, <2>2, <2>5 DEF SetPreset, Arrive
    <3> QED
      BY <2>0, <2>1, <2>3, <3>1 DEF SkipKept, PauseKept, Justified
  <2> QED
    BY <2>4, <2>5
<1> QED
  BY <1>1, <1>2, <1>3, <1>4, <1>5, <1>6, <1>7 DEF Evaluation

LEMMA ObeyOverride ==
  ASSUME TypeOK, SkipInv, Decides, ObeyInv, Override \/ OverrideReturns
  PROVE  ObeyInv'
<1> USE DEF vtherm, switches, memory, scope, tasks, history, ObeyInv, SkipInv, SkipOpen
<1>1. CASE Override
  <2>0. /\ UNCHANGED <<now, vt, preset, boost, active, paused, reason, resume>>
        /\ UNCHANGED <<external, touched, decided, ev>>
        /\ svc = Idle /\ (skip.on => decided)
    BY <1>1 DEF Override, Decides
  <2>1. CASE due' = TRUE /\ UNCHANGED <<skip, applied, history, svc>>
    BY <2>0, <2>1 DEF TouchEnds, SkipKept, PauseKept, Justified, Excused, UnderWay, PauseAhead
  <2>2. CASE skip.on /\ EndSkipAtOnce(TRUE) /\ UNCHANGED svc
    <3>1. UnderWay => UnderWay'
      BY <2>0, <2>2 DEF UnderWay
    <3> QED
      BY <2>0, <2>2, <3>1, EndSkipObeys
  <2>3. CASE /\ svc' = [pc |-> "restoring", to |-> RestoreTarget, key |-> RestoreKey]
             /\ UNCHANGED <<skip, due>>
    <3>1. TouchEnds' /\ Excused'
      BY <2>0, <2>3 DEF TouchEnds, Excused, UnderWay
    <3> QED
      BY <3>1, ExcusedObeys
  <2> QED
    BY <1>1, <2>1, <2>2, <2>3 DEF Override
<1>2. CASE OverrideReturns
  <2>0. UNCHANGED applied /\ ~SkipOpen'
    BY <1>2, SkipOverIs DEF OverrideReturns, Decides
  <2>1. PICK outcome \in Outcomes :
          \/ PutBack(svc, outcome)
          \/ /\ outcome # "done"
             /\ IF outcome = "raised" THEN slip' = "failed" /\ moves' = moves + 1
                                      ELSE UNCHANGED <<slip, moves>>
             /\ UNCHANGED <<vtherm, boostEnded, standdown, scope, by>>
    BY <1>2 DEF OverrideReturns
  <2>2. CASE PutBack(svc, outcome)
    BY <2>0, <2>2, PutBackObeys
  <2>3. CASE /\ outcome # "done"
             /\ outcome = "raised" => slip' = "failed"
             /\ UNCHANGED vt
    <3>1. TouchEnds' /\ Excused'
      BY <2>0, <2>3 DEF TouchEnds, Excused, Outcomes
    <3> QED
      BY <3>1, ExcusedObeys
  <2> QED
    BY <2>1, <2>2, <2>3
<1> QED
  BY <1>1, <1>2

LEMMA ObeyPeople ==
  ASSUME TypeOK, ObeyInv,
         \/ \E p \in {"eco", "comfort", "frost"} : PersonSets(p)
         \/ \E d \in 1..MaxBoost : BoostStarts(d)
         \/ \E k \in Mechanisms : Flip(k)
         \/ SetObserve \/ SetActive \/ SetPaused \/ Reload
  PROVE  ObeyInv'
<1> USE DEF vtherm, switches, memory, scope, tasks, history, ObeyInv, SkipOpen
<1>1. ASSUME NEW p \in {"eco", "comfort", "frost"}, PersonSets(p)
      PROVE  ObeyInv'
  <2>1. /\ external' = now /\ touched' = TRUE /\ due' = TRUE /\ UNCHANGED <<now, applied>>
        /\ by' = IF reason' = "paused" THEN "paused" ELSE "person"
        /\ slip' = IF applied > now THEN "kept" ELSE "none"
    BY <1>1 DEF PersonSets
  <2>2. TouchEnds' /\ SkipKept'
    BY <2>1 DEF TouchEnds, SkipKept
  <2>3. by' = "paused" => PauseAhead'
    BY <2>1 DEF PauseAhead
  <2>4. PauseKept'
    BY <2>3 DEF PauseKept
  <2>5. CASE applied > now
    BY <2>1, <2>2, <2>5, ExcusedObeys DEF Excused
  <2>6. CASE ~(applied > now)
    <3>1. applied \in Int /\ now \in Int
      <4>1. applied \in Int
        <5>1. applied \in At \cup {Never}
          BY DEF TypeOK
        <5>2. At \subseteq Int /\ Never \in Int
          BY SlotsAreNat DEF Never
        <5> QED
          BY <5>1, <5>2
      <4>2. now \in Int
        BY ScheduleAssumption DEF TypeOK, Time
      <4> QED
        BY <4>1, <4>2
    <3>2. external' >= applied'
      BY <2>1, <2>6, <3>1
    <3> QED
      BY <2>1, <2>2, <2>3, <2>4, <3>2 DEF Justified
  <2> QED
    BY <2>5, <2>6
<1>2. ASSUME NEW d \in 1..MaxBoost, BoostStarts(d)
      PROVE  ObeyInv'
  <2>1. by' = "person" /\ external' = now /\ now' = now /\ touched' = TRUE /\ due' = TRUE /\ boost'.on
    BY <1>2 DEF BoostStarts
  <2> QED
    BY <2>1 DEF TouchEnds, SkipKept, PauseKept, Justified
<1>3. ASSUME (\E k \in Mechanisms : Flip(k)) \/ SetObserve \/ SetActive \/ SetPaused \/ Reload
      PROVE  ObeyInv'
  <2>1. /\ due' = TRUE /\ slip' \in {slip, "forgot"}
        /\ UNCHANGED <<now, vt, preset, boost, skip, decided, ev, svc, by, external, touched, applied>>
    BY <1>3 DEF Flip, SetObserve, SetActive, SetPaused, Reload, PauseUnnoticed
  <2>2. by = "paused" /\ PauseAhead => PauseAhead' \/ slip' = "forgot"
    <3>1. CASE (\E k \in Mechanisms : Flip(k)) \/ SetObserve
      BY <3>1 DEF Flip, SetObserve, PauseAhead
    <3>2. CASE SetActive \/ SetPaused
      BY <3>2 DEF SetActive, SetPaused, PauseUnnoticed, PauseAhead
    <3>3. CASE Reload
      BY <3>3 DEF Reload, LeavesPause, ComputeDormant, PauseAhead, TypeOK, Scopes
    <3> QED
      BY <1>3, <3>1, <3>2, <3>3
  <2>3. slip' = "forgot" => Excused'
    BY DEF Excused
  <2>4. Excused => Excused'
    BY <2>1 DEF Excused, UnderWay
  <2> QED
    BY <2>1, <2>2, <2>3, <2>4 DEF TouchEnds, SkipKept, PauseKept, Justified
<1> QED
  BY <1>1, <1>2, <1>3

LEMMA ObeyVTherm == ASSUME TypeOK, SkipInv, ObeyInv, VTherm PROVE ObeyInv'
<1> USE DEF vtherm, switches, memory, scope, tasks, history, ObeyInv, SkipInv, SkipOpen
<1>0. due' = TRUE /\ UNCHANGED <<now, active, paused, skip, decided, ev, svc, slip>>
  BY DEF VTherm, BoostEnds, SchedulerSets, ScopeChanges, VThermBack
<1>1. ASSUME applied' = Never, UNCHANGED <<external, touched>>
      PROVE  ObeyInv'
  BY <1>0, <1>1, ExcusedObeys DEF Excused, TouchEnds
<1>2. CASE BoostEnds
  BY <1>1, <1>2 DEF BoostEnds
<1>3. ASSUME NEW p \in {"eco", "comfort"}, SchedulerSets(p)
      PROVE  ObeyInv'
  BY <1>1, <1>3 DEF SchedulerSets
<1>4. ASSUME NEW v \in Scopes, ScopeChanges(v)
      PROVE  ObeyInv'
  <2>1. /\ vt # "gone" /\ UpdateDormant(v)
        /\ UNCHANGED <<preset, boost, external, touched, applied, by>>
    BY <1>4 DEF ScopeChanges
  <2>2. PauseAhead => PauseAhead'
    BY <1>0, <2>1, PauseStaysAhead
  <2>3. Excused => Excused'
    BY <1>0, <2>1 DEF Excused, UnderWay
  <2> QED
    BY <1>0, <2>1, <2>2, <2>3 DEF TouchEnds, SkipKept, PauseKept, Justified
<1>5. ASSUME NEW p \in Presets, VThermBack(p)
      PROVE  ObeyInv'
  <2>1. CASE boost.on /\ external' = now /\ touched' = TRUE /\ UNCHANGED <<boost, by>>
    BY <1>0, <2>1 DEF Owned, TouchEnds, SkipKept, PauseKept, Justified
  <2>2. CASE applied' = Never /\ UNCHANGED <<external, touched>>
    BY <1>1, <2>2
  <2> QED
    BY <1>5, <2>1, <2>2 DEF VThermBack
<1> QED
  BY <1>2, <1>3, <1>4, <1>5 DEF VTherm

LEMMA ObeyNext == TypeOK /\ SkipInv /\ CallInv /\ Aimed /\ Decides /\ ObeyInv /\ [Next]_vars => ObeyInv'
<1> SUFFICES ASSUME TypeOK, SkipInv, CallInv, Aimed, Decides, ObeyInv, [Next]_vars PROVE ObeyInv'
  OBVIOUS
<1>1. CASE Tick
  <2>1. /\ ~due /\ ev.pc = "idle"
        /\ UNCHANGED <<vt, preset, boost, active, paused, reason, resume>>
        /\ UNCHANGED <<skip, decided, ev, svc, by, slip, external, touched, applied>>
    BY <1>1 DEF Tick, Settled, vtherm, switches, scope, history
  <2> QED
    BY <2>1 DEF ObeyInv, SkipOpen, TouchEnds, SkipKept, PauseKept, Justified, Excused, UnderWay, PauseAhead
<1>2. CASE UNCHANGED vars
  BY <1>2 DEF vars, vtherm, switches, memory, scope, tasks, history,
              ObeyInv, SkipOpen, TouchEnds, SkipKept, PauseKept, Justified, Excused, UnderWay, PauseAhead
<1> QED
  BY <1>1, <1>2, ObeyEvaluation, ObeyOverride, ObeyPeople, ObeyVTherm DEF Next, People

(***************************************************************************)
(* Once all is settled a room the schedule is in charge of is on its       *)
(* block, or a person decided otherwise, or a resume waits, or one of the  *)
(* slips says why: for every day of blocks and any number of moves.        *)
(***************************************************************************)
THEOREM ObeyedHolds == Spec => []ScheduleObeyed
<1>1. TypeOK /\ ScopeKnown /\ Aimed /\ ObeyInv => ScheduleObeyed
  <2> SUFFICES ASSUME TypeOK, ScopeKnown, Aimed, ObeyInv, Settled, InCharge, ~boost.on, slip = "none"
               PROVE  \/ preset = PresetOf[Target]
                      \/ by = "person" /\ external >= Current
                      \/ by = "paused" /\ resume
    BY DEF ScheduleObeyed, Target
  <2>1. reason = ComputeDormant(vt) /\ reason \in {"none", "window"} /\ applied = Target
    BY DEF ScopeKnown, Aimed, Settled, InCharge
  <2>2. vt # "gone" /\ (PauseAhead => resume)
    BY <2>1 DEF ComputeDormant, PauseAhead
  <2>3. Current \in At /\ Current <= now
    BY CurrentIs DEF TypeOK
  <2>4. applied \in At /\ applied # Never /\ applied >= Current
    <3>1. applied \in At
      BY <2>1, <2>3 DEF Target, TypeOK
    <3>2. applied \in Nat /\ Current \in Nat /\ now \in Nat
      BY <2>3, <3>1, SlotsAreNat, ScheduleAssumption DEF TypeOK, Time
    <3>3. latch = Never \/ latch > now
      BY DEF Aimed, Settled
    <3> QED
      BY <2>1, <2>3, <3>1, <3>2, <3>3 DEF Target, Never
  <2>5. ~Excused
    BY <2>2, <2>4 DEF Excused, UnderWay, Settled, Idle
  <2>6. external >= applied => external >= Current
    <3>1. external \in Int /\ applied \in Int /\ Current \in Int
      BY <2>3, <2>4, SlotsAreNat, ScheduleAssumption DEF TypeOK, Time, Never
    <3> QED
      BY <2>4, <3>1
  <2> QED
    BY <2>1, <2>2, <2>5, <2>6 DEF ObeyInv, Justified, Settled, InCharge
<1>2. Init => TypeOK /\ SkipInv /\ CallInv /\ ScopeKnown /\ Aimed /\ Decides /\ ObeyInv
  BY InitTypes, SkipInit, ObeyInit DEF Init, Idle, CallInv
<1>3. Spec => [](TypeOK /\ SkipInv /\ CallInv /\ ScopeKnown /\ Aimed /\ Decides /\ ObeyInv)
  BY <1>2, NextTypes, SkipNext, CallNext, ScopeNext, AimedNext, DecidesNext, ObeyNext, PTL DEF Spec
<1> QED
  BY <1>1, <1>3, PTL

=============================================================================
