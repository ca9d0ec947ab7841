----------------------- MODULE SourceHandover_proofs -----------------------
(***************************************************************************)
(* What holds of the hand-over for every number of sources, of set-ups of  *)
(* the entry, of failing calls and of moves of the world around it.        *)
(***************************************************************************)
EXTENDS SourceHandover, TLAPS

(***************************************************************************)
(* The four helpers that the loops and the callbacks share keep the types  *)
(* of what they change.                                                    *)
(***************************************************************************)
LEMMA FailsRange ==
  ASSUME TypeOK, NEW ok \in Outcomes
  PROVE  ok \in BOOLEAN /\ (IF ok THEN fails ELSE fails + 1) \in 0..MaxFailures
<1>1. fails \in 0..MaxFailures /\ MaxFailures \in Nat
  BY SizesAssumption DEF TypeOK
<1>2. CASE fails < MaxFailures
  <2>1. ok \in BOOLEAN
    BY <1>2 DEF Outcomes
  <2>2. CASE ok
    BY <1>1, <2>1, <2>2
  <2>3. CASE ~ok
    BY <1>1, <1>2, <2>1, <2>3
  <2> QED
    BY <2>1, <2>2, <2>3
<1>3. CASE ~(fails < MaxFailures)
  <2>1. ok = TRUE
    BY <1>3 DEF Outcomes
  <2> QED
    BY <1>1, <2>1
<1> QED
  BY <1>2, <1>3

LEMMA EventTypes ==
  ASSUME TypeOK, SourceEvent
  PROVE  asked' \in [Life -> BOOLEAN]
BY DEF TypeOK, SourceEvent, Loaded

LEMMA ReenabledTypes ==
  ASSUME TypeOK, OnSourceReenabled
  PROVE  /\ reenabled' \in [Life -> {"never", "recent", "due"}]
         /\ young' \in [Life -> BOOLEAN]
         /\ reasserting' \in [Life -> BOOLEAN]
         /\ reassert' \in [Life -> SUBSET (0..NSources)]
BY SizesAssumption DEF TypeOK, OnSourceReenabled, Loaded

LEMMA SlipTypes ==
  ASSUME TypeOK, NEW i \in Life, NEW S, NEW f \in Fates
  PROVE  Slip(i, S, f) \in [Source -> Fates]
BY DEF TypeOK, Slip

LEMMA TurnOffTypes ==
  ASSUME TypeOK, NEW i \in Life, NEW s \in Source, NEW ok \in Outcomes, TurnOff(i, s, ok)
  PROVE  /\ enabled' \in [Source -> BOOLEAN]
         /\ present' \in [Source -> BOOLEAN]
         /\ fate' \in [Source -> Fates]
         /\ fails' \in 0..MaxFailures
         /\ asked' \in [Life -> BOOLEAN]
<1>1. Claim(i) \in Fates
  BY DEF Claim, Fates, Slips
<1>2. asked' \in [Life -> BOOLEAN]
  BY EventTypes DEF TurnOff, TypeOK
<1> QED
  BY <1>1, <1>2, FailsRange DEF TurnOff, TypeOK

LEMMA TurnOnTypes ==
  ASSUME TypeOK, NEW i \in Life, NEW k, NEW s \in Source, NEW ok \in Outcomes,
         TurnOn(i, k, s, ok)
  PROVE  /\ enabled' \in [Source -> BOOLEAN]
         /\ present' \in [Source -> BOOLEAN]
         /\ fate' \in [Source -> Fates]
         /\ fails' \in 0..MaxFailures
         /\ asked' \in [Life -> BOOLEAN]
         /\ reenabled' \in [Life -> {"never", "recent", "due"}]
         /\ young' \in [Life -> BOOLEAN]
         /\ reasserting' \in [Life -> BOOLEAN]
         /\ reassert' \in [Life -> SUBSET (0..NSources)]
<1>1. {"free", "missed", "failed"} \subseteq Fates
  BY DEF Fates, Slips
<1>2. Slip(i, Passed(k, s), "missed") \in [Source -> Fates]
  BY <1>1, SlipTypes
<1>3. Slip(i, {s}, "failed") \in [Source -> Fates]
  BY <1>1, SlipTypes
<1>4. fate' \in [Source -> Fates]
  BY <1>1, <1>2, <1>3 DEF TurnOn
<1>5. asked' \in [Life -> BOOLEAN]
  BY EventTypes DEF TurnOn, TypeOK
<1>6. /\ reenabled' \in [Life -> {"never", "recent", "due"}]
      /\ young' \in [Life -> BOOLEAN]
      /\ reasserting' \in [Life -> BOOLEAN]
      /\ reassert' \in [Life -> SUBSET (0..NSources)]
  BY ReenabledTypes DEF TurnOn, TypeOK
<1> QED
  BY <1>4, <1>5, <1>6, FailsRange DEF TurnOn, TypeOK

(* The pointer of a loop moves to a source that is still to come.          *)
LEMMA FirstIsNext ==
  ASSUME NEW k \in 0..NSources, NEW S \in SUBSET Source, NEW s \in First(Later(k, S))
  PROVE  /\ s \in S /\ s \in Source /\ s \in 0..NSources /\ s > k
         /\ \A t \in S : k < t => s <= t
BY SizesAssumption DEF First, Later, Source

(* The evaluation changes phase.                                           *)
LEMMA PhaseTypes ==
  ASSUME TypeOK, NEW i \in Life, NEW p \in Phases, Phase(i, p)
  PROVE  ev' \in [Life -> [pc : Phases, at : 0..NSources, ok : BOOLEAN]]
BY SizesAssumption DEF TypeOK, Phase

LEMMA SyncTypes ==
  ASSUME TypeOK, NEW i \in Life, SyncIssues(i)
  PROVE  /\ ev' \in [Life -> [pc : Phases, at : 0..NSources, ok : BOOLEAN]]
         /\ issue' \in [Life -> BOOLEAN]
<1>1. "rest" \in Phases
  BY DEF Phases
<1> QED
  BY <1>1, PhaseTypes DEF SyncIssues, TypeOK

-----------------------------------------------------------------------------
(***************************************************************************)
(* Every action keeps the types.                                           *)
(***************************************************************************)
LEMMA EvaluationTypes ==
  ASSUME TypeOK, NEW i \in Life,
         Reconcile(i) \/ CallLoop(i) \/ EndEvaluation(i) \/ Evaluate(i)
  PROVE  TypeOK'
<1>0. {"idle", "start", "takeover", "handback", "retry", "rest"} = Phases
  BY DEF Phases
<1>1. CASE Evaluate(i)
  <2>1. ev' \in [Life -> [pc : Phases, at : 0..NSources, ok : BOOLEAN]]
    BY <1>0, <1>1, PhaseTypes DEF Evaluate, TypeOK
  <2> QED
    BY <1>1, <2>1 DEF Evaluate, TypeOK, switches, settings, controls, rooms
<1>2. CASE Reconcile(i)
  <2>1. /\ ev' \in [Life -> [pc : Phases, at : 0..NSources, ok : BOOLEAN]]
        /\ took' \in [Life -> BOOLEAN]
        /\ young' \in [Life -> BOOLEAN]
        /\ issue' \in [Life -> BOOLEAN]
    BY <1>0, <1>2, PhaseTypes, SyncTypes DEF Reconcile, StartHandBack, TypeOK
  <2> QED
    BY <1>2, <2>1 DEF Reconcile, TypeOK, switches, settings, controls
<1>3. CASE TakeOver(i)
  <2> DEFINE rest == Later(ev[i].at, There)
  <2>1. ev[i].at \in 0..NSources /\ There \subseteq Source
    BY DEF TypeOK, There
  <2>2. CASE rest # {} /\ \E s \in First(rest), ok \in Outcomes :
                            /\ TurnOff(i, s, ok)
                            /\ ev' = [ev EXCEPT ![i].at = s, ![i].ok = @ /\ ok]
    <3>1. PICK s \in First(rest), ok \in Outcomes :
             TurnOff(i, s, ok) /\ ev' = [ev EXCEPT ![i].at = s, ![i].ok = @ /\ ok]
      BY <2>2
    <3>2. s \in Source /\ s \in 0..NSources
      BY <2>1, FirstIsNext
    <3>3. ok \in BOOLEAN
      BY FailsRange
    <3>7. ev[i] \in [pc : Phases, at : 0..NSources, ok : BOOLEAN]
      BY DEF TypeOK
    <3>8. (ev[i].ok /\ ok) \in BOOLEAN
      BY <3>3
    <3>4. ev' \in [Life -> [pc : Phases, at : 0..NSources, ok : BOOLEAN]]
      BY <3>1, <3>2, <3>7, <3>8 DEF TypeOK
    <3>5. /\ enabled' \in [Source -> BOOLEAN] /\ present' \in [Source -> BOOLEAN]
          /\ fate' \in [Source -> Fates] /\ fails' \in 0..MaxFailures
          /\ asked' \in [Life -> BOOLEAN]
      BY <3>1, <3>2, TurnOffTypes
    <3>6. UNCHANGED <<took, young, issue>>
      BY <1>3, <2>2 DEF TakeOver
    <3> QED
      BY <1>3, <3>4, <3>5, <3>6 DEF TakeOver, TypeOK, settings, controls
  <2>3. CASE rest = {}
    <3>1. /\ ev' \in [Life -> [pc : Phases, at : 0..NSources, ok : BOOLEAN]]
          /\ issue' \in [Life -> BOOLEAN]
      BY <1>3, <2>3, SyncTypes DEF TakeOver
    <3>2. fate' \in [Source -> Fates]
      <4>1. {"free", "held", "partial"} \subseteq Fates
        BY DEF Fates, Slips
      <4>2. CASE ev[i].ok
        BY <1>3, <2>3, <4>1, <4>2 DEF TakeOver, TypeOK
      <4>3. CASE ~ev[i].ok
        BY <1>3, <2>3, <4>1, <4>3, SlipTypes DEF TakeOver
      <4> QED
        BY <4>2, <4>3
    <3>3. took' \in [Life -> BOOLEAN] /\ young' \in [Life -> BOOLEAN]
      BY <1>3, <2>3 DEF TakeOver, TypeOK
    <3> QED
      BY <1>3, <2>3, <3>1, <3>2, <3>3 DEF TakeOver, TypeOK, settings, controls
  <2> QED
    BY <1>3, <2>2, <2>3 DEF TakeOver
<1>4. CASE HandBack(i)
  <2> DEFINE rest == Later(ev[i].at, There)
  <2>1. ev[i].at \in 0..NSources /\ There \subseteq Source
    BY DEF TypeOK, There
  <2>2. CASE rest # {}
    <3>1. PICK s \in First(rest), ok \in Outcomes :
             TurnOn(i, ev[i].at, s, ok) /\ ev' = [ev EXCEPT ![i].at = s]
      BY <1>4, <2>2 DEF HandBack
    <3>2. s \in Source /\ s \in 0..NSources
      BY <2>1, FirstIsNext
    <3>3. ev' \in [Life -> [pc : Phases, at : 0..NSources, ok : BOOLEAN]]
      BY <3>1, <3>2 DEF TypeOK
    <3>4. /\ enabled' \in [Source -> BOOLEAN] /\ present' \in [Source -> BOOLEAN]
          /\ fate' \in [Source -> Fates] /\ fails' \in 0..MaxFailures
          /\ asked' \in [Life -> BOOLEAN]
          /\ reenabled' \in [Life -> {"never", "recent", "due"}]
          /\ young' \in [Life -> BOOLEAN] /\ reasserting' \in [Life -> BOOLEAN]
          /\ reassert' \in [Life -> SUBSET (0..NSources)]
      BY <3>1, <3>2, TurnOnTypes
    <3> QED
      BY <1>4, <2>2, <3>3, <3>4 DEF HandBack, TypeOK, settings, controls
  <2>3. CASE rest = {}
    <3>1. /\ ev' \in [Life -> [pc : Phases, at : 0..NSources, ok : BOOLEAN]]
          /\ issue' \in [Life -> BOOLEAN]
      BY <1>4, <2>3, SyncTypes DEF HandBack
    <3>2. fate' \in [Source -> Fates]
      <4>1. "missed" \in Fates
        BY DEF Fates, Slips
      <4> QED
        BY <1>4, <2>3, <4>1, SlipTypes DEF HandBack
    <3> QED
      BY <1>4, <2>3, <3>1, <3>2 DEF HandBack, TypeOK, settings, controls
  <2> QED
    BY <2>2, <2>3
<1>5. CASE RetryReassert(i)
  <2> DEFINE rest == Later(ev[i].at, Running)
  <2>1. ev[i].at \in 0..NSources /\ Running \subseteq Source
    BY DEF TypeOK, There, Running
  <2>2. CASE rest # {}
    <3>1. PICK s \in First(rest), ok \in Outcomes :
             TurnOff(i, s, ok) /\ ev' = [ev EXCEPT ![i].at = s]
      BY <1>5, <2>2 DEF RetryReassert
    <3>2. s \in Source /\ s \in 0..NSources
      BY <2>1, FirstIsNext
    <3>3. ev' \in [Life -> [pc : Phases, at : 0..NSources, ok : BOOLEAN]]
      BY <3>1, <3>2 DEF TypeOK
    <3>4. /\ enabled' \in [Source -> BOOLEAN] /\ present' \in [Source -> BOOLEAN]
          /\ fate' \in [Source -> Fates] /\ fails' \in 0..MaxFailures
          /\ asked' \in [Life -> BOOLEAN]
      BY <3>1, <3>2, TurnOffTypes
    <3> QED
      BY <1>5, <2>2, <3>3, <3>4 DEF RetryReassert, TypeOK, settings, controls
  <2>3. CASE rest = {}
    <3>1. /\ ev' \in [Life -> [pc : Phases, at : 0..NSources, ok : BOOLEAN]]
          /\ issue' \in [Life -> BOOLEAN]
      BY <1>5, <2>3, SyncTypes DEF RetryReassert
    <3> QED
      BY <1>5, <2>3, <3>1 DEF RetryReassert, TypeOK, settings, controls, switches
  <2> QED
    BY <2>2, <2>3
<1>6. CASE EndEvaluation(i)
  <2>1. ev' \in [Life -> [pc : Phases, at : 0..NSources, ok : BOOLEAN]]
    BY <1>0, <1>6, PhaseTypes DEF EndEvaluation
  <2> QED
    BY <1>6, <2>1 DEF EndEvaluation, TypeOK, settings, controls, switches
<1> QED
  BY <1>1, <1>2, <1>3, <1>4, <1>5, <1>6 DEF CallLoop

LEMMA TaskTypes ==
  ASSUME TypeOK, NEW i \in Life,
         \/ \E k \in 0..NSources : Reassert(i, k)
         \/ UnloadHandBack(i) \/ Clock(i)
  PROVE  TypeOK'
<1>1. ASSUME NEW k \in 0..NSources, Reassert(i, k)
      PROVE  TypeOK'
  <2> DEFINE rest == Later(k, Running)
  <2>1. Running \subseteq Source
    BY DEF There, Running
  <2>2. CASE rest # {}
    <3>1. PICK s \in First(rest), ok \in Outcomes :
             /\ TurnOff(i, s, ok)
             /\ reassert' = [reassert EXCEPT ![i] = (@ \ {k}) \cup {s}]
      BY <1>1, <2>2 DEF Reassert
    <3>2. s \in Source /\ s \in 0..NSources
      BY <2>1, FirstIsNext
    <3>3. reassert' \in [Life -> SUBSET (0..NSources)]
      BY <3>1, <3>2 DEF TypeOK
    <3>4. /\ enabled' \in [Source -> BOOLEAN] /\ present' \in [Source -> BOOLEAN]
          /\ fate' \in [Source -> Fates] /\ fails' \in 0..MaxFailures
          /\ asked' \in [Life -> BOOLEAN]
      BY <3>1, <3>2, TurnOffTypes
    <3> QED
      BY <1>1, <2>2, <3>3, <3>4 DEF Reassert, TypeOK, settings, controls, rooms
  <2>3. CASE rest = {}
    <3>1. reassert' \in [Life -> SUBSET (0..NSources)]
      BY <1>1, <2>3 DEF Reassert, TypeOK
    <3> QED
      BY <1>1, <2>3, <3>1 DEF Reassert, TypeOK, settings, controls, rooms, switches
  <2> QED
    BY <2>2, <2>3
<1>2. CASE UnloadHandBack(i)
  <2> DEFINE rest == Later(unload[i], There)
  <2>1. unload[i] \in 0..NSources /\ There \subseteq Source
    BY DEF TypeOK, There
  <2>2. CASE rest # {}
    <3>1. PICK s \in First(rest), ok \in Outcomes :
             TurnOn(i, unload[i], s, ok) /\ unload' = [unload EXCEPT ![i] = s]
      BY <1>2, <2>2 DEF UnloadHandBack
    <3>2. s \in Source /\ s \in 0..NSources
      BY <2>1, FirstIsNext
    <3>3. /\ enabled' \in [Source -> BOOLEAN] /\ present' \in [Source -> BOOLEAN]
          /\ fate' \in [Source -> Fates] /\ fails' \in 0..MaxFailures
          /\ asked' \in [Life -> BOOLEAN]
          /\ reenabled' \in [Life -> {"never", "recent", "due"}]
          /\ young' \in [Life -> BOOLEAN] /\ reasserting' \in [Life -> BOOLEAN]
          /\ reassert' \in [Life -> SUBSET (0..NSources)]
      BY <3>1, <3>2, TurnOnTypes
    <3> QED
      BY <1>2, <2>2, <3>1, <3>2, <3>3 DEF UnloadHandBack, TypeOK, settings, controls
  <2>3. CASE rest = {}
    <3>1. fate' \in [Source -> Fates]
      <4>1. "missed" \in Fates
        BY DEF Fates, Slips
      <4> QED
        BY <1>2, <2>3, <4>1, SlipTypes DEF UnloadHandBack
    <3>2. unload' \in [Life -> 0..NSources]
      BY <1>2, <2>3, SizesAssumption DEF UnloadHandBack, TypeOK
    <3>3. /\ life' \in [Life -> {"absent", "loading", "ready", "unloading", "dead"}]
          /\ issue' \in [Life -> BOOLEAN]
      BY <1>2, <2>3 DEF UnloadHandBack, TypeOK
    <3>4. /\ UNCHANGED <<enabled, present, fails, asked, reenabled, young, reasserting, reassert>>
          /\ UNCHANGED <<settings, took, pending, ev>>
      BY <1>2, <2>3 DEF UnloadHandBack
    <3> QED
      BY <3>1, <3>2, <3>3, <3>4 DEF TypeOK, settings, controls
  <2> QED
    BY <2>2, <2>3
<1>3. CASE ReassertSettles(i)
  BY <1>3 DEF ReassertSettles, TypeOK, settings, controls, switches, tasks
<1>4. CASE EnabledTimer(i)
  BY <1>4 DEF EnabledTimer, TypeOK, settings, controls, switches, tasks
<1>5. CASE Tick(i)
  BY <1>5 DEF Tick, TypeOK, settings, controls, switches, rooms
<1> QED
  BY <1>1, <1>2, <1>3, <1>4, <1>5 DEF Clock

LEMMA WorldTypes ==
  ASSUME TypeOK, World
  PROVE  TypeOK'
<1>1. ASSUME Move
      PROVE  moves' \in 0..MaxMoves
  BY <1>1, SizesAssumption DEF Move, TypeOK
<1>2. ASSUME AskAll
      PROVE  asked' \in [Life -> BOOLEAN]
  BY <1>2 DEF AskAll, TypeOK, Loaded
<1>3. CASE SetActive
  BY <1>1, <1>2, <1>3 DEF SetActive, TypeOK, switches, rooms
<1>4. CASE SetSchedule
  BY <1>1, <1>2, <1>4 DEF SetSchedule, TypeOK, switches, rooms
<1>5. CASE PeerChanges
  BY <1>1, <1>2, <1>5 DEF PeerChanges, TypeOK, switches, rooms
<1>6. CASE Restart
  <2>1. ev' \in [Life -> [pc : Phases, at : 0..NSources, ok : BOOLEAN]]
    BY <1>6, SizesAssumption DEF Restart, Idle, Phases
  <2>2. fate' \in [Source -> Fates]
    BY <1>6 DEF Restart, TypeOK, Fates, Slips
  <2>3. unload' \in [Life -> 0..NSources]
    BY <1>6, SizesAssumption DEF Restart
  <2>4. life' \in [Life -> {"absent", "loading", "ready", "unloading", "dead"}]
    BY <1>6 DEF Restart
  <2>5. /\ took' \in [Life -> BOOLEAN] /\ young' \in [Life -> BOOLEAN]
        /\ issue' \in [Life -> BOOLEAN] /\ asked' \in [Life -> BOOLEAN]
        /\ pending' \in [Life -> BOOLEAN] /\ reasserting' \in [Life -> BOOLEAN]
        /\ reenabled' \in [Life -> {"never", "recent", "due"}]
        /\ reassert' \in [Life -> SUBSET (0..NSources)]
    BY <1>6 DEF Restart
  <2>6. UNCHANGED <<enabled, present, fails, settings>>
    BY <1>6 DEF Restart
  <2> QED
    BY <2>1, <2>2, <2>3, <2>4, <2>5, <2>6 DEF TypeOK, settings, controls
<1>7. ASSUME NEW i \in Life, SetUp(i)
      PROVE  TypeOK'
  BY <1>7 DEF SetUp, TypeOK, switches
<1>8. ASSUME NEW i \in Life, Unload(i)
      PROVE  TypeOK'
  <2>1. "dead" \in Fates
    BY DEF Fates, Slips
  <2>2. fate' \in [Source -> Fates]
    BY <1>8, <2>1, SlipTypes DEF Unload, TypeOK
  <2>3. /\ unload' \in [Life -> 0..NSources]
        /\ life' \in [Life -> {"absent", "loading", "ready", "unloading", "dead"}]
        /\ issue' \in [Life -> BOOLEAN]
    <3>1. 0 \in 0..NSources
      BY SizesAssumption
    <3>2. CASE took[i]
      BY <1>8, <3>1, <3>2 DEF Unload, TypeOK
    <3>3. CASE ~took[i]
      BY <1>8, <3>3 DEF Unload, TypeOK
    <3> QED
      BY <3>2, <3>3
  <2> QED
    BY <1>8, <2>2, <2>3 DEF Unload, TypeOK, settings, controls
<1>9. ASSUME NEW s \in Source, SwitchedOn(s)
      PROVE  TypeOK'
  <2>1. "free" \in Fates
    BY DEF Fates
  <2>2. /\ asked' \in [Life -> BOOLEAN]
        /\ reenabled' \in [Life -> {"never", "recent", "due"}]
        /\ young' \in [Life -> BOOLEAN] /\ reasserting' \in [Life -> BOOLEAN]
        /\ reassert' \in [Life -> SUBSET (0..NSources)]
    BY <1>9, EventTypes, ReenabledTypes DEF SwitchedOn
  <2>3. enabled' \in [Source -> BOOLEAN] /\ fate' \in [Source -> Fates] /\ moves' \in 0..MaxMoves
    BY <1>1, <1>9, <2>1 DEF SwitchedOn, TypeOK
  <2>4. UNCHANGED <<present, fails, controls, life, took, issue, pending, ev, unload>>
    BY <1>9 DEF SwitchedOn
  <2> QED
    BY <2>2, <2>3, <2>4 DEF TypeOK, controls
<1>10. ASSUME NEW s \in Source, SwitchedOff(s)
       PROVE  TypeOK'
  BY <1>1, <1>10, EventTypes DEF SwitchedOff, TypeOK, controls, rooms
<1>11. ASSUME NEW s \in Source, SourceLost(s)
       PROVE  TypeOK'
  BY <1>1, <1>11, EventTypes DEF SourceLost, TypeOK, controls, rooms
<1>12. ASSUME NEW s \in Source, SourceBack(s)
       PROVE  TypeOK'
  BY <1>1, <1>12, EventTypes, ReenabledTypes DEF SourceBack, TypeOK
<1> QED
  BY <1>3, <1>4, <1>5, <1>6, <1>7, <1>8, <1>9, <1>10, <1>11, <1>12 DEF World

LEMMA InitTypes == Init => TypeOK
<1> SUFFICES ASSUME Init PROVE TypeOK
  OBVIOUS
<1>1. 0 \in 0..NSources /\ 0 \in 0..MaxFailures /\ 0 \in 0..MaxMoves
  BY SizesAssumption
<1>2. ev \in [Life -> [pc : Phases, at : 0..NSources, ok : BOOLEAN]]
  BY <1>1 DEF Init, Idle, Phases
<1>3. fate \in [Source -> Fates]
  BY DEF Init, Fates
<1> QED
  BY <1>1, <1>2, <1>3 DEF Init, TypeOK

(* Every step is a step of one of these five kinds.                        *)
LEMMA StepKinds ==
  ASSUME Next
  PROVE  \/ World
         \/ \E i \in Life :
              \/ Reconcile(i) \/ CallLoop(i) \/ EndEvaluation(i) \/ Evaluate(i)
              \/ \E k \in 0..NSources : Reassert(i, k)
              \/ UnloadHandBack(i) \/ Clock(i)
<1>1. 0 \in 0..NSources /\ Source \subseteq 0..NSources
  BY SizesAssumption DEF Source
<1> QED
  BY <1>1 DEF Next, Stretch, Resume, Proceed

LEMMA NextTypes == TypeOK /\ [Next]_vars => TypeOK'
<1>1. ASSUME TypeOK, Next
      PROVE  TypeOK'
  BY <1>1, StepKinds, EvaluationTypes, TaskTypes, WorldTypes
<1>2. ASSUME TypeOK, UNCHANGED vars
      PROVE  TypeOK'
  BY <1>2 DEF TypeOK, vars, switches, settings, controls, rooms, tasks
<1> QED
  BY <1>1, <1>2

(***************************************************************************)
(* Every reachable state has the types of the model: no pointer of a loop  *)
(* leaves the list of sources, no flag and no life takes another value.    *)
(***************************************************************************)
THEOREM TypesHold == Spec => []TypeOK
<1>1. Init => TypeOK
  BY InitTypes
<1>2. TypeOK /\ [Next]_vars => TypeOK'
  BY NextTypes
<1> QED
  BY <1>1, <1>2, PTL DEF Spec

-----------------------------------------------------------------------------
(***************************************************************************)
(* The account of the sources.  A room that is taking over, or handing     *)
(* back, does not own its sources, so the hand-back's own room is never    *)
(* the one that still vouches for a source it has passed over.             *)
(***************************************************************************)
Unowned  == \A i \in Life : ev[i].pc \in {"takeover", "handback"} => ~took[i]
AccInv   == TypeOK /\ Unowned /\ Accounted

LEMMA UnownedStep ==
  ASSUME TypeOK, TypeOK', Unowned, [Next]_vars
  PROVE  Unowned'
<1> SUFFICES ASSUME NEW j \in Life, ev'[j].pc \in {"takeover", "handback"}
             PROVE  ~took'[j]
  BY DEF Unowned
<1>0. /\ \A p, i : Phase(i, p) => \A k \in Life : ev'[k] = IF k = i THEN [pc |-> p, at |-> 0, ok |-> TRUE] ELSE ev[k]
      /\ \A i : SyncIssues(i) => \A k \in Life : ev'[k] = IF k = i THEN [pc |-> "rest", at |-> 0, ok |-> TRUE] ELSE ev[k]
  BY DEF Phase, SyncIssues, TypeOK
<1>1. ASSUME NEW i \in Life, Reconcile(i)
      PROVE  ~took'[j]
  BY <1>0, <1>1 DEF Reconcile, StartHandBack, TypeOK, Unowned
<1>2. ASSUME NEW i \in Life, TakeOver(i)
      PROVE  ~took'[j]
  <2>1. CASE j # i
    <3>1. ev'[j].pc = ev[j].pc /\ took'[j] = took[j]
      BY <1>0, <1>2, <2>1 DEF TakeOver, TypeOK
    <3> QED
      BY <3>1 DEF Unowned
  <2>2. CASE j = i
    <3>2. took'[j] = took[j] \/ ev'[j].pc = "rest"
      BY <1>0, <1>2, <2>2 DEF TakeOver, TypeOK
    <3>3. ev[j].pc \in {"takeover", "handback"} \/ ev'[j].pc = ev[j].pc \/ ev'[j].pc = "rest"
      BY <1>0, <1>2, <2>2 DEF TakeOver, TypeOK
    <3> QED
      BY <3>2, <3>3 DEF Unowned
  <2> QED
    BY <2>1, <2>2
<1>3. ASSUME NEW i \in Life, HandBack(i)
      PROVE  ~took'[j]
  <2>1. CASE j # i
    <3>1. ev'[j].pc = ev[j].pc /\ took'[j] = took[j]
      BY <1>0, <1>3, <2>1 DEF HandBack, TypeOK
    <3> QED
      BY <3>1 DEF Unowned
  <2>2. CASE j = i
    <3>2. took'[j] = took[j] \/ ev'[j].pc = "rest"
      BY <1>0, <1>3, <2>2 DEF HandBack, TypeOK
    <3>3. ev[j].pc \in {"takeover", "handback"} \/ ev'[j].pc = ev[j].pc \/ ev'[j].pc = "rest"
      BY <1>0, <1>3, <2>2 DEF HandBack, TypeOK
    <3> QED
      BY <3>2, <3>3 DEF Unowned
  <2> QED
    BY <2>1, <2>2
<1>4. ASSUME NEW i \in Life, RetryReassert(i)
      PROVE  ~took'[j]
  <2>1. CASE j # i
    <3>1. ev'[j].pc = ev[j].pc /\ took'[j] = took[j]
      BY <1>0, <1>4, <2>1 DEF RetryReassert, TypeOK
    <3> QED
      BY <3>1 DEF Unowned
  <2>2. CASE j = i
    <3>2. took'[j] = took[j] \/ ev'[j].pc = "rest"
      BY <1>0, <1>4, <2>2 DEF RetryReassert, TypeOK
    <3>3. ev[j].pc \in {"takeover", "handback"} \/ ev'[j].pc = ev[j].pc \/ ev'[j].pc = "rest"
      BY <1>0, <1>4, <2>2 DEF RetryReassert, TypeOK
    <3> QED
      BY <3>2, <3>3 DEF Unowned
  <2> QED
    BY <2>1, <2>2
<1>5. ASSUME NEW i \in Life, EndEvaluation(i) \/ Evaluate(i)
      PROVE  ~took'[j]
  <2>1. took'[j] = took[j]
    BY <1>5 DEF EndEvaluation, Evaluate, rooms
  <2>2. ev'[j].pc = ev[j].pc \/ ev'[j].pc \in {"start", "idle"}
    <3>1. CASE Evaluate(i)
      BY <3>1 DEF Evaluate, Phase, TypeOK
    <3>2. CASE EndEvaluation(i)
      <4>1. PICK p \in {"start", "idle"} : Phase(i, p)
        BY <3>2 DEF EndEvaluation
      <4> QED
        BY <4>1 DEF Phase, TypeOK
    <3> QED
      BY <1>5, <3>1, <3>2
  <2> QED
    BY <2>1, <2>2 DEF Unowned
<1>6. ASSUME NEW i \in Life, Unload(i) \/ Clock(i)
      PROVE  ~took'[j]
  BY <1>6 DEF Unload, Clock, ReassertSettles, EnabledTimer, Tick, tasks, rooms, TypeOK, Unowned
<1>7. CASE Restart
  BY <1>7 DEF Restart
<1>8. CASE UNCHANGED <<took, ev>>
  BY <1>8 DEF Unowned
<1>9. \/ UNCHANGED <<took, ev>> \/ Restart
      \/ \E i \in Life : \/ Reconcile(i) \/ CallLoop(i) \/ EndEvaluation(i) \/ Evaluate(i)
                         \/ Unload(i) \/ Clock(i)
  <2>1. ASSUME NEW i \in Life, \/ \E k \in 0..NSources : Reassert(i, k)
                               \/ UnloadHandBack(i) \/ SetUp(i)
        PROVE  UNCHANGED <<took, ev>>
    BY <2>1 DEF Reassert, UnloadHandBack, SetUp, rooms
  <2>2. ASSUME \/ SetActive \/ SetSchedule \/ PeerChanges
               \/ \E s \in Source : SwitchedOn(s) \/ SwitchedOff(s) \/ SourceLost(s) \/ SourceBack(s)
        PROVE  UNCHANGED <<took, ev>>
    BY <2>2 DEF SetActive, SetSchedule, PeerChanges, SwitchedOn, SwitchedOff, SourceLost,
                SourceBack, rooms
  <2>3. CASE UNCHANGED vars
    BY <2>3 DEF vars, rooms, tasks
  <2> QED
    BY <2>1, <2>2, <2>3, StepKinds DEF World
<1> QED
  BY <1>1, <1>2, <1>3, <1>4, <1>5, <1>6, <1>7, <1>8, <1>9 DEF CallLoop

(***************************************************************************)
(* A held source stays settled through a step that neither changes what is *)
(* held nor takes the room, the hand-back or the unload away.              *)
(***************************************************************************)
LEMMA StillSettled ==
  ASSUME Accounted,
         NEW s \in Source, fate[s] = "held",
         \A j \in Life : Settling(j, s) => Settling(j, s)'
  PROVE  \E j \in Life : Settling(j, s)'
BY DEF Accounted

(* switch.turn_off leaves every room's part as it is.                      *)
LEMMA TurnOffAccount ==
  ASSUME TypeOK, Accounted, NEW i \in Life, NEW s \in Source, NEW ok \in Outcomes,
         TurnOff(i, s, ok),
         \A j \in Life, x \in Source : Settling(j, x) => Settling(j, x)',
         \A j \in Life : Owns(j) => Owns(j)'
  PROVE  Accounted'
<1> SUFFICES ASSUME NEW x \in Source, fate'[x] = "held"
             PROVE  \E j \in Life : Settling(j, x)'
  BY DEF Accounted
<1>1. CASE fate[x] = "held"
  BY <1>1, StillSettled
<1>2. CASE fate[x] # "held"
  <2>1. fate'[x] = Claim(i)
    BY <1>2 DEF TurnOff, TypeOK
  <2>2. Owned
    BY <2>1 DEF Claim
  <2> QED
    BY <2>2 DEF Owned, Settling
<1> QED
  BY <1>1, <1>2

(* What is still held after a Slip is either not among its sources, or it  *)
(* is owned by another room.                                               *)
LEMMA SlipAccount ==
  ASSUME TypeOK, NEW i \in Life, NEW S, NEW f \in Slips, NEW x \in Source,
         Slip(i, S, f)[x] = "held"
  PROVE  fate[x] = "held" /\ (x \in S => \E j \in Life \ {i} : Owns(j))
BY DEF Slip, TypeOK, Slips

(***************************************************************************)
(* One turn of the hand-back: what is held after it is owned by another    *)
(* room, or lies beyond the source the call was made for, or was not this  *)
(* hand-back's to return.                                                  *)
(***************************************************************************)
LEMMA TurnOnAccount ==
  ASSUME TypeOK, NEW i \in Life, NEW k \in 0..NSources,
         NEW s \in First(Later(k, There)), NEW ok \in Outcomes, TurnOn(i, k, s, ok),
         NEW x \in Source, fate'[x] = "held"
  PROVE  fate[x] = "held" /\ (x > k => x > s \/ \E j \in Life \ {i} : Owns(j))
<1>1. /\ s \in Source /\ s > k
      /\ \A t \in There : k < t => s <= t
  BY FirstIsNext DEF There
<1>2. "missed" \in Slips /\ "failed" \in Slips
  BY DEF Slips
<1> DEFINE M == Slip(i, Passed(k, s), "missed")
           F == Slip(i, {s}, "failed")
<1>3. M \in [Source -> Fates] /\ F \in [Source -> Fates]
  BY <1>2, SlipTypes DEF Fates
<1>4. CASE x = s
  <2>1. fate'[x] = IF ok THEN "free" ELSE F[x]
    BY <1>1, <1>3, <1>4 DEF TurnOn
  <2> QED
    BY <1>2, <1>4, <2>1, SlipAccount
<1>5. CASE x # s
  <2>1. fate'[x] = M[x]
    BY <1>1, <1>3, <1>5 DEF TurnOn
  <2>2. fate[x] = "held" /\ (x \in Passed(k, s) => \E j \in Life \ {i} : Owns(j))
    BY <1>2, <2>1, SlipAccount
  <2>3. x > k => x > s \/ x \in Passed(k, s)
    BY <1>1, <1>5, SizesAssumption DEF Passed, Source
  <2> QED
    BY <2>2, <2>3
<1> QED
  BY <1>4, <1>5

LEMMA EvaluationAccount ==
  ASSUME TypeOK, Unowned, Accounted, NEW i \in Life,
         Reconcile(i) \/ CallLoop(i) \/ EndEvaluation(i) \/ Evaluate(i)
  PROVE  Accounted'
<1>0. /\ \A p : Phase(i, p) =>
             \A j \in Life : ev'[j] = IF j = i THEN [pc |-> p, at |-> 0, ok |-> TRUE] ELSE ev[j]
      /\ SyncIssues(i) =>
             \A j \in Life : ev'[j] = IF j = i THEN [pc |-> "rest", at |-> 0, ok |-> TRUE] ELSE ev[j]
      /\ There \subseteq Source /\ Running \subseteq Source
      /\ ev[i].at \in 0..NSources
  BY DEF Phase, SyncIssues, TypeOK, There, Running
<1>1. CASE Evaluate(i)
  <2>1. \A j \in Life, x \in Source : Settling(j, x) => Settling(j, x)'
    BY <1>0, <1>1 DEF Evaluate, Settling, Owns, Loaded, rooms
  <2> QED
    BY <1>1, <2>1 DEF Evaluate, Accounted, switches
<1>2. CASE Reconcile(i)
  <2>1. \A j \in Life \ {i}, x \in Source : Settling(j, x) => Settling(j, x)'
    BY <1>0, <1>2 DEF Reconcile, StartHandBack, Settling, Owns, Loaded, TypeOK
  <2>2. \A x \in Source : Settling(i, x) => Settling(i, x)'
    <3>1. life' = life /\ unload' = unload /\ ev[i].pc = "start"
      BY <1>2 DEF Reconcile
    <3>2. CASE took'[i] = took[i]
      BY <3>1, <3>2 DEF Settling, Owns, Loaded
    <3>3. CASE StartHandBack(i)
      <4>1. ev'[i] = [pc |-> "handback", at |-> 0, ok |-> TRUE]
        BY <1>0, <3>3 DEF StartHandBack
      <4>2. \A x \in Source : x > 0
        BY SizesAssumption DEF Source
      <4> QED
        BY <4>1, <4>2 DEF Settling
    <3> QED
      BY <1>2, <3>2, <3>3 DEF Reconcile
  <2> QED
    BY <1>2, <2>1, <2>2 DEF Reconcile, Accounted, switches
<1>3. CASE TakeOver(i)
  <2> DEFINE rest == Later(ev[i].at, There)
  <2>0. life' = life /\ unload' = unload /\ ev[i].pc = "takeover"
    BY <1>3 DEF TakeOver
  <2>1. CASE rest # {} /\ UNCHANGED took
    <3>1. PICK s \in First(rest), ok \in Outcomes :
             TurnOff(i, s, ok) /\ ev' = [ev EXCEPT ![i].at = s, ![i].ok = @ /\ ok]
      BY <1>3, <2>1 DEF TakeOver
    <3>2. s \in Source
      BY <1>0, FirstIsNext
    <3>3. \A j \in Life : ev'[j].pc = ev[j].pc /\ (j # i => ev'[j] = ev[j])
      BY <3>1 DEF TypeOK
    <3>4. \A j \in Life : Owns(j) => Owns(j)'
      BY <2>0, <2>1, <3>3 DEF Owns, Loaded
    <3>5. \A j \in Life, x \in Source : Settling(j, x) => Settling(j, x)'
      BY <2>0, <3>3, <3>4 DEF Settling
    <3> QED
      BY <3>1, <3>2, <3>4, <3>5, TurnOffAccount
  <2>2. CASE rest = {} /\ ev[i].ok
    <3>1. took' = [took EXCEPT ![i] = TRUE] /\ SyncIssues(i)
      BY <1>3, <2>2 DEF TakeOver
    <3>2. \A j \in Life, x \in Source : Settling(j, x) => Settling(j, x)'
      BY <1>0, <2>0, <3>1 DEF Settling, Owns, Loaded, TypeOK
    <3>3. CASE Loaded(i)
      <4>1. Owns(i)'
        BY <2>0, <3>1, <3>3 DEF Owns, Loaded, TypeOK
      <4> QED
        BY <4>1 DEF Accounted, Settling
    <3>4. CASE ~Loaded(i)
      <4>1. fate' = fate
        BY <1>3, <2>2, <3>4 DEF TakeOver
      <4> QED
        BY <3>2, <4>1 DEF Accounted
    <3> QED
      BY <3>3, <3>4
  <2>3. CASE rest = {} /\ ~ev[i].ok
    <3>1. fate' = Slip(i, Source, "partial") /\ UNCHANGED took /\ SyncIssues(i)
      BY <1>3, <2>3 DEF TakeOver
    <3> SUFFICES ASSUME NEW x \in Source, fate'[x] = "held"
                 PROVE  \E j \in Life : Settling(j, x)'
      BY DEF Accounted
    <3>2. PICK j \in Life \ {i} : Owns(j)
      BY <3>1, SlipAccount DEF Slips
    <3>3. Owns(j)'
      BY <1>0, <2>0, <3>1, <3>2 DEF Owns, Loaded
    <3> QED
      BY <3>3 DEF Settling
  <2> QED
    BY <1>3, <2>1, <2>2, <2>3 DEF TakeOver
<1>4. CASE HandBack(i)
  <2> DEFINE rest == Later(ev[i].at, There)
  <2>0. /\ life' = life /\ unload' = unload /\ took' = took
        /\ ev[i].pc = "handback" /\ ~took[i]
    BY <1>4 DEF HandBack, Unowned
  <2>1. \A j \in Life \ {i} : ev'[j] = ev[j]
    BY <1>0, <1>4 DEF HandBack, TypeOK
  <2>2. \A j \in Life \ {i} : /\ Owns(j) => Owns(j)'
                             /\ \A x \in Source : Settling(j, x) => Settling(j, x)'
    BY <2>0, <2>1 DEF Settling, Owns, Loaded
  <2>3. ~Owns(i)
    BY <2>0 DEF Owns
  <2> SUFFICES ASSUME NEW x \in Source, fate'[x] = "held"
               PROVE  \E j \in Life : Settling(j, x)'
    BY DEF Accounted
  <2>4. CASE rest # {}
    <3>1. PICK s \in First(rest), ok \in Outcomes :
             TurnOn(i, ev[i].at, s, ok) /\ ev' = [ev EXCEPT ![i].at = s]
      BY <1>4, <2>4 DEF HandBack
    <3>2. fate[x] = "held" /\ (x > ev[i].at => x > s \/ \E j \in Life \ {i} : Owns(j))
      BY <1>0, <3>1, TurnOnAccount
    <3>3. ev'[i].pc = "handback" /\ ev'[i].at = s
      BY <2>0, <3>1 DEF TypeOK
    <3>4. PICK j \in Life : Settling(j, x)
      BY <3>2 DEF Accounted
    <3>5. CASE j # i
      BY <2>2, <3>4, <3>5
    <3>6. CASE j = i /\ x > ev[i].at
      BY <2>2, <3>2, <3>3, <3>6 DEF Settling
    <3>7. CASE j = i /\ life[i] = "unloading" /\ x > unload[i]
      BY <2>0, <3>7 DEF Settling
    <3> QED
      BY <2>3, <3>4, <3>5, <3>6, <3>7 DEF Settling
  <2>5. CASE rest = {}
    <3>1. fate' = Slip(i, Passed(ev[i].at, NSources + 1), "missed")
      BY <1>4, <2>5 DEF HandBack
    <3>2. fate[x] = "held" /\ (x \in Passed(ev[i].at, NSources + 1) => \E j \in Life \ {i} : Owns(j))
      BY <3>1, SlipAccount DEF Slips
    <3>3. x > ev[i].at => x \in Passed(ev[i].at, NSources + 1)
      BY <2>5, SizesAssumption DEF Later, Passed, Source
    <3>4. PICK j \in Life : Settling(j, x)
      BY <3>2 DEF Accounted
    <3>5. CASE j # i
      BY <2>2, <3>4, <3>5
    <3>6. CASE j = i /\ x > ev[i].at
      BY <2>2, <3>2, <3>3, <3>6 DEF Settling
    <3>7. CASE j = i /\ life[i] = "unloading" /\ x > unload[i]
      BY <2>0, <3>7 DEF Settling
    <3> QED
      BY <2>3, <3>4, <3>5, <3>6, <3>7 DEF Settling
  <2> QED
    BY <2>4, <2>5
<1>5. CASE RetryReassert(i)
  <2> DEFINE rest == Later(ev[i].at, Running)
  <2>0. life' = life /\ unload' = unload /\ took' = took /\ ev[i].pc = "retry"
    BY <1>5 DEF RetryReassert
  <2>1. \A j \in Life : j # i => ev'[j] = ev[j]
    BY <1>0, <1>5 DEF RetryReassert, TypeOK
  <2>2. \A j \in Life : Owns(j) => Owns(j)'
    BY <2>0, <2>1 DEF Owns, Loaded
  <2>3. \A j \in Life, x \in Source : Settling(j, x) => Settling(j, x)'
    BY <2>0, <2>1, <2>2 DEF Settling
  <2>4. CASE rest # {}
    <3>1. PICK s \in First(rest), ok \in Outcomes : TurnOff(i, s, ok)
      BY <1>5, <2>4 DEF RetryReassert
    <3>2. s \in Source
      BY <1>0, FirstIsNext
    <3> QED
      BY <2>2, <2>3, <3>1, <3>2, TurnOffAccount
  <2>5. CASE rest = {}
    BY <1>5, <2>3, <2>5 DEF RetryReassert, Accounted, switches
  <2> QED
    BY <2>4, <2>5
<1>6. CASE EndEvaluation(i)
  <2>1. ev[i].pc = "rest" /\ \A j \in Life \ {i} : ev'[j] = ev[j]
    BY <1>0, <1>6 DEF EndEvaluation
  <2>2. \A j \in Life, x \in Source : Settling(j, x) => Settling(j, x)'
    BY <1>6, <2>1 DEF EndEvaluation, Settling, Owns, Loaded, TypeOK
  <2> QED
    BY <1>6, <2>2 DEF EndEvaluation, Accounted, switches
<1> QED
  BY <1>1, <1>2, <1>3, <1>4, <1>5, <1>6 DEF CallLoop

LEMMA TaskAccount ==
  ASSUME TypeOK, Accounted, NEW i \in Life,
         \/ \E k \in 0..NSources : Reassert(i, k)
         \/ UnloadHandBack(i) \/ Clock(i)
  PROVE  Accounted'
<1>1. ASSUME NEW k \in 0..NSources, Reassert(i, k)
      PROVE  Accounted'
  <2> DEFINE rest == Later(k, Running)
  <2>0. UNCHANGED <<life, took, ev, unload>> /\ Running \subseteq Source
    BY <1>1 DEF Reassert, rooms, Running, There
  <2>1. \A j \in Life : Owns(j) => Owns(j)'
    BY <2>0 DEF Owns, Loaded
  <2>2. \A j \in Life, x \in Source : Settling(j, x) => Settling(j, x)'
    BY <2>0, <2>1 DEF Settling
  <2>3. CASE rest # {}
    <3>1. PICK s \in First(rest), ok \in Outcomes : TurnOff(i, s, ok)
      BY <1>1, <2>3 DEF Reassert
    <3>2. s \in Source
      BY <2>0, FirstIsNext
    <3> QED
      BY <2>1, <2>2, <3>1, <3>2, TurnOffAccount
  <2>4. CASE rest = {}
    BY <1>1, <2>2, <2>4 DEF Reassert, Accounted, switches
  <2> QED
    BY <2>3, <2>4
<1>2. CASE UnloadHandBack(i)
  <2> DEFINE rest == Later(unload[i], There)
  <2>0. /\ UNCHANGED <<took, ev>> /\ life[i] = "unloading" /\ ~Loaded(i)
        /\ There \subseteq Source /\ unload[i] \in 0..NSources
    BY <1>2 DEF UnloadHandBack, Loaded, There, TypeOK
  <2>1. \A j \in Life \ {i} : life'[j] = life[j] /\ unload'[j] = unload[j]
    BY <1>2 DEF UnloadHandBack, TypeOK
  <2>2. \A j \in Life \ {i} : /\ Owns(j) => Owns(j)'
                             /\ \A x \in Source : Settling(j, x) => Settling(j, x)'
    BY <2>0, <2>1 DEF Settling, Owns, Loaded
  <2> SUFFICES ASSUME NEW x \in Source, fate'[x] = "held"
               PROVE  \E j \in Life : Settling(j, x)'
    BY DEF Accounted
  <2>3. CASE rest # {}
    <3>1. PICK s \in First(rest), ok \in Outcomes :
             TurnOn(i, unload[i], s, ok) /\ unload' = [unload EXCEPT ![i] = s]
      BY <1>2, <2>3 DEF UnloadHandBack
    <3>2. fate[x] = "held" /\ (x > unload[i] => x > s \/ \E j \in Life \ {i} : Owns(j))
      BY <2>0, <3>1, TurnOnAccount
    <3>3. life'[i] = "unloading" /\ unload'[i] = s
      BY <1>2, <2>0, <2>3, <3>1 DEF UnloadHandBack, TypeOK
    <3>4. PICK j \in Life : Settling(j, x)
      BY <3>2 DEF Accounted
    <3>5. CASE j # i
      BY <2>2, <3>4, <3>5
    <3>6. CASE j = i /\ x > unload[i]
      BY <2>2, <3>2, <3>3, <3>6 DEF Settling
    <3>7. CASE j = i /\ ev[i].pc = "handback" /\ x > ev[i].at
      BY <2>0, <3>7 DEF Settling
    <3> QED
      BY <2>0, <3>4, <3>5, <3>6, <3>7 DEF Settling, Owns
  <2>4. CASE rest = {}
    <3>1. fate' = Slip(i, Passed(unload[i], NSources + 1), "missed")
      BY <1>2, <2>4 DEF UnloadHandBack
    <3>2. fate[x] = "held" /\ (x \in Passed(unload[i], NSources + 1) => \E j \in Life \ {i} : Owns(j))
      BY <3>1, SlipAccount DEF Slips
    <3>3. x > unload[i] => x \in Passed(unload[i], NSources + 1)
      BY <2>4, SizesAssumption DEF Later, Passed, Source
    <3>4. PICK j \in Life : Settling(j, x)
      BY <3>2 DEF Accounted
    <3>5. CASE j # i
      BY <2>2, <3>4, <3>5
    <3>6. CASE j = i /\ x > unload[i]
      BY <2>2, <3>2, <3>3, <3>6 DEF Settling
    <3>7. CASE j = i /\ ev[i].pc = "handback" /\ x > ev[i].at
      BY <2>0, <3>7 DEF Settling
    <3> QED
      BY <2>0, <3>4, <3>5, <3>6, <3>7 DEF Settling, Owns
  <2> QED
    BY <2>3, <2>4
<1>3. CASE Clock(i)
  <2>1. UNCHANGED <<fate, life, took, ev, unload>>
    BY <1>3 DEF Clock, ReassertSettles, EnabledTimer, Tick, switches, rooms, tasks
  <2> QED
    BY <2>1 DEF Accounted, Settling, Owns, Loaded
<1> QED
  BY <1>1, <1>2, <1>3

LEMMA WorldAccount ==
  ASSUME TypeOK, Unowned, Accounted, World
  PROVE  Accounted'
<1>1. CASE SetActive \/ SetSchedule \/ PeerChanges
  BY <1>1 DEF SetActive, SetSchedule, PeerChanges, switches, rooms, Accounted, Settling,
              Owns, Loaded
<1>2. CASE Restart
  BY <1>2 DEF Restart, Accounted, TypeOK
<1>3. ASSUME NEW i \in Life, SetUp(i)
      PROVE  Accounted'
  <2>1. \A j \in Life, x \in Source : Settling(j, x) => Settling(j, x)'
    BY <1>3 DEF SetUp, Settling, Owns, Loaded, TypeOK
  <2> QED
    BY <1>3, <2>1 DEF SetUp, switches, Accounted
<1>4. ASSUME NEW i \in Life, Unload(i)
      PROVE  Accounted'
  <2>0. ev' = ev /\ life[i] = "ready"
    BY <1>4 DEF Unload
  <2>1. \A j \in Life \ {i} : /\ took'[j] = took[j] /\ life'[j] = life[j]
                             /\ unload'[j] = unload[j]
    BY <1>4 DEF Unload, TypeOK
  <2>2. \A j \in Life \ {i}, x \in Source : Settling(j, x) => Settling(j, x)'
    BY <2>0, <2>1 DEF Settling, Owns, Loaded
  <2> SUFFICES ASSUME NEW x \in Source, fate'[x] = "held"
               PROVE  \E j \in Life : Settling(j, x)'
    BY DEF Accounted
  <2>3. CASE took[i]
    <3>1. fate' = fate /\ life'[i] = "unloading" /\ unload'[i] = 0
      BY <1>4, <2>3 DEF Unload, TypeOK
    <3>2. x > 0
      BY SizesAssumption DEF Source
    <3> QED
      BY <3>1, <3>2 DEF Settling
  <2>4. CASE ~took[i] /\ ev[i].pc = "takeover"
    <3>1. fate' = Slip(i, Source, "dead")
      BY <1>4, <2>4 DEF Unload
    <3>2. PICK j \in Life \ {i} : Owns(j)
      BY <3>1, SlipAccount DEF Slips
    <3> QED
      BY <2>2, <3>2 DEF Settling
  <2>5. CASE ~took[i] /\ ev[i].pc # "takeover"
    <3>1. fate' = fate
      BY <1>4, <2>5 DEF Unload
    <3>2. PICK j \in Life : Settling(j, x)
      BY <3>1 DEF Accounted
    <3>3. CASE j = i
      BY <2>0, <2>5, <3>2, <3>3 DEF Settling, Owns
    <3> QED
      BY <2>2, <3>2, <3>3
  <2> QED
    BY <2>3, <2>4, <2>5
<1>5. ASSUME NEW s \in Source, SwitchedOn(s)
      PROVE  Accounted'
  <2>1. UNCHANGED <<life, took, ev, unload>> /\ \A x \in Source : fate'[x] = "held" => fate[x] = "held"
    BY <1>5 DEF SwitchedOn, TypeOK
  <2> QED
    BY <2>1 DEF Accounted, Settling, Owns, Loaded
<1>6. ASSUME NEW s \in Source, SwitchedOff(s) \/ SourceLost(s) \/ SourceBack(s)
      PROVE  Accounted'
  BY <1>6 DEF SwitchedOff, SourceLost, SourceBack, rooms, Accounted, Settling, Owns, Loaded
<1> QED
  BY <1>1, <1>2, <1>3, <1>4, <1>5, <1>6 DEF World

LEMMA AccountStep == AccInv /\ [Next]_vars => AccInv'
<1> SUFFICES ASSUME TypeOK, Unowned, Accounted, [Next]_vars
             PROVE  AccInv'
  BY DEF AccInv
<1>1. TypeOK'
  BY NextTypes
<1>2. Unowned'
  BY <1>1, UnownedStep
<1>3. Accounted'
  <2>1. CASE World
    BY <2>1, WorldAccount
  <2>2. ASSUME NEW i \in Life, Reconcile(i) \/ CallLoop(i) \/ EndEvaluation(i) \/ Evaluate(i)
        PROVE  Accounted'
    BY <2>2, EvaluationAccount
  <2>3. ASSUME NEW i \in Life, (\E k \in 0..NSources : Reassert(i, k)) \/ UnloadHandBack(i) \/ Clock(i)
        PROVE  Accounted'
    BY <2>3, TaskAccount
  <2>4. CASE UNCHANGED vars
    <3>1. UNCHANGED <<fate, life, took, ev, unload>>
      BY <2>4 DEF vars, switches, rooms, tasks
    <3> QED
      BY <3>1 DEF Accounted, Settling, Owns, Loaded
  <2> QED
    BY <2>1, <2>2, <2>3, <2>4, StepKinds
<1> QED
  BY <1>1, <1>2, <1>3 DEF AccInv

(***************************************************************************)
(* Whatever the number of sources, of failing calls, of reloads and of     *)
(* moves of the world: as long as none of the Slips happened to it, a      *)
(* source that Hearth switched off has a room that owns it, or a hand-back *)
(* that has yet to reach it.                                               *)
(***************************************************************************)
THEOREM AccountedHolds == Spec => []Accounted
<1>1. Init => AccInv
  <2>1. Init => Unowned /\ Accounted
    BY DEF Init, Unowned, Accounted
  <2> QED
    BY <2>1, InitTypes DEF AccInv
<1>2. AccInv /\ [Next]_vars => AccInv'
  BY AccountStep
<1>3. AccInv => Accounted
  BY DEF AccInv
<1> QED
  BY <1>1, <1>2, <1>3, PTL DEF Spec

-----------------------------------------------------------------------------
(***************************************************************************)
(* The two-brains repair.  Whatever could make it stale also asks every    *)
(* loaded room for an evaluation, and every evaluation ends by setting it. *)
(***************************************************************************)
Due(j)    == ~Loaded(j) \/ ev[j].pc \notin {"idle", "rest"} \/ asked[j] \/ pending[j]
Repair(j) == Due(j) \/ issue[j] = (Offenders(j) # {})

LEMMA RepairIsRepair == RepairIsCurrent <=> \A j \in Life : Repair(j)
BY DEF RepairIsCurrent, Repair, Due

(* A room that hears of a change of a source has an evaluation due.        *)
LEMMA HeardIsDue ==
  ASSUME TypeOK, NEW j \in Life, SourceEvent, UNCHANGED life
  PROVE  Due(j)'
BY DEF SourceEvent, Due, Loaded, TypeOK

(* A room the step does not touch: its repair stays right, or an           *)
(* evaluation is due, also where a source changed.                         *)
LEMMA RepairFrame ==
  ASSUME TypeOK, TypeOK', NEW j \in Life, Repair(j),
         Loaded(j)' => Loaded(j),
         ev'[j].pc \in {"idle", "rest"} => ev[j].pc \in {"idle", "rest"},
         asked[j] => asked'[j],
         pending[j] => pending'[j],
         issue'[j] = issue[j],
         Offenders(j)' = Offenders(j)
  PROVE  Repair(j)'
BY DEF Repair, Due, TypeOK

(* switch.turn_off: either no source changes, or every loaded room hears.  *)
LEMMA TurnOffHeard ==
  ASSUME TypeOK, NEW i \in Life, NEW s \in Source, NEW ok \in Outcomes, TurnOff(i, s, ok)
  PROVE  SourceEvent \/ (UNCHANGED asked /\ Running' = Running)
<1>1. ok \in BOOLEAN
  BY FailsRange
<1>2. CASE ok /\ enabled[s]
  BY <1>2 DEF TurnOff
<1>3. CASE ~(ok /\ enabled[s])
  <2>1. UNCHANGED <<asked, present>>
    BY <1>3 DEF TurnOff
  <2>2. \A t \in Source : enabled'[t] = enabled[t]
    BY <1>1, <1>3 DEF TurnOff, TypeOK
  <2> QED
    BY <2>1, <2>2 DEF Running, There
<1> QED
  BY <1>2, <1>3

LEMMA TurnOnHeard ==
  ASSUME TypeOK, NEW i \in Life, NEW k, NEW s \in Source, NEW ok \in Outcomes,
         TurnOn(i, k, s, ok)
  PROVE  SourceEvent \/ (UNCHANGED <<asked, young>> /\ Running' = Running)
<1>1. ok \in BOOLEAN
  BY FailsRange
<1>2. CASE ok /\ ~enabled[s]
  BY <1>2 DEF TurnOn
<1>3. CASE ~(ok /\ ~enabled[s])
  <2>1. UNCHANGED <<asked, young, present>>
    BY <1>3 DEF TurnOn
  <2>2. \A t \in Source : enabled'[t] = enabled[t]
    BY <1>1, <1>3 DEF TurnOn, TypeOK
  <2> QED
    BY <2>1, <2>2 DEF Running, There
<1> QED
  BY <1>2, <1>3

(* The end of _reconcile_source: the repair of the room is right.          *)
LEMMA SyncedIsRight ==
  ASSUME TypeOK, NEW i \in Life, SyncIssues(i)
  PROVE  Repair(i)'
BY DEF SyncIssues, Repair, TypeOK

(* Another phase of the evaluation of room i is no one else's business.    *)
LEMMA PhaseOfOthers ==
  ASSUME TypeOK, NEW i \in Life, NEW p, Phase(i, p)
  PROVE  ev'[i].pc = p /\ \A j \in Life \ {i} : ev'[j] = ev[j]
BY DEF Phase, TypeOK

LEMMA EvaluationRepair ==
  ASSUME TypeOK, TypeOK', NEW i \in Life,
         Reconcile(i) \/ CallLoop(i) \/ EndEvaluation(i) \/ Evaluate(i),
         NEW j \in Life, Repair(j)
  PROVE  Repair(j)'
<1>1. CASE Evaluate(i)
  <2>1. UNCHANGED <<enabled, present, life, took, young, issue>>
    BY <1>1 DEF Evaluate, switches, rooms
  <2>2. UNCHANGED Loaded(j) /\ UNCHANGED Offenders(j)
    BY <2>1 DEF Loaded, Offenders, Running, There
  <2>3. CASE j = i
    <3>1. CASE ev[i].pc = "idle"
      <4>1. ev'[i].pc = "start"
        BY <1>1, <3>1, PhaseOfOthers DEF Evaluate
      <4> QED
        BY <2>3, <4>1 DEF Repair, Due
    <3>2. CASE ev[i].pc # "idle"
      <4>1. pending'[i] = TRUE
        BY <1>1, <3>2 DEF Evaluate, TypeOK
      <4> QED
        BY <2>3, <4>1 DEF Repair, Due
    <3> QED
      BY <3>1, <3>2
  <2>4. CASE j # i
    <3>1. ev'[j] = ev[j] /\ asked'[j] = asked[j] /\ pending'[j] = pending[j]
      BY <1>1, <2>4, PhaseOfOthers DEF Evaluate, TypeOK
    <3> QED
      BY <2>1, <2>2, <3>1, RepairFrame
  <2> QED
    BY <2>3, <2>4
<1>2. CASE EndEvaluation(i)
  <2>1. UNCHANGED <<enabled, present, took, young, issue, asked>>
    BY <1>2 DEF EndEvaluation, switches
  <2>2. UNCHANGED Loaded(j)
    BY <1>2 DEF EndEvaluation, Loaded, TypeOK
  <2>3. UNCHANGED Offenders(j)
    BY <2>1 DEF Offenders, Running, There
  <2>4. CASE j = i
    <3>1. ev[i].pc = "rest" /\ ev'[i].pc = IF pending[i] THEN "start" ELSE "idle"
      BY <1>2, PhaseOfOthers DEF EndEvaluation
    <3>2. CASE pending[i]
      BY <2>4, <3>1, <3>2 DEF Repair, Due
    <3>3. CASE ~pending[i]
      BY <2>1, <2>2, <2>3, <2>4, <3>1, <3>3, RepairFrame
    <3> QED
      BY <3>2, <3>3
  <2>5. CASE j # i
    <3>1. ev'[j] = ev[j] /\ pending'[j] = pending[j]
      BY <1>2, <2>5, PhaseOfOthers DEF EndEvaluation, TypeOK
    <3> QED
      BY <2>1, <2>2, <2>3, <3>1, RepairFrame
  <2> QED
    BY <2>4, <2>5
<1>3. CASE Reconcile(i)
  <2>1. UNCHANGED <<enabled, present, life, asked, pending>>
    BY <1>3 DEF Reconcile, switches
  <2>2. CASE j = i
    <3>1. SyncIssues(i) \/ \E p \in {"takeover", "handback", "retry"} : Phase(i, p)
      BY <1>3 DEF Reconcile, StartHandBack
    <3>2. ASSUME NEW p \in {"takeover", "handback", "retry"}, Phase(i, p)
          PROVE  Repair(j)'
      BY <2>2, <3>2, PhaseOfOthers DEF Repair, Due
    <3> QED
      BY <2>2, <3>1, <3>2, SyncedIsRight
  <2>3. CASE j # i
    <3>1. ev'[j] = ev[j]
      BY <1>3, <2>3, PhaseOfOthers DEF Reconcile, StartHandBack, SyncIssues
    <3>2. took'[j] = took[j] /\ young'[j] = young[j] /\ issue'[j] = issue[j]
      BY <1>3, <2>3 DEF Reconcile, StartHandBack, SyncIssues, TypeOK
    <3>3. UNCHANGED Loaded(j) /\ UNCHANGED Offenders(j)
      BY <2>1, <3>2 DEF Loaded, Offenders, Running, There
    <3> QED
      BY <2>1, <3>1, <3>2, <3>3, RepairFrame
  <2> QED
    BY <2>2, <2>3
<1>4. CASE CallLoop(i)
  <2>1. UNCHANGED <<life, pending>> /\ ev[i].pc \notin {"idle", "rest"}
    BY <1>4 DEF CallLoop, TakeOver, HandBack, RetryReassert
  <2>2. /\ SyncIssues(i) \/ ev'[i].pc = ev[i].pc
        /\ j # i => ev'[j] = ev[j] /\ took'[j] = took[j] /\ issue'[j] = issue[j]
    <3>1. SyncIssues(i) => (j # i => ev'[j] = ev[j] /\ issue'[j] = issue[j])
      BY PhaseOfOthers DEF SyncIssues, TypeOK
    <3>2. CASE TakeOver(i)
      <4>1. j # i => took'[j] = took[j]
        BY <3>2 DEF TakeOver, TypeOK
      <4>2. \/ SyncIssues(i)
            \/ \E s, ok : UNCHANGED issue /\ ev' = [ev EXCEPT ![i].at = s, ![i].ok = @ /\ ok]
        BY <3>2 DEF TakeOver, First, Later, There
      <4>3. ASSUME NEW s, NEW ok, ev' = [ev EXCEPT ![i].at = s, ![i].ok = @ /\ ok]
            PROVE  ev'[i].pc = ev[i].pc /\ (j # i => ev'[j] = ev[j])
        BY <4>3 DEF TypeOK
      <4> QED
        BY <3>1, <4>1, <4>2, <4>3
    <3>3. CASE HandBack(i) \/ RetryReassert(i)
      <4>1. UNCHANGED took
        BY <3>3 DEF HandBack, RetryReassert
      <4>2. SyncIssues(i) \/ \E s : UNCHANGED issue /\ ev' = [ev EXCEPT ![i].at = s]
        BY <3>3 DEF HandBack, RetryReassert
      <4>3. ASSUME NEW s, ev' = [ev EXCEPT ![i].at = s]
            PROVE  ev'[i].pc = ev[i].pc /\ (j # i => ev'[j] = ev[j])
        BY <4>3 DEF TypeOK
      <4> QED
        BY <3>1, <4>1, <4>2, <4>3
    <3> QED
      BY <1>4, <3>2, <3>3 DEF CallLoop
  <2>3. \/ SourceEvent
        \/ /\ UNCHANGED asked /\ Running' = Running
           /\ j # i => young'[j] = young[j]
    <3>1. CASE TakeOver(i)
      <4>1. First(Later(ev[i].at, There)) \subseteq Source
        BY DEF First, Later, There
      <4>2. CASE \E s \in First(Later(ev[i].at, There)), ok \in Outcomes : TurnOff(i, s, ok) /\ UNCHANGED young
        BY <4>1, <4>2, TurnOffHeard
      <4>3. CASE UNCHANGED <<enabled, present, asked>> /\ (j # i => young'[j] = young[j])
        BY <4>3 DEF Running, There
      <4> QED
        BY <3>1, <4>2, <4>3 DEF TakeOver, TypeOK
    <3>2. CASE HandBack(i)
      <4>1. First(Later(ev[i].at, There)) \subseteq Source
        BY DEF First, Later, There
      <4>2. CASE \E s \in First(Later(ev[i].at, There)), ok \in Outcomes : TurnOn(i, ev[i].at, s, ok)
        BY <4>1, <4>2, TurnOnHeard
      <4>3. CASE UNCHANGED <<enabled, present, asked, young>>
        BY <4>3 DEF Running, There
      <4> QED
        BY <3>2, <4>2, <4>3 DEF HandBack
    <3>3. CASE RetryReassert(i)
      <4>1. First(Later(ev[i].at, Running)) \subseteq Source
        BY DEF First, Later, Running, There
      <4>2. CASE \E s \in First(Later(ev[i].at, Running)), ok \in Outcomes : TurnOff(i, s, ok)
        BY <3>3, <4>1, <4>2, TurnOffHeard DEF RetryReassert
      <4>3. CASE UNCHANGED <<enabled, present, asked>>
        BY <3>3, <4>3 DEF Running, There, RetryReassert
      <4> QED
        BY <3>3, <4>2, <4>3 DEF RetryReassert, switches
    <3> QED
      BY <1>4, <3>1, <3>2, <3>3 DEF CallLoop
  <2>4. CASE SourceEvent
    BY <2>1, <2>4, HeardIsDue DEF Repair
  <2>5. CASE j = i
    BY <2>1, <2>2, <2>5, SyncedIsRight DEF Repair, Due
  <2>6. CASE j # i /\ ~SourceEvent
    <3>1. UNCHANGED Loaded(j) /\ UNCHANGED Offenders(j)
      BY <2>1, <2>2, <2>3, <2>6 DEF Loaded, Offenders
    <3> QED
      BY <2>1, <2>2, <2>3, <2>6, <3>1, RepairFrame
  <2> QED
    BY <2>4, <2>5, <2>6
<1> QED
  BY <1>1, <1>2, <1>3, <1>4

LEMMA TaskRepair ==
  ASSUME TypeOK, TypeOK', NEW i \in Life,
         (\E k \in 0..NSources : Reassert(i, k)) \/ UnloadHandBack(i) \/ Clock(i),
         NEW j \in Life, Repair(j)
  PROVE  Repair(j)'
<1>1. ASSUME NEW k \in 0..NSources, Reassert(i, k)
      PROVE  Repair(j)'
  <2>1. UNCHANGED <<life, took, young, issue, pending, ev>>
    BY <1>1 DEF Reassert, rooms
  <2>2. First(Later(k, Running)) \subseteq Source
    BY DEF First, Later, Running, There
  <2>3. \/ SourceEvent
        \/ asked' \in {asked, [asked EXCEPT ![i] = TRUE]} /\ Running' = Running
    <3>1. CASE \E s \in First(Later(k, Running)), ok \in Outcomes : TurnOff(i, s, ok)
      BY <2>2, <3>1, TurnOffHeard
    <3>2. CASE UNCHANGED <<enabled, present>> /\ asked' = [asked EXCEPT ![i] = TRUE]
      BY <3>2 DEF Running, There
    <3> QED
      BY <1>1, <3>1, <3>2 DEF Reassert, switches
  <2>4. CASE SourceEvent
    BY <2>1, <2>4, HeardIsDue DEF Repair
  <2>5. CASE ~SourceEvent
    <3>1. asked[j] => asked'[j]
      BY <2>3, <2>5 DEF TypeOK
    <3>2. UNCHANGED Loaded(j) /\ UNCHANGED Offenders(j)
      BY <2>1, <2>3, <2>5 DEF Loaded, Offenders
    <3> QED
      BY <2>1, <3>1, <3>2, RepairFrame
  <2> QED
    BY <2>4, <2>5
<1>2. CASE UnloadHandBack(i)
  <2>1. UNCHANGED <<took, pending, ev>> /\ life[i] = "unloading"
    BY <1>2 DEF UnloadHandBack
  <2>2. CASE \E s \in First(Later(unload[i], There)), ok \in Outcomes :
               TurnOn(i, unload[i], s, ok) /\ UNCHANGED <<life, issue>>
    <3>1. First(Later(unload[i], There)) \subseteq Source
      BY DEF First, Later, There
    <3>2. SourceEvent \/ (UNCHANGED <<asked, young>> /\ Running' = Running)
      BY <2>2, <3>1, TurnOnHeard
    <3>3. CASE SourceEvent
      BY <2>2, <3>3, HeardIsDue DEF Repair
    <3>4. CASE ~SourceEvent
      BY <2>1, <2>2, <3>2, <3>4, RepairFrame DEF Loaded, Offenders
    <3> QED
      BY <3>3, <3>4
  <2>3. CASE /\ UNCHANGED <<enabled, present, asked, young>>
             /\ life' = [life EXCEPT ![i] = "dead"] /\ issue' = [issue EXCEPT ![i] = FALSE]
    <3>1. CASE j = i
      BY <2>3, <3>1 DEF Repair, Due, Loaded, TypeOK
    <3>2. CASE j # i
      <4>1. life'[j] = life[j] /\ issue'[j] = issue[j]
        BY <2>3, <3>2 DEF TypeOK
      <4>2. UNCHANGED Loaded(j) /\ UNCHANGED Offenders(j)
        BY <2>1, <2>3, <4>1 DEF Loaded, Offenders, Running, There
      <4> QED
        BY <2>1, <2>3, <4>1, <4>2, RepairFrame
    <3> QED
      BY <3>1, <3>2
  <2> QED
    BY <1>2, <2>2, <2>3 DEF UnloadHandBack
<1>3. CASE Clock(i)
  <2>1. UNCHANGED <<enabled, present, life, took, pending, ev>> /\ (asked[j] => asked'[j])
    BY <1>3 DEF Clock, ReassertSettles, EnabledTimer, Tick, switches, rooms, tasks, TypeOK
  <2>2. CASE EnabledTimer(i) /\ j = i
    <3>1. ~young'[i] /\ issue'[i] = (took[i] /\ Running # {})
      BY <2>2 DEF EnabledTimer, TypeOK
    <3>2. Offenders(i)' = IF took[i] THEN Running ELSE {}
      BY <2>1, <3>1 DEF Offenders, Running, There
    <3>3. took[i] \in BOOLEAN
      BY DEF TypeOK
    <3> QED
      BY <2>2, <3>1, <3>2, <3>3 DEF Repair
  <2>3. CASE ~(EnabledTimer(i) /\ j = i)
    <3>1. issue'[j] = issue[j] /\ young'[j] = young[j]
      BY <1>3, <2>3 DEF Clock, ReassertSettles, EnabledTimer, Tick, rooms, TypeOK
    <3>2. UNCHANGED Loaded(j) /\ UNCHANGED Offenders(j)
      BY <2>1, <3>1 DEF Loaded, Offenders, Running, There
    <3> QED
      BY <2>1, <3>1, <3>2, RepairFrame
  <2> QED
    BY <2>2, <2>3
<1> QED
  BY <1>1, <1>2, <1>3

LEMMA WorldRepair ==
  ASSUME TypeOK, TypeOK', World, NEW j \in Life, Repair(j)
  PROVE  Repair(j)'
<1>1. CASE SetActive \/ SetSchedule \/ PeerChanges
  <2>1. AskAll /\ UNCHANGED life
    BY <1>1 DEF SetActive, SetSchedule, PeerChanges, rooms
  <2> QED
    BY <2>1, HeardIsDue DEF AskAll, SourceEvent, Repair
<1>2. CASE Restart
  BY <1>2 DEF Restart, Repair, Due, Loaded, TypeOK
<1>3. ASSUME NEW s \in Source, SwitchedOn(s) \/ SwitchedOff(s) \/ SourceLost(s) \/ SourceBack(s)
      PROVE  Repair(j)'
  <2>1. SourceEvent /\ UNCHANGED life
    BY <1>3 DEF SwitchedOn, SwitchedOff, SourceLost, SourceBack, rooms
  <2> QED
    BY <2>1, HeardIsDue DEF Repair
<1>4. ASSUME NEW i \in Life, SetUp(i) \/ Unload(i)
      PROVE  Repair(j)'
  <2>1. UNCHANGED <<enabled, present, pending, ev>>
    BY <1>4 DEF SetUp, Unload, switches
  <2>2. CASE j = i
    <3>1. SetUp(i) => asked'[i]
      BY DEF SetUp, TypeOK
    <3>2. Unload(i) => life'[i] \in {"unloading", "dead"}
      BY DEF Unload, TypeOK
    <3> QED
      BY <1>4, <2>2, <3>1, <3>2 DEF Repair, Due, Loaded
  <2>3. CASE j # i
    <3>1. /\ life'[j] = life[j] /\ took'[j] = took[j] /\ young'[j] = young[j]
          /\ issue'[j] = issue[j] /\ asked'[j] = asked[j]
      <4>1. CASE SetUp(i)
        BY <2>3, <4>1 DEF SetUp, TypeOK
      <4>2. CASE Unload(i)
        BY <2>3, <4>2 DEF Unload, TypeOK
      <4> QED
        BY <1>4, <4>1, <4>2
    <3>2. UNCHANGED Loaded(j) /\ UNCHANGED Offenders(j)
      BY <2>1, <3>1 DEF Loaded, Offenders, Running, There
    <3> QED
      BY <2>1, <3>1, <3>2, RepairFrame
  <2> QED
    BY <2>2, <2>3
<1> QED
  BY <1>1, <1>2, <1>3, <1>4 DEF World

LEMMA RepairStep ==
  ASSUME TypeOK, RepairIsCurrent, [Next]_vars
  PROVE  RepairIsCurrent'
<1>1. TypeOK'
  BY NextTypes
<1> SUFFICES ASSUME NEW j \in Life, Repair(j)
             PROVE  Repair(j)'
  BY RepairIsRepair DEF RepairIsCurrent, Repair, Due
<1>2. CASE World
  BY <1>1, <1>2, WorldRepair
<1>3. ASSUME NEW i \in Life, Reconcile(i) \/ CallLoop(i) \/ EndEvaluation(i) \/ Evaluate(i)
      PROVE  Repair(j)'
  BY <1>1, <1>3, EvaluationRepair
<1>4. ASSUME NEW i \in Life, (\E k \in 0..NSources : Reassert(i, k)) \/ UnloadHandBack(i) \/ Clock(i)
      PROVE  Repair(j)'
  BY <1>1, <1>4, TaskRepair
<1>5. CASE UNCHANGED vars
  <2>1. UNCHANGED <<enabled, present, life, took, young, issue, asked, pending, ev>>
    BY <1>5 DEF vars, switches, rooms, tasks
  <2> QED
    BY <2>1 DEF Repair, Due, Loaded, Offenders, Running, There
<1> QED
  BY <1>2, <1>3, <1>4, <1>5, StepKinds

(***************************************************************************)
(* Whatever the number of sources, of set-ups, of failing calls and of     *)
(* moves of the world: whenever no evaluation of a loaded room is due, its *)
(* two-brains repair says what is the case.                                *)
(***************************************************************************)
THEOREM RepairHolds == Spec => []RepairIsCurrent
<1>1. Init => RepairIsCurrent
  BY DEF Init, RepairIsCurrent, Loaded
<1>2. TypeOK /\ RepairIsCurrent /\ [Next]_vars => RepairIsCurrent'
  BY RepairStep
<1> QED
  BY <1>1, <1>2, TypesHold, PTL DEF Spec

=============================================================================
