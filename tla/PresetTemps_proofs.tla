------------------------- MODULE PresetTemps_proofs -------------------------
(***************************************************************************)
(* What Hearth borrows it gives back, and what it owes it writes, for any  *)
(* temperatures, days, and number of moves of people and of the VTherm.    *)
(***************************************************************************)
EXTENDS PresetTemps, TLAPS

-----------------------------------------------------------------------------
(***************************************************************************)
(* Types.  A write that is under way is to a temperature, the adaptive one *)
(* to a preset that is affected, the setback's to eco.                     *)
(***************************************************************************)
Evs == [pc : {"idle", "start", "adaptive", "writing", "setback", "raising", "restoring", "rest"},
        force : BOOLEAN, todo : SUBSET Presets, p : Presets, to : Temps, base : Nat]
Nights   == [on : BOOLEAN, base : Nat, target : Nat, night : Nat]
Memories == [last : [Presets -> Temps], sb : Nights, decided : Temps, active : Temps,
             down : {"none", "change", "boost"}]
Calls    == [pc : {"none", "writing", "calling", "undoing"}, to : Temps, prev : Temps]

FlagsT == there \in BOOLEAN /\ scope \in BOOLEAN /\ dormant \in BOOLEAN /\ over \in BOOLEAN /\ due \in BOOLEAN
WorldT ==
  /\ temp \in [Presets -> Nat]
  /\ wants \subseteq {"adaptive", "setback"} /\ affected \subseteq {"comfort", "boost"}
  /\ offset \in Offsets /\ time \in 0..MaxTime /\ moves \in 0..MaxMoves
  /\ boost \in {"off", "on", "prolonged"} /\ down \in {"none", "change", "boost"}
MemoryT ==
  /\ last \in [Presets -> Temps] /\ sb \in Nights /\ decided \in Temps /\ active \in Temps
  /\ saved \in Memories
EvT ==
  /\ ev \in Evs
  /\ ev.pc \in {"writing", "raising", "restoring"} => ev.to \in Nat
  /\ ev.pc \in {"start", "adaptive", "writing"} => ev.todo \subseteq affected
  /\ ev.pc = "writing" => ev.p \in affected
  /\ ev.pc \in {"raising", "restoring"} => ev.p = "eco"
CallsT ==
  /\ svc \in Calls /\ wish \in [on : BOOLEAN, restore : Temps] /\ restores \subseteq Nat
  /\ svc.pc \in {"writing", "undoing"} => svc.to \in Nat
HistoryT ==
  /\ home \in [{"eco", "boost"} -> Nat] /\ slip \in [{"eco", "boost"} -> Slips]
  /\ met \in [{"comfort", "boost"} -> Records]
  /\ stands \subseteq {"comfort", "boost"} /\ failed \subseteq Presets

TypesInv == FlagsT /\ WorldT /\ MemoryT /\ EvT /\ CallsT /\ HistoryT

LEMMA LandsIs ==
  ASSUME temp \in [Presets -> Nat], NEW p \in Presets, NEW v \in Nat, NEW ok \in BOOLEAN, Lands(p, v, ok)
  PROVE  /\ temp' \in [Presets -> Nat]
         /\ \A q \in Presets \ {p} : temp'[q] = temp[q]
         /\ temp'[p] = IF ok /\ there THEN v ELSE temp[p]
BY DEF Lands

LEMMA WroteIs ==
  ASSUME last \in [Presets -> Temps], NEW p \in Presets, NEW v \in Nat, NEW ok \in BOOLEAN, Wrote(p, v, ok)
  PROVE  /\ last' \in [Presets -> Temps]
         /\ \A q \in Presets \ {p} : last'[q] = last[q]
         /\ last'[p] = IF ok THEN v ELSE last[p]
BY DEF Wrote, Temps

LEMMA SpendIs ==
  ASSUME moves \in 0..MaxMoves, NEW ok \in Outcomes, Spend(ok)
  PROVE  ok \in BOOLEAN /\ moves' \in 0..MaxMoves
<1>1. CASE moves < MaxMoves
  BY <1>1, TempsAssumption DEF Outcomes, Spend
<1>2. CASE ~(moves < MaxMoves)
  BY <1>2, TempsAssumption DEF Outcomes, Spend
<1> QED
  BY <1>1, <1>2

LEMMA MoveIs == ASSUME moves \in 0..MaxMoves, Move PROVE moves' \in 0..MaxMoves
BY TempsAssumption DEF Move

LEMMA TargetIs == ASSUME WorldT, NEW p \in affected PROVE Target(p) \in Nat
BY TempsAssumption DEF WorldT, Target

LEMMA RaisedIs == ASSUME WorldT, Shown("eco") # None PROVE Shown("eco") \in Nat /\ Raised \in Nat
BY TempsAssumption DEF WorldT, Shown, Raised, Target, Presets, None

LEMMA OnwardsIs ==
  ASSUME NEW e \in Evs
  PROVE  /\ Onwards(e) \in Evs /\ Onwards(e).pc = IF e.todo = {} THEN "setback" ELSE "adaptive"
         /\ Onwards(e).force = e.force /\ Onwards(e).todo = e.todo
BY DEF Onwards, Evs

LEMMA EnterIs ==
  ASSUME NEW force \in BOOLEAN, FlagsT, down \in {"none", "change", "boost"}, Enter(force)
  PROVE  /\ ev' \in Evs /\ ev'.pc = "start" /\ ev'.todo = {}
         /\ dormant' \in BOOLEAN /\ down' \in {"none", "change", "boost"}
BY DEF Enter, Idle, Evs, FlagsT, Presets, Temps, None

LEMMA LosesIs ==
  ASSUME met \in [{"comfort", "boost"} -> Records], NEW p \in {"comfort", "boost"}, NEW v,
         NEW why \in {"boosted", "crash"}
  PROVE  /\ Loses(p, v, why) \in Records
         /\ Loses(p, v, why) = "yes" => met[p] = "yes" /\ v = Target(p)
         /\ Loses(p, v, why) = "no" => met[p] = "no"
         /\ met[p] = "no" => Loses(p, v, why) = "no"
         /\ met[p] \in {"boosted", "crash"} => Loses(p, v, why) \in {"boosted", "crash"}
BY DEF Loses, Records

LEMMA BoostedIs ==
  ASSUME met \in [{"comfort", "boost"} -> Records], NEW v, NEW ok \in BOOLEAN, Boosted(v, ok)
  PROVE  /\ met' \in [{"comfort", "boost"} -> Records] /\ met'["comfort"] = met["comfort"]
         /\ met'["boost"] = "yes" => met["boost"] = "yes" /\ (ok => v = Target("boost"))
         /\ met'["boost"] = "no" <=> met["boost"] = "no"
         /\ met["boost"] \in {"boosted", "crash"} => met'["boost"] \in {"boosted", "crash"}
<1>1. CASE ok
  <2>1. met' = [met EXCEPT !["boost"] = Loses("boost", v, "boosted")]
    BY <1>1 DEF Boosted
  <2> QED
    BY <1>1, <2>1, LosesIs
<1>2. CASE ~ok
  BY <1>2 DEF Boosted
<1> QED
  BY <1>1, <1>2

LEMMA TypesInit == Init => TypesInv
<1> SUFFICES ASSUME Init PROVE TypesInv
  OBVIOUS
<1> USE DEF Init, Presets, Temps, None
<1>1. FlagsT
  BY DEF FlagsT
<1>2. WorldT
  BY TempsAssumption DEF WorldT
<1>3. MemoryT
  <2>1. NoNight \in Nights
    BY DEF NoNight, Nights
  <2>2. last \in [Presets -> Temps] /\ decided \in Temps /\ active \in Temps
    OBVIOUS
  <2> QED
    BY <2>1, <2>2 DEF MemoryT, Memories, Stored
<1>4. EvT
  BY DEF EvT, Evs, Idle
<1>5. CallsT
  BY DEF CallsT, Calls, Done, NoWish
<1>6. HistoryT
  <2>1. temp \in [Presets -> Nat]
    BY <1>2 DEF WorldT
  <2> QED
    BY <2>1 DEF HistoryT, Slips, Records
<1> QED
  BY <1>1, <1>2, <1>3, <1>4, <1>5, <1>6 DEF TypesInv

LEMMA EvaluationTypes == ASSUME TypesInv, Evaluation PROVE TypesInv'
<1> USE DEF TypesInv, FlagsT, WorldT, MemoryT, EvT, CallsT, HistoryT, Evs, Calls, Nights
<1>1. CASE Ask
  <2>1. ev' \in Evs /\ ev'.pc = "start" /\ ev'.todo = {} /\ dormant' \in BOOLEAN
        /\ down' \in {"none", "change", "boost"}
    BY <1>1, EnterIs DEF Ask
  <2>2. FlagsT' /\ WorldT' /\ HistoryT'
    BY <1>1, <2>1 DEF Ask, world, history
  <2>3. MemoryT' /\ CallsT'
    BY <1>1 DEF Ask, memory
  <2>4. EvT'
    BY <2>1
  <2> QED
    BY <2>2, <2>3, <2>4
<1>2. CASE Start
  <2>1. FlagsT' /\ WorldT' /\ MemoryT' /\ CallsT' /\ HistoryT'
    BY <1>2 DEF Start, world, room, memory, history
  <2>2. EvT'
    <3>1. CASE ev' = [ev EXCEPT !.pc = "adaptive", !.todo = affected]
      <4>1. ev' \in Evs /\ ev'.pc = "adaptive" /\ ev'.todo = affected
        BY <3>1 DEF Presets
      <4> QED
        BY <1>2, <4>1 DEF Start, world
    <3>2. CASE ev' = [ev EXCEPT !.pc = "setback"]
      <4>1. ev' \in Evs /\ ev'.pc = "setback"
        BY <3>2
      <4> QED
        BY <4>1
    <3> QED
      BY <1>2, <3>1, <3>2 DEF Start
  <2> QED
    BY <2>1, <2>2
<1>3. CASE WriteReturns
  <2>1. PICK ok \in Outcomes : /\ Lands(ev.p, ev.to, ok) /\ Wrote(ev.p, ev.to, ok) /\ Spend(ok)
                               /\ failed' = (IF ok THEN failed \ {ev.p} ELSE failed \cup {ev.p})
                               /\ stands' = (IF ok /\ there THEN stands \ {ev.p} ELSE stands)
                               /\ met' = IF ok THEN [met EXCEPT ![ev.p] = IF ev.to = Target(ev.p)
                                                                          THEN "yes" ELSE "no"] ELSE met
                               /\ IF ok /\ there /\ ev.p = "boost"
                                    THEN /\ home' = [home EXCEPT !.boost = ev.to]
                                         /\ slip' = [slip EXCEPT !.boost = IF Borrowed THEN "crossed" ELSE "none"]
                                    ELSE UNCHANGED <<home, slip>>
    BY <1>3 DEF WriteReturns
  <2>2. ok \in BOOLEAN /\ moves' \in 0..MaxMoves
    BY <2>1, SpendIs
  <2>3. ev.p \in Presets /\ ev.to \in Nat /\ ev.p \in {"comfort", "boost"}
    BY <1>3 DEF WriteReturns
  <2>4. temp' \in [Presets -> Nat] /\ last' \in [Presets -> Temps]
    BY <2>1, <2>2, <2>3, LandsIs, WroteIs
  <2>5. ev' \in Evs /\ ev'.pc \in {"setback", "adaptive"} /\ ev'.todo = ev.todo
    BY <1>3, OnwardsIs DEF WriteReturns
  <2>6. HistoryT'
    <3>1. met' \in [{"comfort", "boost"} -> Records]
      BY <2>1, <2>3 DEF Records
    <3>2. home' \in [{"eco", "boost"} -> Nat] /\ slip' \in [{"eco", "boost"} -> Slips]
      BY <2>1, <2>3 DEF Slips
    <3>3. stands' \subseteq {"comfort", "boost"} /\ failed' \subseteq Presets
      BY <2>1, <2>3
    <3> QED
      BY <3>1, <3>2, <3>3
  <2>7. FlagsT' /\ WorldT' /\ MemoryT' /\ CallsT'
    BY <1>3, <2>2, <2>4 DEF WriteReturns, room
  <2>8. EvT'
    BY <1>3, <2>5 DEF WriteReturns
  <2> QED
    BY <2>6, <2>7, <2>8
<1>4. ASSUME NEW p \in Presets, Consider(p) PROVE TypesInv'
  <2>0. p \in {"comfort", "boost"}
    BY <1>4 DEF Consider
  <2>1. FlagsT' /\ WorldT' /\ MemoryT' /\ CallsT' /\ HistoryT'
    <3>1. met' \in [{"comfort", "boost"} -> Records]
      BY <1>4 DEF Consider, Records
    <3> QED
      BY <1>4, <3>1, TargetIs DEF Consider, world, room, Temps
  <2>2. EvT'
    <3> DEFINE e == [ev EXCEPT !.todo = @ \ {p}]
    <3>1. e \in Evs /\ e.todo \subseteq ev.todo /\ p \in affected /\ affected' = affected
      BY <1>4 DEF Consider, world
    <3>2. CASE ev' = Onwards(e)
      <4> HIDE DEF e
      <4>1. ev' \in Evs /\ ev'.pc \in {"setback", "adaptive"} /\ ev'.todo = e.todo
        BY <3>1, <3>2, OnwardsIs
      <4> QED
        BY <1>4, <3>1, <4>1 DEF Consider
    <3>3. CASE ev' = [ev EXCEPT !.pc = "writing", !.todo = @ \ {p}, !.p = p, !.to = Target(p)]
      <4>1. Target(p) \in Nat
        BY <3>1, TargetIs
      <4>2. ev' \in Evs /\ ev'.pc = "writing" /\ ev'.todo = e.todo /\ ev'.p = p /\ ev'.to = Target(p)
        BY <3>3, <4>1 DEF Temps
      <4> HIDE DEF e
      <4> QED
        BY <1>4, <3>1, <4>1, <4>2 DEF Consider
    <3> QED
      BY <1>4, <3>2, <3>3 DEF Consider
  <2> QED
    BY <2>1, <2>2
<1>5. CASE DecideSetback
  <2>1. FlagsT' /\ WorldT' /\ MemoryT' /\ CallsT' /\ HistoryT'
    BY <1>5 DEF DecideSetback, world, room, history, Date, Temps
  <2>2. EvT'
    BY <1>5 DEF DecideSetback, world
  <2> QED
    BY <2>1, <2>2
<1>6. CASE RaiseEco
  <2>1. FlagsT' /\ WorldT' /\ MemoryT' /\ CallsT' /\ HistoryT'
    BY <1>6 DEF RaiseEco, world, room, history, Date, Temps
  <2>2. EvT'
    BY <1>6, RaisedIs DEF RaiseEco, Temps, Presets
  <2> QED
    BY <2>1, <2>2
<1>7. CASE EcoRaised
  <2>1. PICK ok \in Outcomes : /\ Lands("eco", ev.to, ok) /\ Wrote("eco", ev.to, ok) /\ Spend(ok)
                               /\ sb' = IF ok THEN [on |-> TRUE, base |-> ev.base, target |-> ev.to, night |-> Date]
                                             ELSE sb
    BY <1>7 DEF EcoRaised
  <2>2. ok \in BOOLEAN /\ moves' \in 0..MaxMoves /\ "eco" \in Presets /\ ev.to \in Nat
    BY <1>7, <2>1, SpendIs DEF EcoRaised, Presets
  <2>3. temp' \in [Presets -> Nat] /\ last' \in [Presets -> Temps]
    BY <2>1, <2>2, LandsIs, WroteIs
  <2>4. FlagsT' /\ WorldT' /\ CallsT' /\ HistoryT'
    BY <1>7, <2>2, <2>3 DEF EcoRaised, room, history
  <2>5. sb' \in Nights
    BY <2>1, <2>2 DEF Date
  <2>6. MemoryT'
    BY <1>7, <2>3, <2>5 DEF EcoRaised
  <2>7. EvT'
    BY <1>7 DEF EcoRaised
  <2> QED
    BY <2>4, <2>6, <2>7
<1>8. CASE RestoreEco
  <2>1. FlagsT' /\ WorldT' /\ MemoryT' /\ CallsT' /\ HistoryT'
    BY <1>8 DEF RestoreEco, world, room, memory, history
  <2>2. EvT'
    BY <1>8 DEF RestoreEco, Presets, Temps
  <2> QED
    BY <2>1, <2>2
<1>9. CASE EcoRestored
  <2>1. FlagsT' /\ WorldT' /\ CallsT' /\ HistoryT'
    BY <1>9, LandsIs, SpendIs DEF EcoRestored, room, GivenBack, Slips
  <2>2. EvT'
    BY <1>9 DEF EcoRestored
  <2>3. MemoryT'
    <3>1. last' \in [Presets -> Temps] /\ UNCHANGED <<decided, active, saved>>
      BY <1>9, WroteIs, SpendIs DEF EcoRestored
    <3>2. sb' = [sb EXCEPT !.on = FALSE]
      BY <1>9 DEF EcoRestored
    <3> QED
      BY <3>1, <3>2
  <2> QED
    BY <2>1, <2>2, <2>3
<1>10. CASE LeaveEco
  <2>1. /\ UNCHANGED <<last, decided, active, saved, home, met, stands, failed, svc, wish, restores>>
        /\ sb' = [sb EXCEPT !.on = FALSE] /\ ev' = [ev EXCEPT !.pc = "rest"]
    BY <1>10 DEF LeaveEco
  <2>2. FlagsT' /\ WorldT'
    BY <1>10 DEF LeaveEco, world, room
  <2>3. MemoryT' /\ CallsT'
    BY <2>1
  <2>4. HistoryT'
    BY <1>10, <2>1 DEF LeaveEco, Slips
  <2>5. EvT'
    BY <1>10, <2>1
  <2> QED
    BY <2>2, <2>3, <2>4, <2>5
<1>11. CASE NoSetback
  BY <1>11 DEF NoSetback, world, room, memory, history
<1>12. CASE EndEvaluation
  BY <1>12 DEF EndEvaluation, world, room, memory, history, Idle, Temps, Presets
<1> QED
  BY <1>1, <1>2, <1>3, <1>4, <1>5, <1>6, <1>7, <1>8, <1>9, <1>10, <1>11, <1>12 DEF Evaluation

LEMMA BoostingTypes == ASSUME TypesInv, Boosting PROVE TypesInv'
<1> USE DEF TypesInv, FlagsT, WorldT, MemoryT, EvT, CallsT, HistoryT, Evs, Calls, Nights
<1>1. CASE BoostWritten
  <2>1. FlagsT' /\ WorldT'
    BY <1>1, LandsIs, SpendIs DEF BoostWritten, room, Presets
  <2>2. HistoryT'
    <3>1. met' \in [{"comfort", "boost"} -> Records]
      BY <1>1, BoostedIs, SpendIs DEF BoostWritten
    <3> QED
      BY <1>1, <3>1 DEF BoostWritten, Slips
  <2>3. MemoryT'
    BY <1>1, WroteIs, SpendIs DEF BoostWritten, Presets
  <2>4. CallsT'
    BY <1>1 DEF BoostWritten, Temps
  <2>5. EvT'
    BY <1>1 DEF BoostWritten
  <2> QED
    BY <2>1, <2>2, <2>3, <2>4, <2>5
<1>2. CASE BoostCalled
  BY <1>2 DEF BoostCalled, OnBoostStart, Nested, NoWish, Done, Slips, Temps
<1>3. CASE BoostProlonged
  BY <1>3 DEF BoostProlonged, Done, room, memory, Slips, Temps
<1>4. CASE BoostCalledAway
  BY <1>4 DEF BoostCalledAway, Done, world, room, memory, Slips, Temps
<1>5. CASE BoostRaises
  <2>1. FlagsT' /\ WorldT' /\ HistoryT'
    BY <1>5, MoveIs DEF BoostRaises, Nested, world, room, Slips
  <2>2. MemoryT' /\ CallsT'
    BY <1>5 DEF BoostRaises, Done, NoWish, memory, Temps
  <2>3. EvT'
    BY <1>5 DEF BoostRaises, world
  <2> QED
    BY <2>1, <2>2, <2>3
<1>6. CASE BoostUndone
  <2>1. met' \in [{"comfort", "boost"} -> Records]
    BY <1>6, BoostedIs, SpendIs DEF BoostUndone
  <2> QED
    BY <1>6, <2>1, LandsIs, WroteIs, SpendIs DEF BoostUndone, Done, room, GivenBack, Slips, Presets, Temps
<1>7. CASE BoostEnds
  <2>1. FlagsT' /\ WorldT' /\ MemoryT' /\ HistoryT'
    BY <1>7 DEF BoostEnds, PutBack, history, Temps
  <2>2. EvT'
    BY <1>7 DEF BoostEnds
  <2>3. CallsT'
    <3>1. restores' \subseteq restores \cup ({active} \ {None}) /\ UNCHANGED <<svc, wish>>
      BY <1>7 DEF BoostEnds, PutBack
    <3> QED
      BY <3>1 DEF Temps
  <2> QED
    BY <2>1, <2>2, <2>3
<1>8. CASE TimeIsUp
  BY <1>8 DEF TimeIsUp, world, memory, history
<1>9. CASE LateRestore
  <2>1. FlagsT' /\ WorldT' /\ HistoryT'
    BY <1>9 DEF LateRestore, PutBack, world, history
  <2>2. MemoryT' /\ CallsT'
    BY <1>9 DEF LateRestore, PutBack, Temps
  <2>3. EvT'
    BY <1>9 DEF LateRestore, world
  <2> QED
    BY <2>1, <2>2, <2>3
<1>10. ASSUME NEW v \in restores, BoostRestored(v) PROVE TypesInv'
  <2>1. met' \in [{"comfort", "boost"} -> Records]
    BY <1>10, BoostedIs, SpendIs DEF BoostRestored
  <2> QED
    BY <1>10, <2>1, LandsIs, WroteIs, SpendIs DEF BoostRestored, room, GivenBack, Slips, Presets
<1> QED
  BY <1>1, <1>2, <1>3, <1>4, <1>5, <1>6, <1>7, <1>8, <1>9, <1>10 DEF Boosting

LEMMA PeopleTypes == ASSUME TypesInv, People PROVE TypesInv'
<1> USE DEF TypesInv, FlagsT, WorldT, MemoryT, EvT, CallsT, HistoryT, Evs, Calls, Nights
<1>1. ASSUME NEW v \in Wishes, HearthBoost(v) PROVE TypesInv'
  BY <1>1, MoveIs, TempsAssumption DEF HearthBoost, Shown, world, room, memory, history, Temps, Presets
<1>2. ASSUME NEW p \in Presets, NEW v \in Edits[p], PersonEdits(p, v) PROVE TypesInv'
  <2>1. v \in Nat
    BY TempsAssumption
  <2> QED
    BY <1>2, <2>1, MoveIs DEF PersonEdits, memory, Presets, Slips
<1>3. ASSUME NEW k \in {"adaptive", "setback"}, Flip(k) PROVE TypesInv'
  BY <1>3, MoveIs DEF Flip, room, memory, history
<1>4. CASE PersonBoosts
  <2>1. FlagsT' /\ WorldT' /\ MemoryT' /\ CallsT' /\ HistoryT'
    BY <1>4, MoveIs DEF PersonBoosts, OnBoostStart, Nested, NoWish, Slips, Temps
  <2>2. EvT'
    BY <1>4 DEF PersonBoosts
  <2> QED
    BY <2>1, <2>2
<1>5. CASE PersonEndsBoost
  BY <1>5, MoveIs DEF PersonEndsBoost, memory, history
<1>6. CASE Recompute
  <2>1. /\ ev' = ev \/ (ev' \in Evs /\ ev'.pc = "start" /\ ev'.todo = {})
        /\ dormant' \in BOOLEAN /\ down' \in {"none", "change", "boost"}
    BY <1>6, EnterIs DEF Recompute
  <2>2. FlagsT' /\ WorldT' /\ HistoryT'
    BY <1>6, <2>1, MoveIs DEF Recompute, world, history
  <2>3. MemoryT' /\ CallsT'
    BY <1>6 DEF Recompute, memory
  <2>4. EvT'
    BY <1>6, <2>1 DEF Recompute, world
  <2> QED
    BY <2>2, <2>3, <2>4
<1>7. CASE Reload
  <2>1. FlagsT' /\ WorldT' /\ HistoryT'
    BY <1>7, MoveIs DEF Reload
  <2>2. MemoryT' /\ CallsT'
    BY <1>7 DEF Reload, Stored, Memories, NoWish, memory, Temps
  <2>3. EvT'
    BY <1>7 DEF Reload
  <2> QED
    BY <2>1, <2>2, <2>3
<1>8. CASE Crash
  <2>1. met' \in [{"comfort", "boost"} -> Records]
    BY <1>8, LosesIs DEF Crash
  <2> QED
    BY <1>8, <2>1, MoveIs DEF Crash, Memories, Idle, NoWish, Done, world, Presets, Slips, Temps
<1> QED
  BY <1>1, <1>2, <1>3, <1>4, <1>5, <1>6, <1>7, <1>8 DEF People

LEMMA AroundTypes == ASSUME TypesInv, Around PROVE TypesInv'
<1> USE DEF TypesInv, FlagsT, WorldT, MemoryT, EvT, CallsT, HistoryT, Evs, Calls, Nights
<1>1. CASE StandDownEnds
  BY <1>1 DEF StandDownEnds, world, memory, history
<1>2. CASE TargetMoves
  <2>1. met' \in [{"comfort", "boost"} -> Records]
    BY <1>2 DEF TargetMoves, Records
  <2> QED
    BY <1>2, <2>1, MoveIs DEF TargetMoves, room, memory
<1>3. CASE ScopeChanges
  <2>1. FlagsT' /\ WorldT' /\ MemoryT' /\ CallsT' /\ HistoryT'
    BY <1>3, MoveIs DEF ScopeChanges, memory, history
  <2>2. EvT'
    BY <1>3 DEF ScopeChanges
  <2> QED
    BY <2>1, <2>2
<1>4. CASE VThermGone
  <2>1. FlagsT' /\ WorldT' /\ MemoryT' /\ CallsT' /\ HistoryT'
    BY <1>4, MoveIs DEF VThermGone, memory, history
  <2>2. EvT'
    BY <1>4 DEF VThermGone
  <2> QED
    BY <2>1, <2>2
<1>5. CASE VThermBack
  <2>1. FlagsT' /\ WorldT'
    BY <1>5 DEF VThermBack, OnBoostStart
  <2>2. HistoryT'
    BY <1>5 DEF VThermBack, OnBoostStart, Nested, Slips
  <2>3. MemoryT'
    BY <1>5 DEF VThermBack, OnBoostStart
  <2>4. EvT'
    BY <1>5 DEF VThermBack
  <2>5. CallsT'
    <3>1. /\ wish' = NoWish \/ wish' = wish
          /\ UNCHANGED <<svc, restores>>
      BY <1>5 DEF VThermBack, OnBoostStart
    <3> QED
      <4>1. NoWish \in [on : BOOLEAN, restore : Temps]
        BY DEF NoWish, Temps
      <4> QED
        BY <3>1, <4>1
  <2> QED
    BY <2>1, <2>2, <2>3, <2>4, <2>5
<1>6. CASE Tick
  BY <1>6, TempsAssumption DEF Tick, Stored, Memories, NoWish, room, memory, history, Temps
<1> QED
  BY <1>1, <1>2, <1>3, <1>4, <1>5, <1>6 DEF Around

LEMMA TypesNext == TypesInv /\ [Next]_vars => TypesInv'
<1>1. ASSUME TypesInv, UNCHANGED vars PROVE TypesInv'
  BY <1>1 DEF vars, world, room, memory, tasks, history, TypesInv, FlagsT, WorldT, MemoryT, EvT, CallsT, HistoryT, vars
<1> QED
  BY <1>1, EvaluationTypes, BoostingTypes, PeopleTypes, AroundTypes DEF Next

LEMMA TypesAlways == Spec => []TypesInv
BY TypesInit, TypesNext, PTL DEF Spec

(***************************************************************************)
(* Every reachable state has the types of the model, what was saved, too.  *)
(***************************************************************************)
THEOREM TypesHold == Spec => []TypeOK
<1>1. TypesInv => TypeOK
  BY DEF TypesInv, FlagsT, WorldT, MemoryT, EvT, CallsT, HistoryT, TypeOK, Memories, Nights, Evs, Calls
<1> QED
  BY <1>1, TypesAlways, PTL

-----------------------------------------------------------------------------
(***************************************************************************)
(* Eco.  Until something slips, eco is people's own, or as the setback has *)
(* raised it, and then what people had is what it will be put back to.  A  *)
(* write that raises it, or puts it back, finds it as it was when decided. *)
(***************************************************************************)
EcoKept ==
  /\ ev.pc = "raising" => ~sb.on /\ ev.base < ev.to
  /\ ev.pc = "restoring" => sb.on /\ ev.to = sb.base
  /\ slip["eco"] = "none" =>
       /\ home["eco"] = IF sb.on /\ temp["eco"] = sb.target THEN sb.base ELSE temp["eco"]
       /\ ev.pc = "raising" => temp["eco"] = ev.base
       /\ ev.pc = "restoring" => temp["eco"] = sb.target

LEMMA EcoAside ==
  ASSUME EcoKept, UNCHANGED <<sb, home["eco"], slip["eco"], temp["eco"]>>,
         ev' = ev \/ ev'.pc \notin {"raising", "restoring"}
  PROVE  EcoKept'
BY DEF EcoKept

LEMMA OthersTemp ==
  ASSUME WorldT, NEW p \in Presets, NEW v \in Nat, NEW ok \in Outcomes, Lands(p, v, ok), p # "eco"
  PROVE  temp'["eco"] = temp["eco"]
<1>1. ok \in BOOLEAN
  BY DEF Outcomes
<1> QED
  BY <1>1, LandsIs DEF WorldT, Presets

LEMMA EvaluationEco == ASSUME TypesInv, EcoKept, Evaluation PROVE EcoKept'
<1> USE DEF TypesInv
<1>1. CASE Ask
  BY <1>1, EnterIs, EcoAside DEF Ask, world, memory, history, TypesInv, WorldT
<1>2. CASE Start
  BY <1>2, EcoAside DEF Start, world, memory, history, EvT, Evs
<1>3. CASE WriteReturns
  <2>1. ev.p # "eco" /\ ev.p \in Presets /\ ev.to \in Nat
    BY <1>3 DEF WriteReturns, EvT, Evs, WorldT
  <2>2. temp'["eco"] = temp["eco"]
    BY <1>3, <2>1, OthersTemp DEF WriteReturns
  <2>3. ev'.pc \notin {"raising", "restoring"}
    BY <1>3, OnwardsIs DEF WriteReturns, EvT
  <2>4. UNCHANGED <<sb, home["eco"], slip["eco"]>>
    BY <1>3 DEF WriteReturns, HistoryT
  <2> QED
    BY <2>2, <2>3, <2>4, EcoAside
<1>4. ASSUME NEW p \in Presets, Consider(p) PROVE EcoKept'
  <2>1. ev'.pc \notin {"raising", "restoring"}
    BY <1>4 DEF Consider, Onwards, EvT, Evs
  <2> QED
    BY <1>4, <2>1, EcoAside DEF Consider, world
<1>5. CASE DecideSetback
  BY <1>5, EcoAside DEF DecideSetback, world, history, EvT, Evs
<1>6. CASE RaiseEco
  <2>1. Shown("eco") = temp["eco"] /\ Shown("eco") \in Nat /\ Raised \in Nat
    BY <1>6, RaisedIs DEF RaiseEco, Shown
  <2>2. ev'.pc = "raising" /\ ev'.base = temp["eco"] /\ ev'.to = Raised
    BY <1>6, <2>1 DEF RaiseEco, EvT, Evs
  <2> QED
    BY <1>6, <2>1, <2>2 DEF RaiseEco, DecisionDue, world, history, EcoKept
<1>7. CASE EcoRaised
  <2>1. PICK ok \in Outcomes :
           /\ Lands("eco", ev.to, ok)
           /\ sb' = IF ok THEN [on |-> TRUE, base |-> ev.base, target |-> ev.to, night |-> Date] ELSE sb
    BY <1>7 DEF EcoRaised
  <2>2. ok \in BOOLEAN /\ ev.to \in Nat /\ ev.base \in Nat
    BY <1>7 DEF Outcomes, EcoRaised, EvT, Evs
  <2>3. temp'["eco"] = IF ok /\ there THEN ev.to ELSE temp["eco"]
    BY <2>1, <2>2, LandsIs DEF WorldT, Presets
  <2>4. ev'.pc = "rest" /\ UNCHANGED <<home, slip>>
    BY <1>7 DEF EcoRaised, history, EvT, Evs
  <2> QED
    BY <1>7, <2>1, <2>2, <2>3, <2>4 DEF EcoRaised, EcoKept
<1>8. CASE RestoreEco
  <2>1. ev'.pc = "restoring" /\ ev'.to = sb.base
    BY <1>8 DEF RestoreEco, EvT, Evs
  <2>2. sb.on /\ temp["eco"] = sb.target
    BY <1>8 DEF RestoreEco, RestoreDue, Shown, None, MemoryT, Nights
  <2> QED
    BY <1>8, <2>1, <2>2 DEF RestoreEco, world, memory, history, EcoKept
<1>9. CASE EcoRestored
  <2>1. PICK ok \in Outcomes : Lands("eco", ev.to, ok) /\ slip' = GivenBack("eco", ok)
    BY <1>9 DEF EcoRestored
  <2>2. ok \in BOOLEAN /\ ev.to \in Nat
    BY <1>9 DEF Outcomes, EcoRestored, EvT
  <2>3. temp'["eco"] = IF ok /\ there THEN ev.to ELSE temp["eco"]
    BY <2>1, <2>2, LandsIs DEF WorldT, Presets
  <2>4. slip'["eco"] = "none" => ok /\ there /\ slip["eco"] = "none"
    BY <2>1, <2>2 DEF GivenBack, HistoryT
  <2>5. ev'.pc = "rest" /\ ~sb'.on /\ UNCHANGED home
    BY <1>9 DEF EcoRestored, EvT, Evs, MemoryT, Nights
  <2> QED
    BY <1>9, <2>3, <2>4, <2>5 DEF EcoRestored, EcoKept
<1>10. CASE LeaveEco
  <2>1. ev'.pc = "rest" /\ ~sb'.on /\ UNCHANGED <<temp, home>>
    BY <1>10 DEF LeaveEco, world, EvT, Evs, MemoryT, Nights
  <2>2. slip'["eco"] = "none" => slip["eco"] = "none" /\ temp["eco"] # sb.target
    BY <1>10 DEF LeaveEco, Shown, HistoryT
  <2> QED
    BY <2>1, <2>2 DEF EcoKept
<1>11. CASE NoSetback
  BY <1>11, EcoAside DEF NoSetback, world, memory, history, EvT, Evs
<1>12. CASE EndEvaluation
  BY <1>12, EcoAside DEF EndEvaluation, world, memory, history, Idle
<1> QED
  BY <1>1, <1>2, <1>3, <1>4, <1>5, <1>6, <1>7, <1>8, <1>9, <1>10, <1>11, <1>12 DEF Evaluation

LEMMA BoostingEco == ASSUME TypesInv, EcoKept, Boosting PROVE EcoKept'
<1> SUFFICES UNCHANGED <<sb, home["eco"], slip["eco"], temp["eco"], ev>>
  BY EcoAside
<1> USE DEF TypesInv, HistoryT, Presets
<1>1. CASE BoostWritten
  BY <1>1, OthersTemp DEF BoostWritten, CallsT
<1>2. CASE BoostCalled
  BY <1>2 DEF BoostCalled, OnBoostStart, Nested
<1>3. CASE BoostProlonged
  BY <1>3 DEF BoostProlonged, memory
<1>4. CASE BoostCalledAway
  BY <1>4 DEF BoostCalledAway, world, memory
<1>5. CASE BoostRaises
  BY <1>5 DEF BoostRaises, Nested, world, memory
<1>6. CASE BoostUndone
  BY <1>6, OthersTemp DEF BoostUndone, GivenBack, CallsT
<1>7. CASE BoostEnds
  BY <1>7 DEF BoostEnds, history
<1>8. CASE TimeIsUp
  BY <1>8 DEF TimeIsUp, world, memory, history
<1>9. CASE LateRestore
  BY <1>9 DEF LateRestore, world, history
<1>10. ASSUME NEW v \in restores, BoostRestored(v) PROVE UNCHANGED <<sb, home["eco"], slip["eco"], temp["eco"], ev>>
  BY <1>10, OthersTemp DEF BoostRestored, GivenBack, CallsT
<1> QED
  BY <1>1, <1>2, <1>3, <1>4, <1>5, <1>6, <1>7, <1>8, <1>9, <1>10 DEF Boosting

LEMMA PeopleEco == ASSUME TypesInv, EcoKept, People PROVE EcoKept'
<1> USE DEF TypesInv, HistoryT
<1>1. ASSUME NEW v \in Wishes, HearthBoost(v) PROVE EcoKept'
  BY <1>1, EcoAside DEF HearthBoost, world, memory, history
<1>2. ASSUME NEW p \in Presets, NEW v \in Edits[p], PersonEdits(p, v) PROVE EcoKept'
  <2>1. UNCHANGED <<sb, ev>>
    BY <1>2 DEF PersonEdits, memory
  <2>2. CASE p = "eco"
    <3>1. temp'["eco"] = v /\ home'["eco"] = IF sb.on /\ v = sb.target THEN sb.base ELSE v
      BY <1>2, <2>2 DEF PersonEdits, WorldT
    <3>2. slip'["eco"] = "none" => ev.pc \notin {"raising", "restoring"}
      BY <1>2, <2>2 DEF PersonEdits, Writing, EvT
    <3> QED
      BY <2>1, <3>1, <3>2 DEF EcoKept
  <2>3. CASE p # "eco"
    <3>1. UNCHANGED <<home["eco"], slip["eco"], temp["eco"]>>
      BY <1>2, <2>3 DEF PersonEdits, WorldT, Presets
    <3> QED
      BY <2>1, <3>1, EcoAside
  <2> QED
    BY <2>2, <2>3
<1>3. ASSUME NEW k \in {"adaptive", "setback"}, Flip(k) PROVE EcoKept'
  BY <1>3, EcoAside DEF Flip, memory, history
<1>4. CASE PersonBoosts
  BY <1>4, EcoAside DEF PersonBoosts, OnBoostStart, Nested
<1>5. CASE PersonEndsBoost
  BY <1>5, EcoAside DEF PersonEndsBoost, memory, history
<1>6. CASE Recompute
  BY <1>6, EnterIs, EcoAside DEF Recompute, world, memory, history, TypesInv, WorldT
<1>7. CASE Reload
  BY <1>7, EcoAside DEF Reload, memory
<1>8. CASE Crash
  <2>1. ev'.pc = "idle" /\ UNCHANGED <<temp, home>> /\ sb' = saved.sb
    BY <1>8 DEF Crash, world, Idle
  <2>2. slip'["eco"] = "none" => slip["eco"] = "none" /\ sb = saved.sb
    BY <1>8 DEF Crash
  <2> QED
    BY <2>1, <2>2 DEF EcoKept
<1> QED
  BY <1>1, <1>2, <1>3, <1>4, <1>5, <1>6, <1>7, <1>8 DEF People

LEMMA AroundEco == ASSUME TypesInv, EcoKept, Around PROVE EcoKept'
<1> SUFFICES UNCHANGED <<sb, home["eco"], slip["eco"], temp["eco"], ev>>
  BY EcoAside
<1> USE DEF TypesInv, HistoryT
<1>1. CASE StandDownEnds
  BY <1>1 DEF StandDownEnds, world, memory, history
<1>2. CASE TargetMoves
  BY <1>2 DEF TargetMoves, memory
<1>3. CASE ScopeChanges
  BY <1>3 DEF ScopeChanges, memory, history
<1>4. CASE VThermGone
  BY <1>4 DEF VThermGone, memory, history
<1>5. CASE VThermBack
  BY <1>5 DEF VThermBack, OnBoostStart, Nested
<1>6. CASE Tick
  BY <1>6 DEF Tick, memory, history
<1> QED
  BY <1>1, <1>2, <1>3, <1>4, <1>5, <1>6 DEF Around

LEMMA EcoAlways == Spec => []EcoKept
<1>1. Init => EcoKept
  BY DEF Init, EcoKept, Idle, NoNight
<1>2. ASSUME TypesInv, EcoKept, [Next]_vars PROVE EcoKept'
  <2>1. CASE UNCHANGED vars
    BY <1>2, <2>1, EcoAside DEF vars, world, memory, history, tasks
  <2> QED
    BY <1>2, <2>1, EvaluationEco, BoostingEco, PeopleEco, AroundEco DEF Next
<1> QED
  BY <1>1, <1>2, TypesAlways, PTL DEF Spec

(***************************************************************************)
(* D10, D21: once a night is over eco is what people have set it to, but   *)
(* for the slips.                                                          *)
(***************************************************************************)
THEOREM EcoHolds == Spec => []EcoIsGivenBack
<1>1. EcoKept => EcoIsGivenBack
  BY DEF EcoKept, EcoIsGivenBack
<1> QED
  BY <1>1, EcoAlways, PTL

-----------------------------------------------------------------------------
(***************************************************************************)
(* The boost temperature.  Until something slips, whatever is kept to be   *)
(* put back is what people, or the adaptive write, had; and a temperature  *)
(* that is not theirs has somebody who is to put it back.                  *)
(***************************************************************************)
BoostKept ==
  slip["boost"] = "none" =>
    /\ active # None => active = home["boost"]
    /\ \A v \in restores : v = home["boost"]
    /\ svc.pc = "undoing" => svc.to = home["boost"]
    /\ \/ temp["boost"] = home["boost"] \/ active # None \/ restores # {}
       \/ svc.pc = "undoing"
       \/ svc.pc = "calling" /\ wish.restore # None

LEMMA BoostAside ==
  ASSUME BoostKept, UNCHANGED <<active, restores, svc, wish, home["boost"], slip["boost"], temp["boost"]>>
  PROVE  BoostKept'
BY DEF BoostKept

LEMMA BoostStarts ==
  ASSUME TypesInv, BoostKept, OnBoostStart, UNCHANGED <<restores, home, temp>>,
         svc' = svc \/ (svc.pc = "calling" /\ svc' = Done)
  PROVE  BoostKept'
<1>1. slip'["boost"] = "none" => slip["boost"] = "none" /\ wish.restore \in {None, home["boost"]}
  BY DEF OnBoostStart, Nested, TypesInv, HistoryT
<1>2. active' = (IF wish.restore # None THEN wish.restore ELSE active) /\ wish'.restore = None
  BY DEF OnBoostStart, NoWish
<1> QED
  BY <1>1, <1>2 DEF BoostKept, Done

LEMMA EvaluationBoost == ASSUME TypesInv, BoostKept, Evaluation PROVE BoostKept'
<1> USE DEF TypesInv
<1>1. CASE Ask
  BY <1>1, BoostAside DEF Ask, world, memory, history
<1>2. CASE Start
  BY <1>2, BoostAside DEF Start, world, memory, history
<1>3. CASE WriteReturns
  <2>1. PICK ok \in Outcomes :
           /\ Lands(ev.p, ev.to, ok)
           /\ IF ok /\ there /\ ev.p = "boost"
                THEN /\ home' = [home EXCEPT !.boost = ev.to]
                     /\ slip' = [slip EXCEPT !.boost = IF Borrowed THEN "crossed" ELSE "none"]
                ELSE UNCHANGED <<home, slip>>
    BY <1>3 DEF WriteReturns
  <2>2. ok \in BOOLEAN /\ ev.to \in Nat /\ ev.p \in Presets
    BY <1>3 DEF Outcomes, WriteReturns, EvT, Evs
  <2>3. UNCHANGED <<active, restores, svc, wish>>
    BY <1>3 DEF WriteReturns
  <2>4. CASE ok /\ there /\ ev.p = "boost"
    <3>1. temp'["boost"] = ev.to /\ home'["boost"] = ev.to
      <4>1. temp'[ev.p] = IF ok /\ there THEN ev.to ELSE temp[ev.p]
        BY <2>1, <2>2, LandsIs DEF WorldT
      <4>2. home' = [home EXCEPT !.boost = ev.to]
        BY <2>1, <2>4
      <4> QED
        BY <2>4, <4>1, <4>2 DEF HistoryT
    <3>2. slip'["boost"] = "none" => active = None /\ restores = {} /\ svc.pc = "none"
      BY <2>1, <2>4 DEF Borrowed, HistoryT
    <3> QED
      BY <2>3, <3>1, <3>2 DEF BoostKept
  <2>5. CASE ~(ok /\ there /\ ev.p = "boost")
    <3>1. temp'["boost"] = temp["boost"]
      BY <2>1, <2>2, <2>5, LandsIs DEF WorldT, Presets
    <3> QED
      BY <2>1, <2>3, <2>5, <3>1, BoostAside
  <2> QED
    BY <2>4, <2>5
<1>4. ASSUME NEW p \in Presets, Consider(p) PROVE BoostKept'
  BY <1>4, BoostAside DEF Consider, world
<1>5. CASE DecideSetback
  BY <1>5, BoostAside DEF DecideSetback, world, history
<1>6. CASE RaiseEco
  BY <1>6, BoostAside DEF RaiseEco, world, history
<1>7. CASE EcoRaised
  <2>1. PICK ok \in Outcomes : Lands("eco", ev.to, ok)
    BY <1>7 DEF EcoRaised
  <2>2. temp'["boost"] = temp["boost"]
    BY <1>7, <2>1, LandsIs DEF EcoRaised, EvT, WorldT, Presets, Outcomes
  <2> QED
    BY <1>7, <2>2, BoostAside DEF EcoRaised, history
<1>8. CASE RestoreEco
  BY <1>8, BoostAside DEF RestoreEco, world, memory, history
<1>9. CASE EcoRestored
  <2>1. PICK ok \in Outcomes : Lands("eco", ev.to, ok) /\ slip' = GivenBack("eco", ok)
    BY <1>9 DEF EcoRestored
  <2>2. temp'["boost"] = temp["boost"]
    BY <1>9, <2>1, LandsIs DEF EcoRestored, EvT, WorldT, Presets, Outcomes
  <2>3. slip'["boost"] = slip["boost"]
    BY <2>1 DEF GivenBack, HistoryT
  <2> QED
    BY <1>9, <2>2, <2>3, BoostAside DEF EcoRestored
<1>10. CASE LeaveEco
  BY <1>10, BoostAside DEF LeaveEco, world, HistoryT
<1>11. CASE NoSetback
  BY <1>11, BoostAside DEF NoSetback, world, memory, history
<1>12. CASE EndEvaluation
  BY <1>12, BoostAside DEF EndEvaluation, world, memory, history
<1> QED
  BY <1>1, <1>2, <1>3, <1>4, <1>5, <1>6, <1>7, <1>8, <1>9, <1>10, <1>11, <1>12 DEF Evaluation

LEMMA BoostingBoost == ASSUME TypesInv, BoostKept, Boosting PROVE BoostKept'
<1> USE DEF TypesInv
<1>1. CASE BoostWritten
  <2>1. PICK ok \in Outcomes :
           /\ Lands("boost", svc.to, ok)
           /\ wish' = [on |-> TRUE, restore |-> IF ok THEN svc.prev ELSE None]
           /\ slip' = IF ok /\ there /\ svc.prev = None THEN [slip EXCEPT !.boost = "away"] ELSE slip
    BY <1>1 DEF BoostWritten
  <2>2. ok \in BOOLEAN /\ svc.to \in Nat
    BY <1>1 DEF Outcomes, BoostWritten, CallsT
  <2>3. temp'["boost"] = IF ok /\ there THEN svc.to ELSE temp["boost"]
    BY <2>1, <2>2, LandsIs DEF WorldT, Presets
  <2>4. svc.pc = "writing" /\ svc'.pc = "calling" /\ UNCHANGED <<active, restores, home>>
    BY <1>1 DEF BoostWritten, CallsT, Calls
  <2>5. slip'["boost"] = "none" => slip["boost"] = "none" /\ ~(ok /\ there /\ svc.prev = None)
    BY <2>1, <2>2 DEF HistoryT
  <2>6. wish'.restore = IF ok THEN svc.prev ELSE None
    BY <2>1
  <2> QED
    BY <2>2, <2>3, <2>4, <2>5, <2>6 DEF BoostKept
<1>2. CASE BoostCalled
  <2>1. UNCHANGED <<restores, home, temp>> /\ OnBoostStart /\ svc.pc = "calling" /\ svc' = Done
    BY <1>2 DEF BoostCalled
  <2> QED
    BY <2>1, BoostStarts
<1>3. CASE BoostProlonged
  <2>1. slip'["boost"] = "none" => slip["boost"] = "none" /\ ~(active = None /\ wish.restore # None)
    BY <1>3 DEF BoostProlonged, HistoryT
  <2> QED
    BY <1>3, <2>1 DEF BoostProlonged, memory, Done, BoostKept
<1>4. CASE BoostCalledAway
  <2>1. slip'["boost"] = "none" => slip["boost"] = "none" /\ wish.restore = None
    BY <1>4 DEF BoostCalledAway, HistoryT
  <2> QED
    BY <1>4, <2>1 DEF BoostCalledAway, world, memory, Done, BoostKept
<1>5. CASE BoostRaises
  <2>1. slip'["boost"] = "none" => slip["boost"] = "none" /\ wish.restore \in {None, home["boost"]}
    BY <1>5 DEF BoostRaises, Nested, HistoryT
  <2>2. IF wish.restore = None THEN svc'.pc = "none" ELSE svc'.pc = "undoing" /\ svc'.to = wish.restore
    BY <1>5 DEF BoostRaises, Done, CallsT, Calls
  <2> QED
    <3>1. svc.pc = "calling" /\ UNCHANGED <<temp, home, active, restores>>
      BY <1>5 DEF BoostRaises, world, memory
    <3> QED
      BY <2>1, <2>2, <3>1 DEF BoostKept
<1>6. CASE BoostUndone
  <2>1. PICK ok \in Outcomes : Lands("boost", svc.to, ok) /\ slip' = GivenBack("boost", ok)
    BY <1>6 DEF BoostUndone
  <2>2. ok \in BOOLEAN /\ svc.to \in Nat
    BY <1>6 DEF Outcomes, BoostUndone, CallsT
  <2>3. temp'["boost"] = IF ok /\ there THEN svc.to ELSE temp["boost"]
    BY <2>1, <2>2, LandsIs DEF WorldT, Presets
  <2>4. slip'["boost"] = "none" => ok /\ there /\ slip["boost"] = "none"
    BY <2>1, <2>2 DEF GivenBack, HistoryT
  <2> QED
    BY <1>6, <2>3, <2>4 DEF BoostUndone, Done, BoostKept
<1>7. CASE BoostEnds
  <2>1. CASE there
    BY <1>7, <2>1 DEF BoostEnds, PutBack, history, BoostKept
  <2>2. CASE ~there
    BY <1>7, <2>2, BoostAside DEF BoostEnds, history
  <2> QED
    BY <2>1, <2>2
<1>8. CASE TimeIsUp
  BY <1>8, BoostAside DEF TimeIsUp, world, memory, history
<1>9. CASE LateRestore
  BY <1>9 DEF LateRestore, PutBack, world, history, BoostKept
<1>10. ASSUME NEW v \in restores, BoostRestored(v) PROVE BoostKept'
  <2>1. PICK ok \in Outcomes : Lands("boost", v, ok) /\ slip' = GivenBack("boost", ok)
    BY <1>10 DEF BoostRestored
  <2>2. ok \in BOOLEAN /\ v \in Nat
    BY <1>10 DEF Outcomes, CallsT
  <2>3. temp'["boost"] = IF ok /\ there THEN v ELSE temp["boost"]
    BY <2>1, <2>2, LandsIs DEF WorldT, Presets
  <2>4. slip'["boost"] = "none" => ok /\ there /\ slip["boost"] = "none"
    BY <2>1, <2>2 DEF GivenBack, HistoryT
  <2>5. restores' = restores \ {v} /\ UNCHANGED <<active, svc, wish, home>>
    BY <1>10 DEF BoostRestored
  <2> QED
    BY <2>3, <2>4, <2>5 DEF BoostKept
<1> QED
  BY <1>1, <1>2, <1>3, <1>4, <1>5, <1>6, <1>7, <1>8, <1>9, <1>10 DEF Boosting

LEMMA PeopleBoost == ASSUME TypesInv, BoostKept, People PROVE BoostKept'
<1> USE DEF TypesInv
<1>1. ASSUME NEW v \in Wishes, HearthBoost(v) PROVE BoostKept'
  BY <1>1 DEF HearthBoost, world, memory, history, BoostKept
<1>2. ASSUME NEW p \in Presets, NEW v \in Edits[p], PersonEdits(p, v) PROVE BoostKept'
  <2>1. UNCHANGED <<active, restores, svc, wish>>
    BY <1>2 DEF PersonEdits, memory
  <2>2. CASE p = "boost"
    <3>1. temp'["boost"] = v /\ home'["boost"] = v
      BY <1>2, <2>2 DEF PersonEdits, WorldT, HistoryT
    <3>2. slip'["boost"] = "none" => active = None /\ restores = {} /\ svc.pc = "none"
      BY <1>2, <2>2 DEF PersonEdits, Borrowed, HistoryT
    <3> QED
      BY <2>1, <3>1, <3>2 DEF BoostKept
  <2>3. CASE p # "boost"
    <3>1. UNCHANGED <<home["boost"], slip["boost"], temp["boost"]>>
      BY <1>2, <2>3 DEF PersonEdits, WorldT, HistoryT, Presets
    <3> QED
      BY <2>1, <3>1, BoostAside
  <2> QED
    BY <2>2, <2>3
<1>3. ASSUME NEW k \in {"adaptive", "setback"}, Flip(k) PROVE BoostKept'
  BY <1>3, BoostAside DEF Flip, memory, history
<1>4. CASE PersonBoosts
  <2>1. UNCHANGED <<restores, home, temp, svc>> /\ OnBoostStart
    BY <1>4 DEF PersonBoosts
  <2> QED
    BY <2>1, BoostStarts
<1>5. CASE PersonEndsBoost
  BY <1>5, BoostAside DEF PersonEndsBoost, memory, history
<1>6. CASE Recompute
  BY <1>6, BoostAside DEF Recompute, world, memory, history
<1>7. CASE Reload
  BY <1>7 DEF Reload, memory, BoostKept
<1>8. CASE Crash
  <2>1. restores' = {} /\ svc'.pc = "none" /\ UNCHANGED <<temp, home>> /\ active' = saved.active
    BY <1>8 DEF Crash, world, Done
  <2>2. slip'["boost"] = "none" => slip["boost"] = "none" /\ ~Borrowed /\ saved.active = None
    BY <1>8 DEF Crash
  <2> QED
    BY <2>1, <2>2 DEF BoostKept, Borrowed
<1> QED
  BY <1>1, <1>2, <1>3, <1>4, <1>5, <1>6, <1>7, <1>8 DEF People

LEMMA AroundBoost == ASSUME TypesInv, BoostKept, Around PROVE BoostKept'
<1> USE DEF TypesInv
<1>1. CASE StandDownEnds
  BY <1>1, BoostAside DEF StandDownEnds, world, memory, history
<1>2. CASE TargetMoves
  BY <1>2, BoostAside DEF TargetMoves, memory
<1>3. CASE ScopeChanges
  BY <1>3, BoostAside DEF ScopeChanges, memory, history
<1>4. CASE VThermGone
  BY <1>4, BoostAside DEF VThermGone, memory, history
<1>5. CASE VThermBack
  <2>1. CASE OnBoostStart
    <3>1. UNCHANGED <<restores, home, temp, svc>>
      BY <1>5 DEF VThermBack
    <3> QED
      BY <2>1, <3>1, BoostStarts
  <2>2. CASE UNCHANGED <<wish, active, slip>>
    BY <1>5, <2>2, BoostAside DEF VThermBack
  <2> QED
    BY <1>5, <2>1, <2>2 DEF VThermBack
<1>6. CASE Tick
  BY <1>6 DEF Tick, Settled, memory, history, BoostKept
<1> QED
  BY <1>1, <1>2, <1>3, <1>4, <1>5, <1>6 DEF Around

LEMMA BoostAlways == Spec => []BoostKept
<1>1. Init => BoostKept
  BY DEF Init, BoostKept, Done
<1>2. ASSUME TypesInv, BoostKept, [Next]_vars PROVE BoostKept'
  <2>1. CASE UNCHANGED vars
    BY <1>2, <2>1, BoostAside DEF vars, world, memory, history, tasks
  <2> QED
    BY <1>2, <2>1, EvaluationBoost, BoostingBoost, PeopleBoost, AroundBoost DEF Next
<1> QED
  BY <1>1, <1>2, TypesAlways, PTL DEF Spec

(***************************************************************************)
(* D61: the boost temperature that no boost has any more is what it was,   *)
(* or has become, without any, but for the slips.                          *)
(***************************************************************************)
THEOREM BoostHolds == Spec => []BoostIsGivenBack
<1>1. BoostKept => BoostIsGivenBack
  BY DEF BoostKept, BoostIsGivenBack, Settled, Borrowed
<1> QED
  BY <1>1, BoostAlways, PTL

-----------------------------------------------------------------------------
(***************************************************************************)
(* The targets.  Unless an evaluation is due, what the adaptive write owes *)
(* is written, or the one under way has it before it; and a boost that has *)
(* just been asked for will ask for an evaluation.                         *)
(***************************************************************************)
Ahead(p) ==
  \/ ev.pc = "start"
  \/ ev.pc \in {"adaptive", "writing"} /\ p \in ev.todo
  \/ ev.pc = "writing" /\ p = ev.p
  \/ p = "boost" /\ svc.pc \in {"calling", "undoing"}

Owed ==
  ~due =>
    /\ ev.pc = "writing" => ev.to = Target(ev.p)
    /\ Adapts(dormant, down) /\ there => \A p \in affected : last[p] = Target(p) \/ p \in failed \/ Ahead(p)

LEMMA OwedAsBefore ==
  ASSUME Owed, UNCHANGED <<wants, there, affected, offset, dormant, down, due, failed>>,
         \A p \in affected : last'[p] = last[p],
         ev'.pc = "writing" => ev.pc = "writing" /\ ev'.to = ev.to /\ ev'.p = ev.p,
         \A p \in affected : Ahead(p) => Ahead(p)'
  PROVE  Owed'
BY DEF Owed, Adapts, Target

LEMMA SetbackWrites ==
  ASSUME TypesInv, EcoRaised \/ EcoRestored
  PROVE  \A p \in affected : last'[p] = last[p]
<1>1. PICK ok \in Outcomes : Wrote("eco", ev.to, ok)
  BY DEF EcoRaised, EcoRestored
<1>2. ok \in BOOLEAN /\ ev.to \in Nat /\ last \in [Presets -> Temps]
  BY DEF EcoRaised, EcoRestored, TypesInv, EvT, MemoryT, Outcomes
<1>3. \A q \in Presets \ {"eco"} : last'[q] = last[q]
  BY <1>1, <1>2, WroteIs DEF Presets
<1> QED
  BY <1>3 DEF TypesInv, WorldT, Presets

LEMMA EvaluationOwed == ASSUME TypesInv, Owed, Evaluation PROVE Owed'
<1> USE DEF TypesInv
<1>1. CASE Ask
  <2>1. ev'.pc = "start"
    BY <1>1, EnterIs DEF Ask, WorldT
  <2> QED
    BY <2>1 DEF Owed, Ahead
<1>2. CASE Start
  <2>1. UNCHANGED <<affected, offset, last, failed, due, wants, there, dormant, down, svc>> /\ ev.pc = "start"
    BY <1>2 DEF Start, world, room, memory, history
  <2>2. CASE Adapts(dormant, down)
    <3>1. ev'.pc = "adaptive" /\ ev'.todo = affected
      BY <1>2, <2>2 DEF Start, EvT, Evs
    <3> QED
      BY <2>1, <3>1 DEF Owed, Ahead
  <2>3. CASE ~Adapts(dormant, down)
    <3>1. ev'.pc = "setback"
      BY <1>2, <2>3 DEF Start, EvT, Evs
    <3> QED
      BY <2>1, <2>3, <3>1 DEF Owed, Adapts
  <2> QED
    BY <2>2, <2>3
<1>3. CASE WriteReturns
  <2>1. PICK ok \in Outcomes :
           /\ Wrote(ev.p, ev.to, ok)
           /\ failed' = IF ok THEN failed \ {ev.p} ELSE failed \cup {ev.p}
    BY <1>3 DEF WriteReturns
  <2>2. ok \in BOOLEAN /\ ev.to \in Nat /\ ev.p \in Presets /\ ev \in Evs
    BY <1>3 DEF Outcomes, WriteReturns, EvT, Evs
  <2>3. /\ \A q \in Presets \ {ev.p} : last'[q] = last[q]
        /\ last'[ev.p] = IF ok THEN ev.to ELSE last[ev.p]
    BY <2>1, <2>2, WroteIs DEF MemoryT
  <2>4. ev'.pc = (IF ev.todo = {} THEN "setback" ELSE "adaptive") /\ ev'.todo = ev.todo
    BY <1>3, <2>2, OnwardsIs DEF WriteReturns
  <2>5. UNCHANGED <<affected, offset, due, wants, there, dormant, down, svc>> /\ ev.pc = "writing"
    BY <1>3 DEF WriteReturns, room
  <2>6. ASSUME ~due, Adapts(dormant, down), there, NEW p \in affected
        PROVE  last'[p] = Target(p) \/ p \in failed' \/ Ahead(p)'
    <3>1. ev.to = Target(ev.p) /\ (last[p] = Target(p) \/ p \in failed \/ Ahead(p))
      BY <2>5, <2>6 DEF Owed
    <3>2. CASE p = ev.p
      BY <2>1, <2>3, <3>1, <3>2
    <3>3. CASE p # ev.p
      <4>1. p \in Presets
        BY DEF WorldT, Presets
      <4>2. last'[p] = last[p] /\ (p \in failed => p \in failed')
        BY <2>1, <2>3, <3>3, <4>1
      <4>3. Ahead(p) => Ahead(p)'
        BY <2>4, <2>5, <3>3 DEF Ahead
      <4> QED
        BY <3>1, <4>2, <4>3
    <3> QED
      BY <3>2, <3>3
  <2> QED
    BY <2>4, <2>5, <2>6 DEF Owed, Adapts, Target
<1>4. ASSUME NEW p \in Presets, Consider(p) PROVE Owed'
  <2>1. /\ UNCHANGED <<affected, offset, due, wants, there, dormant, down, svc>>
        /\ ev.pc = "adaptive" /\ p \in ev.todo /\ ev \in Evs /\ p \in affected
    BY <1>4 DEF Consider, world, room, EvT
  <2>2. /\ \A q \in Presets \ {p} : last'[q] = last[q] /\ (q \in failed => q \in failed')
        /\ (last'[p] = last[p] /\ failed' = failed) \/ last'[p] = Target(p)
    BY <1>4 DEF Consider, MemoryT
  <2>3. CASE Shown(p) = None \/ Unmoved(p) \/ Already(p)
    <3> DEFINE e == [ev EXCEPT !.todo = @ \ {p}]
    <3>1. e \in Evs /\ e.todo = ev.todo \ {p} /\ ev' = Onwards(e)
      BY <1>4, <2>1, <2>3 DEF Consider, Evs
    <3> HIDE DEF e
    <3>2. ev'.todo = ev.todo \ {p} /\ ev'.pc = IF ev.todo \ {p} = {} THEN "setback" ELSE "adaptive"
      BY <3>1, OnwardsIs
    <3>3. there => last'[p] = Target(p)
      <4>1. there => Shown(p) # None
        BY DEF Shown, WorldT, None
      <4>2. Already(p) => last'[p] = Target(p)
        BY <1>4 DEF Consider, MemoryT
      <4>3. Unmoved(p) => last'[p] = Target(p)
        BY <2>2 DEF Unmoved
      <4> QED
        BY <2>3, <4>1, <4>2, <4>3
    <3>4. ASSUME ~due, Adapts(dormant, down), there, NEW q \in affected
          PROVE  last'[q] = Target(q) \/ q \in failed' \/ Ahead(q)'
      <4>1. q \in Presets
        BY DEF WorldT, Presets
      <4>2. last[q] = Target(q) \/ q \in failed \/ Ahead(q)
        BY <3>4 DEF Owed
      <4>3. q # p => (Ahead(q) => Ahead(q)')
        BY <2>1, <3>2 DEF Ahead
      <4> QED
        BY <2>2, <3>3, <3>4, <4>1, <4>2, <4>3
    <3> QED
      BY <2>1, <3>2, <3>4 DEF Owed, Adapts, Target
  <2>4. CASE ~(Shown(p) = None \/ Unmoved(p) \/ Already(p))
    <3>1. Target(p) \in Nat
      BY <2>1, TargetIs
    <3>2. ev' = [ev EXCEPT !.pc = "writing", !.todo = @ \ {p}, !.p = p, !.to = Target(p)]
      BY <1>4, <2>4 DEF Consider
    <3>3. ev'.pc = "writing" /\ ev'.todo = ev.todo \ {p} /\ ev'.p = p /\ ev'.to = Target(p)
      BY <2>1, <3>2 DEF Evs
    <3>4. UNCHANGED <<last, failed>>
      BY <1>4, <2>4 DEF Consider
    <3>5. \A q \in affected : Ahead(q) => Ahead(q)'
      BY <2>1, <3>3 DEF Ahead
    <3> QED
      BY <2>1, <3>3, <3>4, <3>5 DEF Owed, Adapts, Target
  <2> QED
    BY <2>3, <2>4
<1>5. CASE DecideSetback
  BY <1>5, OwedAsBefore DEF DecideSetback, Ahead, world, room, history, EvT, Evs
<1>6. CASE RaiseEco
  <2>1. ev'.pc = "raising"
    BY <1>6 DEF RaiseEco, EvT, Evs
  <2> QED
    BY <1>6, <2>1, OwedAsBefore DEF RaiseEco, Ahead, world, room, history
<1>7. CASE EcoRaised
  <2>1. \A p \in affected : last'[p] = last[p]
    BY <1>7, SetbackWrites
  <2>2. ev'.pc = "rest"
    BY <1>7 DEF EcoRaised, EvT, Evs
  <2> QED
    BY <1>7, <2>1, <2>2, OwedAsBefore DEF EcoRaised, Ahead, room, history
<1>8. CASE RestoreEco
  <2>1. ev'.pc = "restoring"
    BY <1>8 DEF RestoreEco, EvT, Evs
  <2> QED
    BY <1>8, <2>1, OwedAsBefore DEF RestoreEco, Ahead, world, room, memory, history
<1>9. CASE EcoRestored
  <2>1. \A p \in affected : last'[p] = last[p]
    BY <1>9, SetbackWrites
  <2>2. ev'.pc = "rest"
    BY <1>9 DEF EcoRestored, EvT, Evs
  <2> QED
    BY <1>9, <2>1, <2>2, OwedAsBefore DEF EcoRestored, Ahead, room
<1>10. CASE LeaveEco
  <2>1. ev'.pc = "rest"
    BY <1>10 DEF LeaveEco, EvT, Evs
  <2> QED
    BY <1>10, <2>1, OwedAsBefore DEF LeaveEco, Ahead, world, room
<1>11. CASE NoSetback
  BY <1>11, OwedAsBefore DEF NoSetback, Ahead, world, room, memory, history, EvT, Evs
<1>12. CASE EndEvaluation
  BY <1>12, OwedAsBefore DEF EndEvaluation, Ahead, world, room, memory, history, Idle
<1> QED
  BY <1>1, <1>2, <1>3, <1>4, <1>5, <1>6, <1>7, <1>8, <1>9, <1>10, <1>11, <1>12 DEF Evaluation

LEMMA BoostingOwed == ASSUME TypesInv, Owed, Boosting PROVE Owed'
<1> USE DEF TypesInv
<1>1. CASE BoostWritten
  <2>1. PICK ok \in Outcomes : Wrote("boost", svc.to, ok)
    BY <1>1 DEF BoostWritten
  <2>2. \A p \in affected : p = "boost" \/ last'[p] = last[p]
    BY <1>1, <2>1, WroteIs DEF BoostWritten, Outcomes, CallsT, MemoryT, WorldT, Presets
  <2>3. svc'.pc = "calling" /\ UNCHANGED <<wants, there, affected, offset, dormant, down, due, failed, ev>>
    BY <1>1 DEF BoostWritten, room, CallsT, Calls
  <2> QED
    BY <2>2, <2>3 DEF Owed, Ahead, Adapts, Target
<1>2. CASE BoostCalled
  BY <1>2 DEF BoostCalled, OnBoostStart, Owed
<1>3. CASE BoostProlonged
  BY <1>3 DEF BoostProlonged, Owed
<1>4. CASE BoostCalledAway
  BY <1>4 DEF BoostCalledAway, Owed
<1>5. CASE BoostRaises
  BY <1>5 DEF BoostRaises, Owed
<1>6. CASE BoostUndone
  BY <1>6 DEF BoostUndone, Owed
<1>7. CASE BoostEnds
  BY <1>7 DEF BoostEnds, history, Owed, Ahead, Target
<1>8. CASE TimeIsUp
  BY <1>8 DEF TimeIsUp, Owed
<1>9. CASE LateRestore
  BY <1>9 DEF LateRestore, Owed
<1>10. ASSUME NEW v \in restores, BoostRestored(v) PROVE Owed'
  BY <1>10 DEF BoostRestored, Owed
<1> QED
  BY <1>1, <1>2, <1>3, <1>4, <1>5, <1>6, <1>7, <1>8, <1>9, <1>10 DEF Boosting

LEMMA PeopleOwed == ASSUME TypesInv, Owed, People PROVE Owed'
<1> USE DEF TypesInv
<1>1. ASSUME NEW v \in Wishes, HearthBoost(v) PROVE Owed'
  <2>1. svc.pc = "none" /\ UNCHANGED <<wants, there, affected, offset, dormant, down, due, failed, ev, last>>
    BY <1>1 DEF HearthBoost, world, room, memory, history
  <2> QED
    BY <2>1 DEF Owed, Ahead, Adapts, Target
<1>2. ASSUME NEW p \in Presets, NEW v \in Edits[p], PersonEdits(p, v) PROVE Owed'
  BY <1>2 DEF PersonEdits, Owed
<1>3. ASSUME NEW k \in {"adaptive", "setback"}, Flip(k) PROVE Owed'
  BY <1>3 DEF Flip, Owed
<1>4. CASE PersonBoosts
  BY <1>4 DEF PersonBoosts, OnBoostStart, Owed
<1>5. CASE PersonEndsBoost
  BY <1>5 DEF PersonEndsBoost, Owed
<1>6. CASE Recompute
  <2>1. CASE ev.pc = "idle"
    <3>1. ev'.pc = "start"
      BY <1>6, <2>1, EnterIs DEF Recompute, WorldT
    <3> QED
      BY <3>1 DEF Owed, Ahead
  <2>2. CASE ev.pc # "idle"
    BY <1>6, <2>2 DEF Recompute, Owed
  <2> QED
    BY <2>1, <2>2
<1>7. CASE Reload
  BY <1>7 DEF Reload, Owed
<1>8. CASE Crash
  BY <1>8 DEF Crash, Owed
<1> QED
  BY <1>1, <1>2, <1>3, <1>4, <1>5, <1>6, <1>7, <1>8 DEF People

LEMMA AroundOwed == ASSUME Around PROVE Owed'
<1> SUFFICES due'
  BY DEF Owed
<1> QED
  BY DEF Around, StandDownEnds, TargetMoves, ScopeChanges, VThermGone, VThermBack, OnBoostStart, Tick

LEMMA OwedAlways == Spec => []Owed
<1>1. Init => Owed
  BY DEF Init, Owed
<1>2. ASSUME TypesInv, Owed, [Next]_vars PROVE Owed'
  <2>1. CASE UNCHANGED vars
    BY <1>2, <2>1, OwedAsBefore DEF vars, world, room, memory, history, tasks, Ahead
  <2> QED
    BY <1>2, <2>1, EvaluationOwed, BoostingOwed, PeopleOwed, AroundOwed DEF Next
<1> QED
  BY <1>1, <1>2, TypesAlways, PTL DEF Spec

(***************************************************************************)
(* Once all is settled the target is what was written last, unless the     *)
(* last write raised.                                                      *)
(***************************************************************************)
THEOREM WrittenHolds == Spec => []TargetIsWritten
<1>1. Owed => TargetIsWritten
  BY DEF Owed, TargetIsWritten, Settled, Ahead
<1> QED
  BY <1>1, OwedAlways, PTL

-----------------------------------------------------------------------------
(***************************************************************************)
(* An edit that is to stand is of a preset whose target has been written.  *)
(* A write of it that is not forced is on its way only when that record is *)
(* lost, and it is one of the target that now is.                          *)
(***************************************************************************)
Lost(p) == met[p] \in {"boosted", "crash"}

Standing ==
  /\ \A p \in {"comfort", "boost"} : met[p] = "yes" => last[p] = Target(p)
  /\ \A p \in stands : /\ met[p] # "no"
                       /\ ev.pc = "writing" /\ ev.p = p => ev.to = Target(p) /\ (ev.force \/ Lost(p))

LEMMA StandingAside ==
  ASSUME Standing, UNCHANGED <<offset, stands, met>>,
         \A p \in {"comfort", "boost"} : last'[p] = last[p],
         ev' = ev \/ ev'.pc # "writing"
  PROVE  Standing'
<1>1. ASSUME NEW p \in {"comfort", "boost"} PROVE met'[p] = "yes" => last'[p] = Target(p)'
  BY DEF Standing, Target
<1>2. ASSUME NEW p \in stands'
      PROVE  met'[p] # "no" /\ (ev'.pc = "writing" /\ ev'.p = p => ev'.to = Target(p)' /\ (ev'.force \/ Lost(p)'))
  BY DEF Standing, Target, Lost
<1> QED
  BY <1>1, <1>2 DEF Standing

LEMMA SetbackLeaves ==
  ASSUME TypesInv, EcoRaised \/ EcoRestored
  PROVE  \A p \in {"comfort", "boost"} : last'[p] = last[p]
<1>1. PICK ok \in Outcomes : Wrote("eco", ev.to, ok)
  BY DEF EcoRaised, EcoRestored
<1>2. ok \in BOOLEAN /\ ev.to \in Nat /\ last \in [Presets -> Temps]
  BY DEF EcoRaised, EcoRestored, TypesInv, EvT, MemoryT, Outcomes
<1> QED
  BY <1>1, <1>2, WroteIs DEF Presets

LEMMA EvaluationStanding == ASSUME TypesInv, Standing, Evaluation PROVE Standing'
<1> USE DEF TypesInv
<1>1. CASE Ask
  <2>1. ev'.pc = "start"
    BY <1>1, EnterIs DEF Ask, WorldT
  <2> QED
    BY <1>1, <2>1, StandingAside DEF Ask, world, memory, history
<1>2. CASE Start
  BY <1>2, StandingAside DEF Start, world, memory, history, EvT, Evs
<1>3. CASE WriteReturns
  <2>1. PICK ok \in Outcomes :
           /\ Wrote(ev.p, ev.to, ok)
           /\ met' = IF ok THEN [met EXCEPT ![ev.p] = IF ev.to = Target(ev.p) THEN "yes" ELSE "no"] ELSE met
           /\ stands' = IF ok /\ there THEN stands \ {ev.p} ELSE stands
    BY <1>3 DEF WriteReturns
  <2>2. ok \in BOOLEAN /\ ev.to \in Nat /\ ev.p \in {"comfort", "boost"}
    BY <1>3 DEF Outcomes, WriteReturns, EvT, WorldT
  <2>3. /\ \A q \in Presets \ {ev.p} : last'[q] = last[q]
        /\ last'[ev.p] = IF ok THEN ev.to ELSE last[ev.p]
    BY <2>1, <2>2, WroteIs DEF MemoryT, Presets
  <2>4. ev'.pc # "writing" /\ ev.pc = "writing" /\ UNCHANGED offset
    BY <1>3, OnwardsIs DEF WriteReturns, EvT
  <2>5. \A q \in {"comfort", "boost"} \ {ev.p} : met'[q] = met[q]
    BY <2>1, <2>2 DEF HistoryT
  <2>6. met'[ev.p] = IF ok THEN (IF ev.to = Target(ev.p) THEN "yes" ELSE "no") ELSE met[ev.p]
    BY <2>1, <2>2 DEF HistoryT
  <2>7. ASSUME NEW p \in {"comfort", "boost"}, met'[p] = "yes" PROVE last'[p] = Target(p)'
    BY <2>2, <2>3, <2>4, <2>5, <2>6, <2>7 DEF Standing, Target, Presets
  <2>8. ASSUME NEW p \in stands' PROVE met'[p] # "no"
    <3>1. p \in stands /\ p \in {"comfort", "boost"}
      BY <2>1 DEF HistoryT
    <3>2. CASE p = ev.p
      BY <2>4, <2>6, <3>1, <3>2 DEF Standing
    <3>3. CASE p # ev.p
      BY <2>5, <3>1, <3>3 DEF Standing
    <3> QED
      BY <3>2, <3>3
  <2> QED
    BY <2>4, <2>7, <2>8 DEF Standing
<1>4. ASSUME NEW p \in Presets, Consider(p) PROVE Standing'
  <2>1. /\ UNCHANGED <<offset, stands>> /\ ev.pc = "adaptive" /\ ev \in Evs
        /\ p \in affected /\ p \in {"comfort", "boost"}
    BY <1>4 DEF Consider, world, EvT, WorldT
  <2>2. CASE Already(p)
    <3>1. /\ \A q \in Presets \ {p} : last'[q] = last[q] /\ last'[p] = Target(p)
          /\ \A q \in {"comfort", "boost"} \ {p} : met'[q] = met[q]
          /\ met'[p] = "yes"
      BY <1>4, <2>1, <2>2 DEF Consider, MemoryT, HistoryT
    <3>2. ev'.pc # "writing"
      BY <1>4, <2>1, <2>2 DEF Consider, Onwards, Evs
    <3>3. ASSUME NEW q \in {"comfort", "boost"}, met'[q] = "yes" PROVE last'[q] = Target(q)'
      BY <2>1, <3>1, <3>3 DEF Standing, Target, Presets
    <3>4. ASSUME NEW q \in stands' PROVE met'[q] # "no"
      BY <2>1, <3>1 DEF Standing, HistoryT
    <3> QED
      BY <3>2, <3>3, <3>4 DEF Standing
  <2>3. CASE ~Already(p)
    <3>1. UNCHANGED <<last, met>>
      BY <1>4, <2>3 DEF Consider
    <3>2. CASE ev'.pc # "writing"
      BY <2>1, <3>1, <3>2, StandingAside
    <3>3. CASE ev'.pc = "writing"
      <4>1. /\ ev' = [ev EXCEPT !.pc = "writing", !.todo = @ \ {p}, !.p = p, !.to = Target(p)]
            /\ ~Unmoved(p)
        BY <1>4, <2>1, <3>3 DEF Consider, Onwards, Evs
      <4>2. ev'.p = p /\ ev'.to = Target(p) /\ ev'.force = ev.force
        BY <2>1, <4>1 DEF Evs
      <4>3. p \in stands => ev.force \/ Lost(p)
        BY <2>1, <4>1 DEF Unmoved, Standing, Lost, HistoryT, Records
      <4> QED
        BY <2>1, <3>1, <4>2, <4>3 DEF Standing, Target, Lost
    <3> QED
      BY <3>2, <3>3
  <2> QED
    BY <2>2, <2>3
<1>5. CASE DecideSetback
  BY <1>5, StandingAside DEF DecideSetback, world, history, EvT, Evs
<1>6. CASE RaiseEco
  BY <1>6, StandingAside DEF RaiseEco, world, history, EvT, Evs
<1>7. CASE EcoRaised
  <2>1. ev'.pc = "rest" /\ UNCHANGED <<offset, stands, met>>
    BY <1>7 DEF EcoRaised, history, EvT, Evs
  <2> QED
    BY <1>7, <2>1, SetbackLeaves, StandingAside
<1>8. CASE RestoreEco
  BY <1>8, StandingAside DEF RestoreEco, world, memory, history, EvT, Evs
<1>9. CASE EcoRestored
  <2>1. ev'.pc = "rest" /\ UNCHANGED <<offset, stands, met>>
    BY <1>9 DEF EcoRestored, EvT, Evs
  <2> QED
    BY <1>9, <2>1, SetbackLeaves, StandingAside
<1>10. CASE LeaveEco
  BY <1>10, StandingAside DEF LeaveEco, world, EvT, Evs
<1>11. CASE NoSetback
  BY <1>11, StandingAside DEF NoSetback, world, memory, history, EvT, Evs
<1>12. CASE EndEvaluation
  BY <1>12, StandingAside DEF EndEvaluation, world, memory, history, Idle
<1> QED
  BY <1>1, <1>2, <1>3, <1>4, <1>5, <1>6, <1>7, <1>8, <1>9, <1>10, <1>11, <1>12 DEF Evaluation

(***************************************************************************)
(* A write of the boost temperature may lose the record of its target.     *)
(***************************************************************************)
LEMMA BoostWrites ==
  ASSUME TypesInv, Standing, NEW v \in Nat, NEW ok \in Outcomes, Wrote("boost", v, ok), Boosted(v, ok),
         UNCHANGED <<offset, stands, ev>>
  PROVE  Standing'
<1>1. /\ ok \in BOOLEAN /\ last \in [Presets -> Temps] /\ stands \subseteq {"comfort", "boost"}
      /\ met \in [{"comfort", "boost"} -> Records]
  BY DEF Outcomes, TypesInv, MemoryT, HistoryT
<1>2. last'["comfort"] = last["comfort"] /\ last'["boost"] = IF ok THEN v ELSE last["boost"]
  BY <1>1, WroteIs DEF Presets
<1>3. /\ met'["comfort"] = met["comfort"]
      /\ met'["boost"] = "yes" => met["boost"] = "yes" /\ (ok => v = Target("boost"))
      /\ met'["boost"] = "no" <=> met["boost"] = "no"
      /\ met["boost"] \in {"boosted", "crash"} => met'["boost"] \in {"boosted", "crash"}
  BY <1>1, BoostedIs
<1>4. ASSUME NEW p \in {"comfort", "boost"}, met'[p] = "yes" PROVE last'[p] = Target(p)'
  BY <1>2, <1>3, <1>4 DEF Standing, Target
<1>5. ASSUME NEW p \in stands'
      PROVE  met'[p] # "no" /\ (ev'.pc = "writing" /\ ev'.p = p => ev'.to = Target(p)' /\ (ev'.force \/ Lost(p)'))
  BY <1>1, <1>3 DEF Standing, Target, Lost
<1> QED
  BY <1>4, <1>5 DEF Standing

LEMMA BoostingStanding == ASSUME TypesInv, Standing, Boosting PROVE Standing'
<1>1. CASE BoostWritten
  <2>1. svc.to \in Nat
    BY <1>1 DEF BoostWritten, TypesInv, CallsT
  <2> QED
    BY <1>1, <2>1, BoostWrites DEF BoostWritten
<1>2. CASE BoostCalled
  BY <1>2, StandingAside DEF BoostCalled
<1>3. CASE BoostProlonged
  BY <1>3, StandingAside DEF BoostProlonged, memory
<1>4. CASE BoostCalledAway
  BY <1>4, StandingAside DEF BoostCalledAway, world, memory
<1>5. CASE BoostRaises
  BY <1>5, StandingAside DEF BoostRaises, world, memory
<1>6. CASE BoostUndone
  <2>1. svc.to \in Nat
    BY <1>6 DEF BoostUndone, TypesInv, CallsT
  <2> QED
    BY <1>6, <2>1, BoostWrites DEF BoostUndone
<1>7. CASE BoostEnds
  BY <1>7, StandingAside DEF BoostEnds, history
<1>8. CASE TimeIsUp
  BY <1>8, StandingAside DEF TimeIsUp, world, memory, history
<1>9. CASE LateRestore
  BY <1>9, StandingAside DEF LateRestore, world, history
<1>10. ASSUME NEW v \in restores, BoostRestored(v) PROVE Standing'
  <2>1. v \in Nat
    BY DEF TypesInv, CallsT
  <2> QED
    BY <1>10, <2>1, BoostWrites DEF BoostRestored
<1> QED
  BY <1>1, <1>2, <1>3, <1>4, <1>5, <1>6, <1>7, <1>8, <1>9, <1>10 DEF Boosting

LEMMA PeopleStanding == ASSUME TypesInv, Standing, People PROVE Standing'
<1> USE DEF TypesInv
<1>1. ASSUME NEW v \in Wishes, HearthBoost(v) PROVE Standing'
  BY <1>1, StandingAside DEF HearthBoost, world, memory, history
<1>2. ASSUME NEW p \in Presets, NEW v \in Edits[p], PersonEdits(p, v) PROVE Standing'
  <2>1. UNCHANGED <<offset, last, ev, met>>
    BY <1>2 DEF PersonEdits, memory
  <2>2. \A q \in stands' : q \in stands \/ (q = p /\ met[p] # "no" /\ ~(ev.pc = "writing" /\ ev.p = p))
    BY <1>2 DEF PersonEdits
  <2>3. ASSUME NEW q \in stands'
        PROVE  met'[q] # "no" /\ (ev'.pc = "writing" /\ ev'.p = q => ev'.to = Target(q)' /\ (ev'.force \/ Lost(q)'))
    BY <2>1, <2>2 DEF Standing, Target, Lost
  <2>4. ASSUME NEW q \in {"comfort", "boost"} PROVE met'[q] = "yes" => last'[q] = Target(q)'
    BY <2>1 DEF Standing, Target
  <2> QED
    BY <2>3, <2>4 DEF Standing
<1>3. ASSUME NEW k \in {"adaptive", "setback"}, Flip(k) PROVE Standing'
  BY <1>3, StandingAside DEF Flip, memory, history
<1>4. CASE PersonBoosts
  BY <1>4, StandingAside DEF PersonBoosts
<1>5. CASE PersonEndsBoost
  BY <1>5, StandingAside DEF PersonEndsBoost, memory, history
<1>6. CASE Recompute
  <2>1. ev' = ev \/ ev'.pc = "start"
    BY <1>6, EnterIs DEF Recompute, WorldT
  <2> QED
    BY <1>6, <2>1, StandingAside DEF Recompute, world, memory, history
<1>7. CASE Reload
  BY <1>7, StandingAside DEF Reload, memory
<1>8. CASE Crash
  <2>1. /\ ev'.pc = "idle" /\ last' = saved.last /\ UNCHANGED <<offset, stands>>
        /\ \A p \in {"comfort", "boost"} : met'[p] = Loses(p, saved.last[p], "crash")
    BY <1>8 DEF Crash, Idle, world
  <2>2. ASSUME NEW p \in {"comfort", "boost"}
        PROVE  (met'[p] = "yes" => last'[p] = Target(p)') /\ (met[p] # "no" => met'[p] # "no")
    <3>1. /\ Loses(p, saved.last[p], "crash") = "yes" => saved.last[p] = Target(p)
          /\ Loses(p, saved.last[p], "crash") = "no" => met[p] = "no"
      BY LosesIs DEF HistoryT
    <3>2. met'[p] = Loses(p, saved.last[p], "crash") /\ Target(p)' = Target(p)
      BY <2>1 DEF Target
    <3> QED
      BY <2>1, <3>1, <3>2
  <2> QED
    BY <2>1, <2>2 DEF Standing, HistoryT
<1> QED
  BY <1>1, <1>2, <1>3, <1>4, <1>5, <1>6, <1>7, <1>8 DEF People

LEMMA AroundStanding == ASSUME TypesInv, Standing, Around PROVE Standing'
<1> USE DEF TypesInv
<1>1. CASE StandDownEnds
  BY <1>1, StandingAside DEF StandDownEnds, world, memory, history
<1>2. CASE TargetMoves
  <2>1. /\ stands' = {} /\ last' = last
        /\ met' = [p \in {"comfort", "boost"} |-> IF last[p] = Target(p)' THEN "yes" ELSE "no"]
    BY <1>2 DEF TargetMoves, memory
  <2>2. ASSUME NEW p \in {"comfort", "boost"}, met'[p] = "yes" PROVE last'[p] = Target(p)'
    BY <2>1, <2>2
  <2> QED
    BY <2>1, <2>2 DEF Standing
<1>3. CASE ScopeChanges
  BY <1>3, StandingAside DEF ScopeChanges, memory, history
<1>4. CASE VThermGone
  BY <1>4, StandingAside DEF VThermGone, memory, history
<1>5. CASE VThermBack
  BY <1>5, StandingAside DEF VThermBack
<1>6. CASE Tick
  BY <1>6, StandingAside DEF Tick, memory, history
<1> QED
  BY <1>1, <1>2, <1>3, <1>4, <1>5, <1>6 DEF Around

LEMMA StandingAlways == Spec => []Standing
<1>1. Init => Standing
  BY DEF Init, Standing
<1>2. ASSUME TypesInv, Standing, [Next]_vars PROVE Standing'
  <2>1. CASE UNCHANGED vars
    BY <1>2, <2>1, StandingAside DEF vars, world, memory, history, tasks
  <2> QED
    BY <1>2, <2>1, EvaluationStanding, BoostingStanding, PeopleStanding, AroundStanding DEF Next
<1> QED
  BY <1>1, <1>2, TypesAlways, PTL DEF Spec

(***************************************************************************)
(* D6: what a person set after the target was written stands until the     *)
(* target moves or the write is forced, unless that record was lost to a   *)
(* boost's temperature or to a crash.                                      *)
(***************************************************************************)
THEOREM EditHolds == Spec => EditStands
<1>1. ASSUME TypesInv, Standing, NEW p \in stands, WriteReturns, temp'[p] # temp[p]
      PROVE  ev.force \/ met[p] \in {"boosted", "crash"}
  <2>1. ev.pc = "writing" /\ ev.to \in Nat /\ ev.p \in Presets /\ p \in Presets
    BY <1>1 DEF WriteReturns, TypesInv, EvT, Evs, HistoryT, Presets
  <2>2. ev.p = p
    <3>1. PICK ok \in Outcomes : Lands(ev.p, ev.to, ok)
      BY <1>1 DEF WriteReturns
    <3>2. ok \in BOOLEAN /\ temp \in [Presets -> Nat]
      BY <1>1 DEF Outcomes, TypesInv, WorldT
    <3>3. \A q \in Presets \ {ev.p} : temp'[q] = temp[q]
      BY <2>1, <3>1, <3>2, LandsIs
    <3> QED
      BY <1>1, <2>1, <3>3
  <2> QED
    BY <1>1, <2>1, <2>2 DEF Standing, Lost
<1>2. ASSUME TypesInv, Standing
      PROVE  \A p \in stands :
               WriteReturns /\ temp'[p] # temp[p] => ev.force \/ met[p] \in {"boosted", "crash"}
  BY <1>1, <1>2
<1> QED
  BY <1>2, TypesAlways, StandingAlways, PTL DEF EditStands

=============================================================================
