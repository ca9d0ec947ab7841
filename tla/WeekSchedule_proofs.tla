------------------------ MODULE WeekSchedule_proofs ------------------------
(***************************************************************************)
(* The block in force is the right one and the boundary is honest, for     *)
(* every schedule and calendar, any number of days, and days of any length.*)
(***************************************************************************)
EXTENDS WeekSchedule, TLAPS, WellFoundedInduction

-----------------------------------------------------------------------------
(***************************************************************************)
(* Days and slots.                                                         *)
(***************************************************************************)
LEMMA SlotsPositive == Slots \in Nat /\ Slots > 0
BY WeekAssumption

LEMMA TimesMonotone == ASSUME NEW m \in Int, NEW n \in Int, m < n PROVE m * Slots + Slots <= n * Slots
<1>1. n - 1 - m \in Nat /\ Slots \in Nat
  BY SlotsPositive
<1>2. (n - 1 - m) * Slots >= 0
  BY <1>1
<1> QED
  BY <1>1, <1>2

LEMMA DivBounds ==
  ASSUME NEW a \in Int
  PROVE  a \div Slots \in Int /\ (a \div Slots) * Slots <= a /\ a < (a \div Slots) * Slots + Slots
BY SlotsPositive

LEMMA DayOfSlot ==
  ASSUME NEW day \in Int, NEW slot \in 0..Slots - 1
  PROVE  day * Slots + slot \in Int /\ (day * Slots + slot) \div Slots = day /\ (day * Slots + slot) % Slots = slot
<1> DEFINE a == day * Slots + slot
           q == a \div Slots
<1>1. a \in Int /\ slot \in Int /\ 0 <= slot /\ slot < Slots
  BY SlotsPositive
<1>2. q \in Int /\ q * Slots <= a /\ a < q * Slots + Slots
  BY <1>1, DivBounds
<1>3. q = day
  <2>1. ~(q < day)
    <3> HIDE DEF q
    <3> QED
      BY <1>1, <1>2, TimesMonotone, SlotsPositive
  <2>2. ~(day < q)
    <3> HIDE DEF q
    <3> QED
      BY <1>1, <1>2, TimesMonotone, SlotsPositive
  <2> HIDE DEF q
  <2> QED
    BY <1>2, <2>1, <2>2
<1>4. a % Slots = a - Slots * q
  BY <1>1, SlotsPositive
<1> QED
  BY <1>1, <1>3, <1>4, SlotsPositive

LEMMA DayMonotone == ASSUME NEW a \in Int, NEW b \in Int, a <= b PROVE a \div Slots <= b \div Slots
<1> DEFINE p == a \div Slots
           q == b \div Slots
<1>1. p \in Int /\ q \in Int /\ p * Slots <= a /\ b < q * Slots + Slots
  BY DivBounds
<1>2. ~(q < p)
  <2> HIDE DEF p, q
  <2> QED
    BY <1>1, TimesMonotone, SlotsPositive
<1> HIDE DEF p, q
<1>3. p <= q
  BY <1>1, <1>2
<1> QED
  BY <1>3 DEF p, q

-----------------------------------------------------------------------------
(***************************************************************************)
(* Instances.  Of two blocks of a day one is first, so a moment has one    *)
(* instance at most; and it is there because of what is known of its own   *)
(* day.                                                                    *)
(***************************************************************************)
Occurs(i, off) == \E day \in Int : \E b \in schedule[DayKey(day, off)] : i = Instance(day, b)

LEMMA KeyIs == ASSUME NEW day \in Int, NEW off PROVE DayKey(day, off) \in DayKeys
<1>1. Weekday(day) \in 0..6
  BY DEF Weekday
<1> QED
  BY <1>1 DEF DayKey, DayKeys, Monday, NonWorkday, Saturday

LEMMA BlocksOfDay ==
  ASSUME schedule \in Schedules, NEW day \in Int, NEW off, NEW b \in schedule[DayKey(day, off)]
  PROVE  /\ b \in Blocks /\ b.slot \in 0..Slots - 1
         /\ \A c \in schedule[DayKey(day, off)] : b.slot = c.slot => b = c
<1>1. /\ schedule \in [DayKeys -> SUBSET Blocks]
      /\ \A k \in DayKeys : \A x, y \in schedule[k] : x.slot = y.slot => x = y
  BY WeekAssumption
<1>2. DayKey(day, off) \in DayKeys
  BY KeyIs
<1>3. b \in Blocks
  BY <1>1, <1>2
<1> QED
  BY <1>1, <1>2, <1>3 DEF Blocks

LEMMA InstanceIs ==
  ASSUME schedule \in Schedules, NEW day \in Int, NEW off, NEW b \in schedule[DayKey(day, off)]
  PROVE  LET i == Instance(day, b)
         IN /\ i.start \in Int /\ i.start \div Slots = day /\ i.start % Slots = b.slot
            /\ i = [start |-> day * Slots + b.slot, preset |-> b.preset, warm_by |-> b.warm_by]
            /\ [slot |-> i.start % Slots, preset |-> i.preset, warm_by |-> i.warm_by] \in Blocks
<1>1. b \in Blocks /\ b.slot \in 0..Slots - 1
  BY BlocksOfDay
<1>2. /\ day * Slots + b.slot \in Int /\ (day * Slots + b.slot) \div Slots = day
      /\ (day * Slots + b.slot) % Slots = b.slot
  BY <1>1, DayOfSlot
<1>3. [slot |-> b.slot, preset |-> b.preset, warm_by |-> b.warm_by] = b
  BY <1>1 DEF Blocks
<1> QED
  BY <1>1, <1>2, <1>3 DEF Instance

LEMMA OccursOnItsDay ==
  ASSUME schedule \in Schedules, NEW off, NEW i, Occurs(i, off)
  PROVE  LET day == i.start \div Slots
         IN /\ day \in Int /\ i.start \in Int /\ \E b \in schedule[DayKey(day, off)] : i = Instance(day, b)
            /\ [slot |-> i.start % Slots, preset |-> i.preset, warm_by |-> i.warm_by] \in Blocks
<1>1. PICK day \in Int : \E b \in schedule[DayKey(day, off)] : i = Instance(day, b)
  BY DEF Occurs
<1> QED
  BY <1>1, InstanceIs

LEMMA StartIsInt == ASSUME schedule \in Schedules, NEW off, NEW i, Occurs(i, off) PROVE i.start \in Int
BY OccursOnItsDay

LEMMA OneAtATime ==
  ASSUME schedule \in Schedules, NEW off, NEW i, NEW j, Occurs(i, off), Occurs(j, off), i.start = j.start
  PROVE  i = j
<1> DEFINE day == i.start \div Slots
<1>1. day \in Int
  BY OccursOnItsDay
<1>2. PICK b \in schedule[DayKey(day, off)] : i = Instance(day, b)
  BY OccursOnItsDay
<1>3. PICK c \in schedule[DayKey(day, off)] : j = Instance(day, c)
  <2>1. \E c \in schedule[DayKey(j.start \div Slots, off)] : j = Instance(j.start \div Slots, c)
    BY OccursOnItsDay
  <2> QED
    BY <2>1
<1> HIDE DEF day
<1>4. i.start % Slots = b.slot /\ j.start % Slots = c.slot
  BY <1>1, <1>2, <1>3, InstanceIs
<1> QED
  BY <1>1, <1>2, <1>3, <1>4, BlocksOfDay

Agree(day, off, on) == Midweek(day) => (day \in off <=> day \in on)

LEMMA SameDay ==
  ASSUME schedule \in Schedules, NEW off, NEW on, NEW i, Occurs(i, off), Agree(i.start \div Slots, off, on)
  PROVE  Occurs(i, on)
<1> DEFINE day == i.start \div Slots
<1>1. day \in Int /\ \E b \in schedule[DayKey(day, off)] : i = Instance(day, b)
  BY OccursOnItsDay
<1>2. DayKey(day, off) = DayKey(day, on)
  BY DEF Agree, DayKey
<1> HIDE DEF day
<1> QED
  BY <1>1, <1>2 DEF Occurs

LEMMA BetweenIs ==
  ASSUME schedule \in Schedules, NEW from \in Int, NEW to \in Int, NEW off, NEW i
  PROVE  i \in InstancesBetween(from, to, off) <=> Occurs(i, off) /\ from <= i.start /\ i.start < to
<1>1. ASSUME i \in InstancesBetween(from, to, off)
      PROVE  Occurs(i, off) /\ from <= i.start /\ i.start < to
  <2>1. from \div Slots..to \div Slots \subseteq Int
    BY DivBounds
  <2> QED
    BY <1>1, <2>1 DEF InstancesBetween, Occurs
<1>2. ASSUME Occurs(i, off), from <= i.start, i.start < to
      PROVE  i \in InstancesBetween(from, to, off)
  <2> DEFINE day == i.start \div Slots
  <2>1. day \in Int /\ i.start \in Int
    BY <1>2, OccursOnItsDay
  <2>2. PICK b \in schedule[DayKey(day, off)] : i = Instance(day, b)
    BY <1>2, OccursOnItsDay
  <2>3. from \div Slots <= day /\ day <= to \div Slots
    BY <1>2, <2>1, DayMonotone
  <2>4. day \in from \div Slots..to \div Slots
    BY <2>1, <2>3, DivBounds
  <2> HIDE DEF day
  <2> QED
    BY <1>2, <2>2, <2>4 DEF InstancesBetween
<1> QED
  BY <1>1, <1>2

-----------------------------------------------------------------------------
(***************************************************************************)
(* The first and the latest of a set of instances.                         *)
(***************************************************************************)
LEMMA LeastExists ==
  ASSUME NEW S \in SUBSET Nat, S # {}
  PROVE  \E m \in S : \A n \in S : m <= n
<1>1. PICK m \in S : \A n \in S : ~ (<<n, m>> \in OpToRel(<, Nat))
  BY NatLessThanWellFounded, WFMin
<1>2. ASSUME NEW n \in S
      PROVE  m <= n
  <2>1. n \in Nat /\ m \in Nat
    OBVIOUS
  <2>2. n < m => <<n, m>> \in OpToRel(<, Nat)
    BY <2>1 DEF OpToRel
  <2>3. ~ (<<n, m>> \in OpToRel(<, Nat))
    BY <1>1
  <2>4. ~ (n < m)
    BY <2>2, <2>3
  <2> QED
    BY <2>1, <2>4
<1> QED
  BY <1>2

LEMMA FirstIs ==
  ASSUME NEW from \in Int, NEW S, S # {}, \A i \in S : i.start \in Int /\ from <= i.start
  PROVE  First(S) \in S /\ \A j \in S : First(S).start <= j.start
<1> DEFINE T == {i.start - from : i \in S}
<1>1. T \in SUBSET Nat /\ T # {}
  BY SMT
<1>2. PICK m \in T : \A n \in T : m <= n
  <2> HIDE DEF T
  <2> QED
    BY <1>1, LeastExists
<1>3. PICK i \in S : m = i.start - from
  BY <1>2
<1>4. \A j \in S : i.start <= j.start
  <2> SUFFICES ASSUME NEW j \in S PROVE i.start <= j.start
    OBVIOUS
  <2>1. m <= j.start - from
    BY <1>2
  <2> QED
    BY <1>3, <2>1
<1> QED
  BY <1>4 DEF First

LEMMA LatestIs ==
  ASSUME NEW to \in Int, NEW S, S # {}, \A i \in S : i.start \in Int /\ i.start < to
  PROVE  Latest(S) \in S /\ \A j \in S : j.start <= Latest(S).start
<1> DEFINE T == {to - i.start : i \in S}
<1>1. T \in SUBSET Nat /\ T # {}
  BY SMT
<1>2. PICK m \in T : \A n \in T : m <= n
  <2> HIDE DEF T
  <2> QED
    BY <1>1, LeastExists
<1>3. PICK i \in S : m = to - i.start
  BY <1>2
<1>4. \A j \in S : j.start <= i.start
  <2> SUFFICES ASSUME NEW j \in S PROVE j.start <= i.start
    OBVIOUS
  <2>1. m <= to - j.start
    BY <1>2
  <2> QED
    BY <1>3, <2>1
<1> QED
  BY <1>4 DEF Latest

(***************************************************************************)
(* The latest instance from one time on and before another, or none; and   *)
(* the first.                                                              *)
(***************************************************************************)
IsLatest(i, from, to, off) ==
  /\ Occurs(i, off) /\ i.start \in Int /\ from <= i.start /\ i.start < to
  /\ \A j : Occurs(j, off) /\ from <= j.start /\ j.start < to => j.start <= i.start

IsFirst(i, from, to, off) ==
  /\ Occurs(i, off) /\ i.start \in Int /\ from <= i.start /\ i.start < to
  /\ \A j : Occurs(j, off) /\ from <= j.start /\ j.start < to => i.start <= j.start

IsNone(i, from, to, off) == i = NoBlock /\ \A j : ~(Occurs(j, off) /\ from <= j.start /\ j.start < to)

LEMMA LatestBetween ==
  ASSUME schedule \in Schedules, NEW from \in Int, NEW to \in Int, NEW off
  PROVE  LET i == Latest(InstancesBetween(from, to, off)) IN IsLatest(i, from, to, off) \/ IsNone(i, from, to, off)
<1> DEFINE S == InstancesBetween(from, to, off)
<1>1. \A i : i \in S <=> Occurs(i, off) /\ from <= i.start /\ i.start < to
  BY BetweenIs
<1>2. \A i \in S : i.start \in Int /\ i.start < to
  BY <1>1, OccursOnItsDay
<1> HIDE DEF S
<1>3. S = {} => IsNone(Latest(S), from, to, off)
  BY <1>1 DEF Latest, IsNone
<1>4. ASSUME S # {} PROVE IsLatest(Latest(S), from, to, off)
  <2>1. Latest(S) \in S /\ \A j \in S : j.start <= Latest(S).start
    BY <1>2, <1>4, LatestIs
  <2> QED
    BY <1>1, <1>2, <2>1 DEF IsLatest
<1> QED
  BY <1>3, <1>4 DEF S

LEMMA FirstBetween ==
  ASSUME schedule \in Schedules, NEW from \in Int, NEW to \in Int, NEW off
  PROVE  LET i == First(InstancesBetween(from, to, off)) IN IsFirst(i, from, to, off) \/ IsNone(i, from, to, off)
<1> DEFINE S == InstancesBetween(from, to, off)
<1>1. \A i : i \in S <=> Occurs(i, off) /\ from <= i.start /\ i.start < to
  BY BetweenIs
<1>2. \A i \in S : i.start \in Int /\ from <= i.start
  BY <1>1, OccursOnItsDay
<1> HIDE DEF S
<1>3. S = {} => IsNone(First(S), from, to, off)
  BY <1>1 DEF First, IsNone
<1>4. ASSUME S # {} PROVE IsFirst(First(S), from, to, off)
  <2>1. First(S) \in S /\ \A j \in S : First(S).start <= j.start
    BY <1>2, <1>4, FirstIs
  <2> QED
    BY <1>1, <1>2, <2>1 DEF IsFirst
<1> QED
  BY <1>3, <1>4 DEF S

LatestOf(i, from, to, off) == IsLatest(i, from, to, off) \/ IsNone(i, from, to, off)

AgreeUpTo(start, to, off, on) ==
  \A day \in Int : start \div Slots <= day /\ day <= (to - 1) \div Slots => Agree(day, off, on)

LEMMA LatestAgrees ==
  ASSUME schedule \in Schedules, NEW off, NEW on, NEW i, NEW j, NEW from \in Int, NEW since \in Int, NEW to \in Int,
         IsLatest(i, from, to, off), LatestOf(j, since, to, on), from <= since, since <= i.start,
         AgreeUpTo(i.start, to, off, on)
  PROVE  j = i
<1>1. i.start \in Int /\ i.start <= to - 1 /\ Occurs(i, off)
  BY DEF IsLatest
<1>2. Occurs(i, on)
  <2>1. i.start \div Slots <= (to - 1) \div Slots /\ i.start \div Slots \in Int
    BY <1>1, DayMonotone, DivBounds
  <2>2. Agree(i.start \div Slots, off, on)
    BY <2>1 DEF AgreeUpTo
  <2> QED
    BY <1>1, <2>2, SameDay
<1>3. IsLatest(j, since, to, on) /\ i.start <= j.start
  BY <1>1, <1>2 DEF LatestOf, IsLatest, IsNone
<1>4. Occurs(j, off)
  <2>1. j.start \in Int /\ j.start <= to - 1 /\ Occurs(j, on)
    BY <1>3 DEF IsLatest
  <2>2. /\ i.start \div Slots <= j.start \div Slots /\ j.start \div Slots <= (to - 1) \div Slots
        /\ j.start \div Slots \in Int
    BY <1>1, <1>3, <2>1, DayMonotone, DivBounds
  <2>3. Agree(j.start \div Slots, on, off)
    BY <2>2 DEF AgreeUpTo, Agree
  <2> QED
    BY <2>1, <2>3, SameDay
<1>5. j.start = i.start
  BY <1>3, <1>4 DEF IsLatest
<1> QED
  BY <1>1, <1>4, <1>5, OneAtATime

-----------------------------------------------------------------------------
(***************************************************************************)
(* What the last evaluation left behind.                                   *)
(***************************************************************************)
Derived ==
  /\ known = Off(cache)
  /\ LatestOf(force, at - Window, at + 1, known)
  /\ IsFirst(due, at + 1, at + Window, known) \/ IsNone(due, at + 1, at + Window, known)
  /\ warm = NoBlock \/ (Occurs(warm, known) /\ warm.start \in Int /\ at + 1 <= warm.start)

WeekInv ==
  /\ TypeOK
  /\ cache \subseteq Int /\ \A day \in cache : day <= Today + 2
  /\ at >= 0 => (at = now \/ at = now - 1) /\ Derived

LEMMA Times ==
  ASSUME TypeOK
  PROVE  /\ now \in Nat /\ at \in Int /\ Today \in Int /\ Window \in Nat /\ Window >= 8 /\ now - Window >= 0
         /\ schedule \in Schedules
<1>1. now \in Int /\ now >= FirstDay * Slots /\ FirstDay \in Int /\ Slots \in Nat /\ FirstDay >= 8 /\ Slots >= 1
  BY WeekAssumption DEF TypeOK
<1>2. (FirstDay - 8) * Slots >= 0
  <2>1. FirstDay - 8 \in Nat
    BY <1>1
  <2> QED
    BY <1>1, <2>1
<1>3. FirstDay * Slots = (FirstDay - 8) * Slots + 8 * Slots
  BY <1>1
<1>4. now - Window >= 0 /\ Window \in Nat /\ Window >= 8
  BY <1>1, <1>2, <1>3 DEF Window
<1> QED
  BY <1>1, <1>4, DivBounds DEF TypeOK, Today

LEMMA WarmIs ==
  ASSUME TypeOK, NEW off
  PROVE  LET i == NextWarmBy(off) IN i = NoBlock \/ (Occurs(i, off) /\ i.start \in Int /\ now + 1 <= i.start)
<1> DEFINE S == {i \in InstancesBetween(now + 1, now + Window, off) : i.warm_by}
<1>1. schedule \in Schedules /\ now + 1 \in Int /\ now + Window \in Int
  BY Times
<1>2. \A i \in S : Occurs(i, off) /\ i.start \in Int /\ now + 1 <= i.start
  BY <1>1, BetweenIs, OccursOnItsDay
<1>3. NextWarmBy(off) = First(S)
  BY DEF NextWarmBy
<1> HIDE DEF S
<1>4. S = {} => First(S) = NoBlock
  BY DEF First
<1>5. S # {} => First(S) \in S
  BY <1>1, <1>2, FirstIs
<1> QED
  BY <1>2, <1>3, <1>4, <1>5

LEMMA NoneFades == TypeOK => Faded(NoBlock.start)
BY Times DEF Faded, NoBlock

LEMMA WeekInit == Init => WeekInv
<1> SUFFICES ASSUME Init PROVE WeekInv
  OBVIOUS
<1>1. FirstDay * Slots \in FirstDay * Slots..(LastDay + 1) * Slots - 1 /\ FirstDay * Slots \in Nat
  <2>1. FirstDay \in Int /\ LastDay + 1 \in Int /\ FirstDay < LastDay + 1 /\ Slots \in Nat /\ Slots >= 1 /\ FirstDay \in Nat
    BY WeekAssumption
  <2>2. FirstDay * Slots + Slots <= (LastDay + 1) * Slots
    BY <2>1, TimesMonotone
  <2> QED
    BY <2>1, <2>2
<1> QED
  BY <1>1, WeekAssumption DEF Init, WeekInv, TypeOK

LEMMA EvaluateInv ==
  ASSUME WeekInv, NEW heard, Evaluate(heard)
  PROVE  /\ WeekInv' /\ schedule \in Schedules /\ at' = now
         /\ cache' = Kept(cache \cup heard) /\ known' = Off(cache') /\ unheard' = Wanted \ cache'
         /\ LatestOf(force', now - Window, now + 1, known')
<1>1. /\ now \in Nat /\ Today \in Int /\ Window \in Nat /\ Window >= 8 /\ schedule \in Schedules
  BY Times DEF WeekInv
<1>2. /\ heard \subseteq Wanted /\ cache' = Kept(cache \cup heard) /\ known' = Off(cache')
      /\ force' = Current(known') /\ due' = NextBlock(known') /\ warm' = NextWarmBy(known')
      /\ at' = now /\ unheard' = Wanted \ cache' /\ UNCHANGED <<now, calendar, schedule>>
  BY DEF Evaluate
<1>3. LatestOf(force', now - Window, now + 1, known')
  BY <1>1, <1>2, LatestBetween DEF Current, LatestOf
<1>4. IsFirst(due', now + 1, now + Window, known') \/ IsNone(due', now + 1, now + Window, known')
  BY <1>1, <1>2, FirstBetween DEF NextBlock
<1>5. warm' = NoBlock \/ (Occurs(warm', known') /\ warm'.start \in Int /\ now + 1 <= warm'.start)
  BY <1>2, WarmIs DEF WeekInv
<1>6. Derived'
  BY <1>2, <1>3, <1>4, <1>5 DEF Derived, LatestOf, IsLatest, IsFirst, IsNone, Occurs, DayKey, Off
<1>7. /\ cache' \subseteq Int /\ Today' = Today
      /\ \A day \in cache' : day >= Today - 1 /\ day <= Today + 2
  <2>1. Today' = Today
    BY <1>2 DEF Today
  <2>2. \A day \in Wanted : day \in Int /\ day <= Today + 2
    BY <1>1 DEF Wanted
  <2>3. \A day \in cache \cup heard : day \in Int /\ day <= Today + 2
    BY <1>2, <2>2 DEF WeekInv
  <2> QED
    BY <1>2, <2>1, <2>3 DEF Kept
<1>8. TypeOK'
  <2>1. \A b \in {force', due', warm'} : b # NoBlock => Occurs(b, known')
    BY <1>3, <1>4, <1>5 DEF LatestOf, IsLatest, IsFirst, IsNone
  <2>2. \A b \in {force', due', warm'} : b = NoBlock \/ [slot |-> b.start % Slots, preset |-> b.preset, warm_by |-> b.warm_by] \in Blocks
    BY <1>1, <2>1, OccursOnItsDay
  <2>3. moves' \in 0..MaxMoves
    BY WeekAssumption DEF Evaluate, WeekInv, TypeOK
  <2>4. cache' \subseteq Today' - 1..Today' + 2 /\ known' \subseteq cache'
    <3>1. known' \subseteq cache'
      BY <1>2 DEF Off
    <3>2. \A day \in cache' : day \in Today' - 1..Today' + 2
      BY <1>1, <1>7
    <3> QED
      BY <3>1, <3>2
  <2>5. /\ now' \in FirstDay * Slots..(LastDay + 1) * Slots - 1 /\ at' \in -1..now'
        /\ calendar' \in Calendars /\ schedule' \in Schedules
    BY <1>1, <1>2 DEF WeekInv, TypeOK
  <2> QED
    BY <2>2, <2>3, <2>4, <2>5 DEF TypeOK
<1> QED
  BY <1>1, <1>2, <1>3, <1>6, <1>7, <1>8 DEF WeekInv

LEMMA WeekNext == WeekInv /\ [Next]_vars => WeekInv'
<1> SUFFICES ASSUME WeekInv, [Next]_vars PROVE WeekInv'
  OBVIOUS
<1>1. ASSUME NEW heard, Evaluate(heard) PROVE WeekInv'
  BY <1>1, EvaluateInv
<1>2. ASSUME NEW week \in Schedules, Reload(week) PROVE WeekInv'
  <2>1. moves' \in 0..MaxMoves
    BY <1>2, WeekAssumption DEF Reload, WeekInv, TypeOK
  <2>2. at' = -1 /\ UNCHANGED <<now, calendar, cache>> /\ now \in Nat
    BY <1>2, Times DEF Reload, WeekInv
  <2>3. TypeOK'
    BY <1>2, <2>1, <2>2 DEF Reload, WeekInv, TypeOK
  <2> QED
    BY <2>2, <2>3 DEF WeekInv, Today
<1>3. CASE Tick
  <2>1. /\ at = now /\ now' = now + 1 /\ now + 1 < (LastDay + 1) * Slots /\ now \in Nat
        /\ UNCHANGED <<calendar, schedule, cache, known, force, due, warm, at, unheard, moves>>
    BY <1>3, Times DEF Tick, WeekInv
  <2>2. Derived'
    BY <2>1 DEF WeekInv, Derived, LatestOf, IsLatest, IsFirst, IsNone, Occurs, DayKey, Off
  <2>3. Today <= Today' /\ Today \in Int /\ Today' \in Int
    BY <2>1, DayMonotone, DivBounds DEF Today
  <2>4. TypeOK'
    <3>1. now' \in FirstDay * Slots..(LastDay + 1) * Slots - 1
      BY <2>1, WeekAssumption DEF WeekInv, TypeOK
    <3> QED
      BY <2>1, <3>1 DEF WeekInv, TypeOK
  <2>5. \A day \in cache' : day <= Today' + 2
    <3>1. cache' = cache /\ \A day \in cache : day \in Int /\ day <= Today + 2
      BY <2>1 DEF WeekInv
    <3> QED
      BY <2>3, <3>1
  <2> QED
    BY <2>1, <2>2, <2>4, <2>5 DEF WeekInv
<1>4. CASE UNCHANGED vars
  BY <1>4 DEF vars, WeekInv, TypeOK, Derived, LatestOf, IsLatest, IsFirst, IsNone, Occurs, DayKey, Off, Today
<1> QED
  BY <1>1, <1>2, <1>3, <1>4 DEF Next

LEMMA WeekHolds == Spec => []WeekInv
BY WeekInit, WeekNext, PTL DEF Spec

(***************************************************************************)
(* What is kept of the days is what is asked for, and every block that was *)
(* derived is one of the schedule's.                                       *)
(***************************************************************************)
THEOREM TypesHold == Spec => []TypeOK
<1>1. WeekInv => TypeOK
  BY DEF WeekInv
<1> QED
  BY <1>1, WeekHolds, PTL

-----------------------------------------------------------------------------
(***************************************************************************)
(* The block in force: unless something has been lost, each day from its   *)
(* start on is known for what it was.                                      *)
(***************************************************************************)
LEMMA HolidaysKnown ==
  ASSUME WeekInv, NEW heard, Evaluate(heard), NEW start \in Int, NEW day \in Int,
         HolidaysSince(start) \cap unheard' = {}, ~Forgotten(start, known'),
         start \div Slots <= day, day <= Today
  PROVE  Agree(day, calendar, known')
<1>1. /\ cache' = Kept(cache \cup heard) /\ known' = Off(cache') /\ unheard' = Wanted \ cache' /\ Today \in Int
  BY EvaluateInv, Times DEF WeekInv
<1>2. ASSUME Midweek(day), day \in calendar PROVE day \in known'
  <2>1. day \in HolidaysSince(start)
    BY <1>2 DEF HolidaysSince
  <2>2. day \in known' \/ day >= Today - 1
    <3>1. day \in known' \/ ~(day < Today - 1)
      BY <2>1 DEF Forgotten
    <3> QED
      BY <1>1, <3>1
  <2>3. day >= Today - 1 => day \in Wanted
    BY <1>1 DEF Wanted
  <2>4. day \in cache' => day \in known'
    BY <1>1, <1>2 DEF Off
  <2> QED
    BY <1>1, <2>1, <2>2, <2>3, <2>4
<1>3. ASSUME Midweek(day), day \in known' PROVE day \in calendar
  BY <1>1, <1>3 DEF Off
<1> QED
  BY <1>2, <1>3 DEF Agree

LEMMA Unmoved ==
  ASSUME UNCHANGED <<now, calendar, schedule>>
  PROVE  /\ Latest(InstancesBetween(0, now + 1, calendar))' = Latest(InstancesBetween(0, now + 1, calendar))
         /\ \A start : Faded(start)' <=> Faded(start)
         /\ \A start : HolidaysSince(start)' = HolidaysSince(start)
         /\ \A start : Forgotten(start, known)' <=> Forgotten(start, known')
<1>1. Latest(InstancesBetween(0, now + 1, calendar))' = Latest(InstancesBetween(0, now + 1, calendar))
  BY DEF InstancesBetween, DayKey
<1>2. \A start : Faded(start)' <=> Faded(start)
  BY DEF Faded
<1>3. \A start : HolidaysSince(start)' = HolidaysSince(start)
  BY DEF HolidaysSince, Today
<1>4. \A start : Forgotten(start, known)' <=> Forgotten(start, known')
  BY DEF Forgotten, HolidaysSince, Today
<1> QED
  BY <1>1, <1>2, <1>3, <1>4

LEMMA EvaluateInForce == ASSUME WeekInv, NEW heard, Evaluate(heard) PROVE InForce'
<1> DEFINE last == Latest(InstancesBetween(0, now + 1, calendar))
<1>1. /\ now \in Nat /\ Window \in Nat /\ now - Window \in Int /\ now - Window >= 0 /\ schedule \in Schedules
      /\ UNCHANGED <<now, calendar, schedule>>
  BY Times DEF WeekInv, Evaluate
<1>2. IsLatest(last, 0, now + 1, calendar) \/ IsNone(last, 0, now + 1, calendar)
  BY <1>1, LatestBetween
<1> HIDE DEF last
<1>3. \/ force' = last \/ Faded(last.start) \/ Forgotten(last.start, known')
      \/ HolidaysSince(last.start) \cap unheard' # {}
  <2> SUFFICES ASSUME ~Faded(last.start), ~Forgotten(last.start, known'), HolidaysSince(last.start) \cap unheard' = {}
               PROVE  force' = last
    OBVIOUS
  <2>1. IsLatest(last, 0, now + 1, calendar)
    BY <1>2, NoneFades DEF IsNone, WeekInv
  <2>2. last.start \in Int /\ now - Window <= last.start
    BY <1>1, <2>1 DEF IsLatest, Faded
  <2> DEFINE to    == now + 1
             since == now - Window
  <2>3. AgreeUpTo(last.start, to, calendar, known')
    <3>1. to - 1 = now
      BY <1>1
    <3> QED
      BY <2>2, <3>1, HolidaysKnown DEF Today, AgreeUpTo
  <2>4. LatestOf(force', since, to, known')
    BY EvaluateInv
  <2>5. to \in Int /\ since \in Int /\ 0 \in Int /\ 0 <= since /\ since <= last.start
    BY <1>1, <2>2
  <2>6. IsLatest(last, 0, to, calendar)
    BY <2>1
  <2> HIDE DEF to, since
  <2> QED
    BY <1>1, <2>3, <2>4, <2>5, <2>6, LatestAgrees
<1> QED
  BY <1>1, <1>3, Unmoved DEF InForce, last

(***************************************************************************)
(* The block in force is the last one there has been, each day taken for   *)
(* what it was, but for what InForce names.                                *)
(***************************************************************************)
THEOREM InForceHolds == Spec => []InForce
<1>1. Init => InForce
  <2> SUFFICES ASSUME Init PROVE at # now
    BY DEF InForce
  <2>1. now \in Nat /\ at = -1
    BY WeekInit, Times DEF WeekInv, Init
  <2> QED
    BY <2>1
<1>2. ASSUME WeekInv, InForce, [Next]_vars PROVE InForce'
  <2>1. ASSUME NEW heard, Evaluate(heard) PROVE InForce'
    BY <1>2, <2>1, EvaluateInForce
  <2>2. ASSUME NEW week \in Schedules, Reload(week) PROVE InForce'
    <3>1. at' = -1 /\ now' = now /\ now \in Nat
      BY <1>2, <2>2, Times DEF Reload, WeekInv
    <3> QED
      BY <3>1 DEF InForce
  <2>3. CASE Tick
    <3>1. at' = now /\ now' = now + 1 /\ now \in Nat
      BY <1>2, <2>3, Times DEF Tick, WeekInv
    <3> QED
      BY <3>1 DEF InForce
  <2>4. CASE UNCHANGED vars
    <3>1. UNCHANGED <<now, calendar, schedule, force, at, known, unheard>>
      BY <2>4 DEF vars
    <3> QED
      BY <1>2, <3>1, Unmoved DEF InForce
  <2> QED
    BY <1>2, <2>1, <2>2, <2>3, <2>4 DEF Next
<1> QED
  BY <1>1, <1>2, WeekHolds, PTL DEF Spec

-----------------------------------------------------------------------------
(***************************************************************************)
(* The boundary.  What was known of a day at the last evaluation is known  *)
(* at this one, unless a holiday was told late or has been forgotten; and  *)
(* the last evaluation was in this slot or the one before.                 *)
(***************************************************************************)
LEMMA KnowledgeStands ==
  ASSUME WeekInv, at >= 0, NEW heard, Evaluate(heard), NEW start \in Int, NEW day \in Int,
         ~Late, ~Forgotten(start, known'), start \div Slots <= day, day <= Today
  PROVE  Agree(day, known, known')
<1>1. /\ cache' = Kept(cache \cup heard) /\ known' = Off(cache') /\ known = Off(cache)
  BY EvaluateInv DEF WeekInv, Derived
<1>2. ASSUME Midweek(day), day \in known PROVE day \in known'
  <2>1. day \in HolidaysSince(start) /\ day \in cache
    BY <1>1, <1>2 DEF HolidaysSince, Off
  <2>2. day \in cache' => day \in known'
    BY <1>1, <1>2 DEF Off
  <2>3. day \in cache' \/ day < Today - 1
    BY <1>1, <2>1, Times DEF Kept, WeekInv
  <2> QED
    BY <2>1, <2>2, <2>3 DEF Forgotten
<1>3. ASSUME Midweek(day), day \in known' PROVE day \in known
  BY <1>3 DEF Late
<1> QED
  BY <1>2, <1>3 DEF Agree

LEMMA EvaluateAsDue ==
  ASSUME WeekInv, at >= 0, NEW heard, Evaluate(heard),
         ~Late, ~Forgotten(force.start, known'), ~Faded(force.start)
  PROVE  AsDue
<1>1. /\ now \in Nat /\ Window \in Nat /\ Window >= 8 /\ now - Window \in Int /\ schedule \in Schedules /\ at \in Int
      /\ at = now \/ at = now - 1
  BY Times DEF WeekInv
<1>2. IsLatest(force, at - Window, at + 1, known)
  BY NoneFades DEF WeekInv, Derived, LatestOf, IsNone
<1>3. force.start \in Int /\ now - Window <= force.start /\ force.start <= at
  BY <1>1, <1>2 DEF IsLatest, Faded
<1>4. \A day \in Int : force.start \div Slots <= day /\ day <= Today => Agree(day, known, known')
  BY <1>3, KnowledgeStands
<1>5. LatestOf(force', now - Window, now + 1, known')
  BY EvaluateInv
<1>6. force.start \div Slots <= Today /\ Today \in Int
  BY <1>1, <1>3, DayMonotone, DivBounds DEF Today
<1>7. CASE at = now
  <2> DEFINE to    == now + 1
             since == now - Window
  <2>1. AgreeUpTo(force.start, to, known, known')
    <3>1. to - 1 = now
      BY <1>1
    <3> QED
      BY <1>4, <3>1 DEF Today, AgreeUpTo
  <2>2. force' = force
    <3>1. IsLatest(force, since, to, known) /\ LatestOf(force', since, to, known')
      BY <1>2, <1>5, <1>7
    <3>2. to \in Int /\ since \in Int /\ since <= since /\ since <= force.start
      BY <1>1, <1>3
    <3> HIDE DEF to, since
    <3> QED
      BY <1>1, <2>1, <3>1, <3>2, LatestAgrees
  <2>3. ~(due # NoBlock /\ due.start <= now)
    BY <1>1, <1>7 DEF WeekInv, Derived, IsFirst, IsNone
  <2>4. ~(warm # NoBlock /\ warm.start = now)
    BY <1>1, <1>7 DEF WeekInv, Derived
  <2> QED
    BY <2>2, <2>3, <2>4 DEF AsDue
<1>8. CASE at = now - 1
  <2>1. ASSUME NEW i, Occurs(i, known), i.start = now PROVE force' = i
    <3>1. Occurs(i, known')
      <4>1. Agree(i.start \div Slots, known, known')
        BY <1>4, <1>6, <2>1 DEF Today
      <4> QED
        BY <1>1, <2>1, <4>1, SameDay
    <3>2. IsLatest(force', now - Window, now + 1, known') /\ i.start <= force'.start
      BY <1>1, <1>5, <2>1, <3>1 DEF LatestOf, IsLatest, IsNone
    <3>3. Occurs(force', known') /\ force'.start = i.start
      BY <1>1, <2>1, <3>2 DEF IsLatest
    <3> QED
      BY <1>1, <3>1, <3>3, OneAtATime
  <2>2. warm # NoBlock /\ warm.start = now => force' = warm
    BY <2>1 DEF WeekInv, Derived
  <2>3. CASE due # NoBlock /\ due.start <= now
    <3>1. Occurs(due, known) /\ due.start = now
      BY <1>1, <1>8, <2>3 DEF WeekInv, Derived, IsFirst, IsNone
    <3> QED
      BY <2>1, <2>2, <2>3, <3>1 DEF AsDue
  <2>4. CASE ~(due # NoBlock /\ due.start <= now)
    <3>1. \A i : Occurs(i, known) => i.start # now
      <4> SUFFICES ASSUME NEW i, Occurs(i, known), i.start = now PROVE FALSE
        OBVIOUS
      <4>1. at + 1 <= i.start /\ i.start < at + Window
        BY <1>1, <1>8
      <4>2. IsFirst(due, at + 1, at + Window, known) /\ due.start <= now
        BY <4>1 DEF WeekInv, Derived, IsFirst, IsNone
      <4> QED
        BY <1>1, <1>8, <2>4, <4>2 DEF IsFirst, NoBlock
    <3>2. \A i : Occurs(i, known') => i.start # now
      <4> SUFFICES ASSUME NEW i, Occurs(i, known'), i.start = now PROVE FALSE
        OBVIOUS
      <4>1. Agree(i.start \div Slots, known', known)
        BY <1>4, <1>6 DEF Today, Agree
      <4>2. Occurs(i, known)
        BY <1>1, <4>1, SameDay
      <4> QED
        BY <3>1, <4>2
    <3>3. LatestOf(force', now - Window, now, known')
      <4>1. CASE IsNone(force', now - Window, now + 1, known')
        BY <1>1, <4>1, StartIsInt DEF LatestOf, IsNone
      <4>2. CASE IsLatest(force', now - Window, now + 1, known')
        <5>1. force'.start \in Int /\ force'.start < now
          BY <1>1, <3>2, <4>2 DEF IsLatest
        <5> QED
          BY <1>1, <4>2, <5>1, StartIsInt DEF LatestOf, IsLatest
      <4> QED
        BY <1>5, <4>1, <4>2 DEF LatestOf
    <3>4. at + 1 = now /\ at - Window <= now - Window /\ at - Window \in Int /\ now \in Int
      BY <1>1, <1>8
    <3>5. AgreeUpTo(force.start, now, known, known')
      <4>1. (now - 1) \div Slots <= Today /\ (now - 1) \div Slots \in Int
        BY <1>1, DayMonotone, DivBounds DEF Today
      <4> QED
        BY <1>4, <1>6, <4>1 DEF AgreeUpTo
    <3>6. force' = force
      <4> DEFINE from  == at - Window
                 since == now - Window
      <4>1. IsLatest(force, from, now, known) /\ LatestOf(force', since, now, known')
        BY <1>2, <3>3, <3>4
      <4>2. from \in Int /\ since \in Int /\ now \in Int /\ from <= since /\ since <= force.start
        BY <1>1, <1>3, <3>4
      <4> HIDE DEF from, since
      <4> QED
        BY <1>1, <3>5, <4>1, <4>2, LatestAgrees
    <3> QED
      BY <2>2, <2>4, <3>6 DEF AsDue
  <2> QED
    BY <2>3, <2>4
<1> QED
  BY <1>1, <1>7, <1>8

(***************************************************************************)
(* What the timer, the stand-downs and the preheat aim at is what happens, *)
(* unless a holiday was told late or forgotten, or the window is empty.    *)
(***************************************************************************)
THEOREM BoundaryHolds == Spec => BoundaryIsHonest
<1> DEFINE Honest == AsDue \/ Late \/ Forgotten(force.start, known') \/ Faded(force.start)
<1>1. ASSUME WeekInv, [Next]_vars
      PROVE  [at >= 0 /\ at' = now => Honest]_vars
  <2> SUFFICES ASSUME at >= 0, at' = now, vars' # vars, Next PROVE Honest
    BY <1>1
  <2>1. ASSUME NEW heard, Evaluate(heard) PROVE Honest
    BY <1>1, <2>1, EvaluateAsDue
  <2>2. ASSUME NEW week \in Schedules, Reload(week) PROVE Honest
    <3>1. at' = -1 /\ now \in Nat
      BY <1>1, <2>2, Times DEF Reload, WeekInv
    <3> QED
      BY <3>1
  <2>3. CASE Tick
    <3>1. at = now /\ force' = force /\ now \in Nat /\ Window \in Nat
      BY <1>1, <2>3, Times DEF Tick, WeekInv
    <3>2. ~(due # NoBlock /\ due.start <= now) /\ ~(warm # NoBlock /\ warm.start = now)
      BY <1>1, <3>1 DEF WeekInv, Derived, IsFirst, IsNone
    <3> QED
      BY <3>1, <3>2 DEF AsDue
  <2> QED
    BY <2>1, <2>2, <2>3 DEF Next
<1> QED
  BY <1>1, WeekHolds, PTL DEF Spec, BoundaryIsHonest

=============================================================================
