------------------------ MODULE AdaptiveComfort_proofs ------------------------
(***************************************************************************)
(* The running mean: each day is folded at most once, and none is lost but *)
(* as NoDayIsLost says, for any number of days, slots and moves.  Both rest *)
(* on what every copy of the state - in memory, stored, exported -         *)
(* satisfies by itself: the days it still holds back are later than the    *)
(* last one it has folded in, in order, and none of them was there at its  *)
(* last roll.  Then: the offset is held while readings are missing, and    *)
(* types.  At the end the arithmetic of the target that follows the mean.  *)
(***************************************************************************)
EXTENDS RunningMean, ComfortTarget, TLAPS

Time == Int \X Int
Accumulator == [day : Int, samples : SUBSET Time]
Mean == [seeded : Time, day : Int, folded : SUBSET Accumulator, current : Accumulator,
         completed : Accumulator, frozen : BOOLEAN, rolled : Int]
Memory == [mean : Mean, sampled : Time, seen : Time, reported : BOOLEAN, at : Time]

(* An accumulator holds samples of its own day.                            *)
Own(f) == \A s \in f.samples : s[1] = f.day

(* What is folded in is of different days, up to t_rm_day.                 *)
FoldedOnce(m) == /\ \A f \in m.folded : f.day <= m.day /\ Own(f)
                 /\ \A f, g \in m.folded : f.day = g.day => f = g

(* What is held back is still to be folded in.                             *)
HeldBack(m) == /\ m.current = NoDay \/ (m.current.day > m.day /\ m.current.day >= m.rolled)
               /\ m.completed = NoDay \/ (/\ m.completed.day > m.day /\ m.completed.day >= m.rolled
                                          /\ m.current # NoDay /\ m.completed.day < m.current.day)
               /\ Own(m.current) /\ Own(m.completed)

(* A mean without a seed has nothing yet.                                  *)
SeedFirst(m) == m.seeded = Never => m.current = NoDay /\ m.completed = NoDay /\ m.folded = {}

Sound(m) == /\ m \in Mean /\ FoldedOnce(m) /\ HeldBack(m) /\ SeedFirst(m)
            /\ -1 <= m.day /\ m.day < today /\ m.current.day <= today /\ m.rolled <= today

MeanInv == /\ today \in Nat \ {0} /\ slot \in Int /\ sensor \in BOOLEAN
           /\ room \in Memory /\ disk \in Memory
           /\ Sound(room.mean) /\ Sound(disk.mean) /\ Sound(blob)

(* From m to n only days before yesterday are lost, that m had not rolled. *)
Keeps(m, n) == \A s \in Samples(m) \ Samples(n) : m.rolled <= s[1] /\ today > s[1] + 1

LEMMA NoDayTyped == NoDay \in Accumulator /\ Own(NoDay) /\ NoDay.day = -1 /\ NoDay.samples = {}
  BY DEF NoDay, Accumulator, Own

LEMMA SeededSound ==
  ASSUME NEW m, Sound(m), today \in Nat \ {0}, slot \in Int
  PROVE  Sound(Seeded(m)) /\ Keeps(m, Seeded(m)) /\ Seeded(m).seeded # Never /\ Seeded(m).rolled = m.rolled
<1>1. Now \in Time /\ Now # Never
  BY DEF Now, Never, Time
<1>2. CASE m.seeded # Never
  BY <1>2 DEF Seeded, Keeps
<1>3. CASE m.seeded = Never
  <2> DEFINE n == [m EXCEPT !.seeded = Now, !.day = today - 1]
  <2>1. Seeded(m) = n
    BY <1>3 DEF Seeded
  <2>2. /\ n \in Mean /\ n.seeded = Now /\ n.day = today - 1 /\ n.rolled = m.rolled
        /\ n.folded = {} /\ n.current = NoDay /\ n.completed = NoDay
    <3>1. m \in Mean /\ today - 1 \in Int
      BY DEF Sound
    <3>2. n \in Mean /\ n.seeded = Now /\ n.day = today - 1 /\ n.rolled = m.rolled
      BY <3>1, <1>1 DEF Mean
    <3>3. n.folded = m.folded /\ n.current = m.current /\ n.completed = m.completed
      BY <3>1 DEF Mean
    <3> QED BY <3>2, <3>3, <1>3 DEF Sound, SeedFirst
  <2>3. Samples(n) = Samples(m)
    BY <2>2, <1>3 DEF Sound, SeedFirst, Samples
  <2>4. Sound(n)
    BY <2>2, <1>1, NoDayTyped DEF Sound, FoldedOnce, HeldBack, SeedFirst
  <2> QED BY <2>1, <2>2, <2>3, <2>4, <1>1 DEF Keeps
<1> QED BY <1>2, <1>3

(* At the turn of the day the old accumulator takes the place of one that  *)
(* is at least two days old by then.                                       *)
LEMMA AddSampleSound ==
  ASSUME NEW m, Sound(m), m.seeded # Never, today \in Nat \ {0}, slot \in Int
  PROVE  /\ Sound(AddSample(m)) /\ Keeps(m, AddSample(m))
         /\ AddSample(m).rolled = m.rolled
<1> DEFINE n == AddSample(m)
           turned == m.current.day # today /\ m.current.day > m.day
<1>1. Now \in Time /\ Now[1] = today
  BY DEF Now, Time
<1>2. /\ n \in Mean /\ n.seeded = m.seeded /\ n.day = m.day /\ n.rolled = m.rolled /\ n.folded = m.folded
      /\ n.completed = (IF turned THEN m.current ELSE m.completed)
      /\ n.current.day = today
      /\ n.current.samples = (IF m.current.day = today THEN m.current.samples ELSE {}) \cup {Now}
  <2> DEFINE c == IF turned THEN m.current ELSE m.completed
             a == [day |-> today, samples |-> (IF m.current.day = today THEN m.current.samples ELSE {}) \cup {Now}]
  <2>1. m \in Mean
    BY DEF Sound
  <2>2. m.current \in Accumulator /\ m.completed \in Accumulator
    BY <2>1 DEF Mean
  <2>3. c \in Accumulator
    BY <2>2
  <2>4. m.current.samples \in SUBSET Time
    BY <2>2 DEF Accumulator
  <2>5. a \in Accumulator
    BY <2>4, <1>1 DEF Accumulator
  <2>6. n = [m EXCEPT !.frozen = FALSE, !.completed = c, !.current = a]
    BY <2>1 DEF AddSample, Mean
  <2> HIDE DEF c, a
  <2>7. n \in Mean /\ n.seeded = m.seeded /\ n.day = m.day /\ n.rolled = m.rolled /\ n.folded = m.folded
        /\ n.completed = c /\ n.current = a
    BY <2>1, <2>3, <2>5, <2>6 DEF Mean
  <2> QED BY <2>7 DEF c, a
<1>3. FoldedOnce(n) /\ SeedFirst(n)
  BY <1>2 DEF Sound, FoldedOnce, SeedFirst
<1>4. n.current # NoDay
  BY <1>2, NoDayTyped
<1>5. Own(n.current)
  BY <1>1, <1>2 DEF Sound, HeldBack, Own
<1>6. HeldBack(n)
  <2>1. CASE turned
    BY <2>1, <1>2, <1>4, <1>5 DEF Sound, HeldBack, Mean, Accumulator
  <2>2. CASE ~turned
    BY <2>2, <1>2, <1>4, <1>5, NoDayTyped DEF Sound, HeldBack, Mean, Accumulator
  <2> QED BY <2>1, <2>2
<1>7. Sound(n)
  BY <1>2, <1>3, <1>6 DEF Sound, Mean
<1>8. Keeps(m, n)
  <2> SUFFICES ASSUME NEW s \in Samples(m), s \notin Samples(n)
               PROVE  m.rolled <= s[1] /\ today > s[1] + 1
    BY DEF Keeps
  <2>1. s \notin m.current.samples
    <3>1. CASE m.current.day = today
      BY <3>1, <1>2 DEF Samples
    <3>2. CASE turned
      BY <3>2, <1>2 DEF Samples
    <3>3. CASE m.current = NoDay
      BY <3>3, NoDayTyped
    <3> QED BY <3>1, <3>2, <3>3 DEF Sound, HeldBack
  <2>2. s \in m.completed.samples
    BY <2>1, <1>2 DEF Samples
  <2>3. turned
    BY <2>2, <1>2 DEF Samples
  <2>4. m.completed # NoDay /\ s[1] = m.completed.day
    BY <2>2, NoDayTyped DEF Sound, HeldBack, Own
  <2> QED BY <2>3, <2>4 DEF Sound, HeldBack, Mean, Accumulator
<1> QED BY <1>2, <1>7, <1>8

LEMMA RollSound ==
  ASSUME NEW m, Sound(m), today \in Nat \ {0}
  PROVE  LET n == [Roll(m) EXCEPT !.rolled = today]
         IN Sound(n) /\ Keeps(m, n)
<1> DEFINE n == [Roll(m) EXCEPT !.rolled = today]
           over == Over(m) /\ m.current.day > m.day
           completed == IF over THEN m.current ELSE m.completed
           late == completed.day <= m.day
<1>1. /\ n \in Mean /\ n.seeded = m.seeded /\ n.rolled = today /\ n.completed = NoDay
      /\ n.current = (IF Over(m) THEN NoDay ELSE m.current)
      /\ n.day = (IF late THEN m.day ELSE completed.day)
      /\ n.folded = (IF late THEN m.folded ELSE m.folded \cup {completed})
  <2> DEFINE c == IF Over(m) THEN NoDay ELSE m.current
             rest == [m EXCEPT !.current = c, !.completed = NoDay]
  <2>1. m \in Mean
    BY DEF Sound
  <2>2. m.current \in Accumulator /\ m.completed \in Accumulator /\ completed \in Accumulator
    BY <2>1 DEF Mean
  <2>3. c \in Accumulator
    BY <2>2, NoDayTyped
  <2>4. rest = [m EXCEPT !.current = IF Over(m) THEN NoDay ELSE @, !.completed = NoDay]
    BY <2>1 DEF Mean
  <2>5. completed.day \in Int
    BY <2>2 DEF Accumulator
  <2>6. Roll(m) = IF late THEN rest ELSE [rest EXCEPT !.day = completed.day, !.folded = @ \cup {completed}]
    BY <2>4 DEF Roll
  <2> HIDE DEF c, completed
  <2>7. rest \in Mean /\ rest.seeded = m.seeded /\ rest.completed = NoDay /\ rest.current = c
        /\ rest.day = m.day /\ rest.folded = m.folded
    BY <2>1, <2>3, NoDayTyped DEF Mean
  <2> HIDE DEF rest
  <2>8. CASE late
    <3>1. n = [rest EXCEPT !.rolled = today]
      BY <2>6, <2>8
    <3> QED BY <3>1, <2>7, <2>8 DEF Mean, c
  <2>9. CASE ~late
    <3> DEFINE r == [rest EXCEPT !.day = completed.day, !.folded = @ \cup {completed}]
    <3>1. m.folded \cup {completed} \in SUBSET Accumulator
      BY <2>1, <2>2 DEF Mean
    <3>2. r \in Mean /\ r.seeded = m.seeded /\ r.completed = NoDay /\ r.current = c
          /\ r.day = completed.day /\ r.folded = m.folded \cup {completed}
      BY <2>5, <2>7, <3>1 DEF Mean
    <3>3. n = [r EXCEPT !.rolled = today]
      BY <2>6, <2>9
    <3> HIDE DEF r
    <3> QED BY <3>2, <3>3, <2>9 DEF Mean, c
  <2> QED BY <2>8, <2>9
<1>2. late => completed = NoDay
  BY DEF Sound, HeldBack, Over, Mean, Accumulator
<1>3. completed.day < today /\ -1 <= completed.day /\ Own(completed)
  BY NoDayTyped DEF Sound, HeldBack, Over, Mean, Accumulator
<1>4. FoldedOnce(n)
  <2>1. CASE late
    BY <2>1, <1>1 DEF Sound, FoldedOnce
  <2>2. CASE ~late
    <3>1. n.folded = m.folded \cup {completed} /\ n.day = completed.day /\ completed.day > m.day
      BY <2>2, <1>1, <1>3 DEF Sound, Mean, Accumulator
    <3>2. \A f \in m.folded : f.day <= m.day /\ f.day \in Int
      BY DEF Sound, FoldedOnce, Mean, Accumulator
    <3>3. completed.day \in Int /\ m.day \in Int
      BY DEF Sound, Mean, Accumulator
    <3>4. \A f \in n.folded : f.day <= n.day /\ Own(f)
      BY <3>1, <3>2, <3>3, <1>3 DEF Sound, FoldedOnce
    <3>5. \A f, g \in n.folded : f.day = g.day => f = g
      BY <3>1, <3>2, <3>3 DEF Sound, FoldedOnce
    <3> QED BY <3>4, <3>5 DEF FoldedOnce
  <2> QED BY <2>1, <2>2
<1>5. HeldBack(n)
  <2>1. CASE Over(m)
    BY <2>1, <1>1, NoDayTyped DEF HeldBack
  <2>2. CASE ~Over(m)
    <3>1. n.current = m.current /\ (m.current = NoDay \/ m.current.day = today)
      BY <2>2, <1>1 DEF Over, Sound, Mean, Accumulator
    <3>2. n.day < today /\ n.day \in Int
      BY <1>1, <1>3 DEF Sound, Mean, Accumulator
    <3> QED BY <3>1, <3>2, <1>1, NoDayTyped DEF Sound, HeldBack
  <2> QED BY <2>1, <2>2
<1>6. Sound(n)
  <2>1. -1 <= n.day /\ n.day < today
    BY <1>1, <1>3 DEF Sound
  <2>2. n.current.day <= today
    BY <1>1, NoDayTyped DEF Sound
  <2>3. SeedFirst(n)
    BY <1>1, NoDayTyped DEF Sound, SeedFirst, Over
  <2> QED BY <2>1, <2>2, <2>3, <1>1, <1>4, <1>5 DEF Sound
<1>7. Keeps(m, n)
  <2> SUFFICES ASSUME NEW s \in Samples(m), s \notin Samples(n)
               PROVE  m.rolled <= s[1] /\ today > s[1] + 1
    BY DEF Keeps
  <2>1. s \notin completed.samples
    BY <1>1, <1>2, NoDayTyped DEF Samples
  <2>2. s \notin m.current.samples
    <3>1. CASE ~Over(m)
      BY <3>1, <1>1 DEF Samples
    <3>2. CASE over
      BY <3>2, <2>1
    <3> QED BY <3>1, <3>2 DEF Over, Sound, HeldBack
  <2>3. \A f \in m.folded : s \notin f.samples
    BY <1>1 DEF Samples
  <2>4. s \in m.completed.samples
    BY <2>2, <2>3 DEF Samples
  <2>5. over
    BY <2>1, <2>4
  <2>6. m.completed # NoDay /\ s[1] = m.completed.day
    BY <2>4, NoDayTyped DEF Sound, HeldBack, Own
  <2> QED BY <2>5, <2>6 DEF Sound, HeldBack, Over, Mean, Accumulator
<1> QED BY <1>6, <1>7

LEMMA KeepsInTwo ==
  ASSUME NEW m, NEW n, NEW o, Keeps(m, n), Keeps(n, o), n.rolled = m.rolled
  PROVE  Keeps(m, o)
  BY DEF Keeps

LEMMA FrozenSound ==
  ASSUME NEW m, Sound(m), NEW b \in BOOLEAN
  PROVE  LET n == [m EXCEPT !.frozen = b] IN Sound(n) /\ Keeps(m, n) /\ n.rolled = m.rolled
<1> DEFINE n == [m EXCEPT !.frozen = b]
<1>1. /\ n \in Mean /\ n.seeded = m.seeded /\ n.day = m.day /\ n.rolled = m.rolled /\ n.folded = m.folded
      /\ n.current = m.current /\ n.completed = m.completed
  BY DEF Sound, Mean
<1>2. Samples(n) = Samples(m)
  BY <1>1 DEF Samples
<1> QED BY <1>1, <1>2 DEF Sound, FoldedOnce, HeldBack, SeedFirst, Keeps

LEMMA SampleOutdoorSound ==
  ASSUME NEW r \in Memory, Sound(r.mean), today \in Nat \ {0}, slot \in Int, sensor \in BOOLEAN
  PROVE  LET n == SampleOutdoor(r)
         IN n \in Memory /\ Sound(n.mean) /\ Keeps(r.mean, n.mean) /\ n.mean.rolled = r.mean.rolled
<1> DEFINE n == SampleOutdoor(r)
<1>1. Now \in Time
  BY DEF Now, Time
<1>2. CASE sensor
  <2> DEFINE seed == Seeded(r.mean)
             s == [r EXCEPT !.seen = Now, !.reported = FALSE, !.mean = seed]
             add == AddSample(seed)
  <2>1. Sound(seed) /\ Keeps(r.mean, seed) /\ seed.seeded # Never /\ seed.rolled = r.mean.rolled
    BY SeededSound
  <2>2. Sound(add) /\ Keeps(seed, add) /\ add.rolled = seed.rolled
    BY <2>1, AddSampleSound
  <2>3. seed \in Mean /\ add \in Mean
    BY <2>1, <2>2 DEF Sound
  <2>4. s = [r EXCEPT !.seen = Now, !.reported = FALSE, !.mean = Seeded(@)]
    BY DEF Memory
  <2> HIDE DEF seed
  <2>5. s \in Memory /\ s.mean = seed
    BY <1>1, <2>3 DEF Memory
  <2>6. n = IF Due(r) THEN [s EXCEPT !.sampled = Now, !.mean = add] ELSE s
    BY <1>2, <2>4, <2>5 DEF SampleOutdoor, seed, Memory
  <2> HIDE DEF s, add
  <2>7. CASE Due(r)
    <3>1. n \in Memory /\ n.mean = add
      BY <2>3, <2>5, <2>6, <2>7, <1>1 DEF Memory
    <3>2. Keeps(r.mean, add)
      BY <2>1, <2>2, KeepsInTwo
    <3> QED BY <3>1, <3>2, <2>1, <2>2
  <2>8. CASE ~Due(r)
    BY <2>1, <2>5, <2>6, <2>8
  <2> QED BY <2>7, <2>8
<1>3. CASE ~sensor
  <2> DEFINE b == r.mean.frozen \/ Freezes(r)
             f == [r.mean EXCEPT !.frozen = b]
  <2>1. Sound(f) /\ Keeps(r.mean, f) /\ f.rolled = r.mean.rolled
    BY FrozenSound, b \in BOOLEAN
  <2>2. r.mean \in Mean /\ f \in Mean
    BY <2>1 DEF Memory, Sound
  <2>3. n = [r EXCEPT !.mean = f, !.reported = @ \/ IsStale(r)]
    BY <1>3, <2>2 DEF SampleOutdoor, Memory, Mean
  <2> HIDE DEF f
  <2>4. n \in Memory /\ n.mean = f
    BY <2>2, <2>3 DEF Memory
  <2> QED BY <2>1, <2>4
<1> QED BY <1>2, <1>3

LEMMA EvaluatedSound ==
  ASSUME NEW r \in Memory, Sound(r.mean), today \in Nat \ {0}, slot \in Int, sensor \in BOOLEAN
  PROVE  LET n == Evaluated(r) IN n \in Memory /\ Sound(n.mean) /\ Keeps(r.mean, n.mean)
<1> DEFINE s == SampleOutdoor(r)
           l == MaybeRoll(s)
<1>1. s \in Memory /\ Sound(s.mean) /\ Keeps(r.mean, s.mean) /\ s.mean.rolled = r.mean.rolled
  BY SampleOutdoorSound
<1> HIDE DEF s
<1>2. l \in Memory /\ Sound(l.mean) /\ Keeps(r.mean, l.mean)
  <2>1. CASE slot < RollAt
    BY <1>1, <2>1 DEF MaybeRoll
  <2>2. CASE ~(slot < RollAt)
    <3> DEFINE n == [Roll(s.mean) EXCEPT !.rolled = today]
    <3>1. Sound(n) /\ Keeps(s.mean, n)
      BY <1>1, RollSound
    <3>2. l = [s EXCEPT !.mean = n]
      BY <1>1, <2>2 DEF MaybeRoll, Memory
    <3>3. n \in Mean
      BY <3>1 DEF Sound
    <3> HIDE DEF n
    <3>4. l \in Memory /\ l.mean = n
      BY <1>1, <3>2, <3>3 DEF Memory
    <3>5. Keeps(r.mean, n)
      BY <1>1, <3>1, KeepsInTwo
    <3> QED BY <3>1, <3>4, <3>5
  <2> QED BY <2>1, <2>2
<1>3. Evaluated(r) = [l EXCEPT !.at = Now]
  BY DEF Evaluated, s
<1> HIDE DEF l
<1>4. Evaluated(r) \in Memory /\ Evaluated(r).mean = l.mean
  BY <1>2, <1>3 DEF Memory, Now, Time
<1> QED BY <1>2, <1>4

LEMMA StoredSound ==
  ASSUME NEW r \in Memory PROVE Stored(r) \in Memory /\ Stored(r).mean = r.mean
<1>1. Never \in Time
  BY DEF Never, Time
<1>2. Stored(r) = [r EXCEPT !.reported = FALSE, !.at = Never]
  BY DEF Stored
<1> QED BY <1>1, <1>2 DEF Memory

LEMMA NoMeanSound == today \in Nat \ {0} => Sound(NoMean) /\ NoRoom \in Memory /\ NoRoom.mean = NoMean
<1>1. Never \in Time
  BY DEF Never, Time
<1>2. NoMean \in Mean
  BY <1>1, NoDayTyped DEF NoMean, Mean
<1>3. NoRoom \in Memory /\ NoRoom.mean = NoMean
  BY <1>1, <1>2 DEF NoRoom, Memory
<1> QED BY <1>2, <1>3, NoDayTyped DEF NoMean, Sound, FoldedOnce, HeldBack, SeedFirst

(* A step within a slot that puts sound copies in place.                   *)
LEMMA CopiesSound ==
  ASSUME MeanInv, UNCHANGED <<today, slot>>, sensor' \in BOOLEAN,
         room' \in Memory, Sound(room'.mean), disk' \in Memory, Sound(disk'.mean), Sound(blob')
  PROVE  MeanInv'
  BY DEF MeanInv, Sound

LEMMA TickInv == ASSUME MeanInv, Tick PROVE MeanInv'
<1>1. today' = today \/ today' = today + 1
  BY DEF Tick
<1>2. today' \in Nat \ {0} /\ slot' \in Int
  BY DaysAssumption DEF Tick, MeanInv
<1>3. ASSUME NEW m, Sound(m) PROVE Sound(m)'
  BY <1>1, <1>3 DEF MeanInv, Sound, Mean, Accumulator
<1>4. UNCHANGED <<room, disk, blob, sensor>>
  BY DEF Tick
<1>5. Sound(room.mean)' /\ Sound(disk.mean)' /\ Sound(blob)'
  BY <1>3, <1>4 DEF MeanInv, Sound
<1> QED BY <1>2, <1>4, <1>5 DEF MeanInv

(* The room that an Import or a Start evaluates, and what it comes to.     *)
LEMMA ImportedSound ==
  ASSUME MeanInv, Import
  PROVE  LET swapped == [room EXCEPT !.mean = blob]
         IN /\ swapped \in Memory /\ swapped.mean = blob
            /\ room' = Evaluated(swapped) /\ disk' = Stored(swapped)
            /\ room' \in Memory /\ Sound(room'.mean) /\ Keeps(blob, room'.mean)
<1> DEFINE swapped == [room EXCEPT !.mean = blob]
<1>1. swapped \in Memory /\ swapped.mean = blob
  BY DEF MeanInv, Memory, Sound
<1>2. room' = Evaluated(swapped) /\ disk' = Stored(swapped)
  BY DEF Import
<1> HIDE DEF swapped
<1>3. Evaluated(swapped) \in Memory /\ Sound(Evaluated(swapped).mean) /\ Keeps(blob, Evaluated(swapped).mean)
  BY <1>1, EvaluatedSound DEF MeanInv
<1> QED BY <1>1, <1>2, <1>3 DEF swapped

LEMMA StartedSound ==
  ASSUME MeanInv, Start
  PROVE  room' \in Memory /\ Sound(room'.mean) /\ Keeps(disk.mean, room'.mean)
<1>1. PICK recorder \in BOOLEAN :
        room' = Evaluated(IF recorder \/ sensor THEN [disk EXCEPT !.mean = Seeded(@)] ELSE disk)
  BY DEF Start
<1> DEFINE seed == Seeded(disk.mean)
           r == IF recorder \/ sensor THEN [disk EXCEPT !.mean = seed] ELSE disk
<1>2. Sound(seed) /\ Keeps(disk.mean, seed) /\ seed.rolled = disk.mean.rolled
  BY SeededSound DEF MeanInv
<1>3. seed \in Mean
  BY <1>2 DEF Sound
<1>4. room' = Evaluated(r)
  BY <1>1 DEF MeanInv, Memory
<1> HIDE DEF seed
<1>5. /\ r \in Memory /\ Sound(r.mean) /\ Keeps(disk.mean, r.mean)
      /\ r.mean.rolled = disk.mean.rolled
  <2>1. CASE recorder \/ sensor
    <3>1. r = [disk EXCEPT !.mean = seed]
      BY <2>1
    <3>2. r \in Memory /\ r.mean = seed
      BY <3>1, <1>3 DEF MeanInv, Memory
    <3> QED BY <3>2, <1>2
  <2>2. CASE ~(recorder \/ sensor)
    BY <2>2 DEF MeanInv, Keeps
  <2> QED BY <2>1, <2>2
<1> HIDE DEF r
<1>6. Evaluated(r) \in Memory /\ Sound(Evaluated(r).mean) /\ Keeps(r.mean, Evaluated(r).mean)
  BY <1>5, EvaluatedSound DEF MeanInv
<1> QED BY <1>4, <1>5, <1>6, KeepsInTwo

LEMMA InitMean == Init => MeanInv
  BY NoMeanSound DEF Init, MeanInv

LEMMA NextMean == MeanInv /\ [Next]_vars => MeanInv'
<1> SUFFICES ASSUME MeanInv, [Next]_vars PROVE MeanInv'
  OBVIOUS
<1> USE DEF MeanInv
<1>1. CASE Evaluate
  BY <1>1, EvaluatedSound, CopiesSound DEF Evaluate
<1>2. CASE Save
  BY <1>2, StoredSound, CopiesSound DEF Save
<1>3. CASE Start
  BY <1>3, StartedSound, CopiesSound DEF Start
<1>4. CASE Stop
  BY <1>4, StoredSound, NoMeanSound, CopiesSound DEF Stop
<1>5. CASE Crash
  BY <1>5, NoMeanSound, CopiesSound DEF Crash
<1>6. CASE Export
  BY <1>6, CopiesSound DEF Export
<1>7. CASE Import
  <2> DEFINE swapped == [room EXCEPT !.mean = blob]
  <2>1. disk' = Stored(swapped) /\ swapped \in Memory /\ swapped.mean = blob
    BY <1>7, ImportedSound
  <2>2. disk' \in Memory /\ Sound(disk'.mean)
    BY <2>1, StoredSound
  <2> QED BY <1>7, <2>2, ImportedSound, CopiesSound DEF Import
<1>8. CASE SensorTurns
  BY <1>8, CopiesSound DEF SensorTurns
<1>9. CASE Tick
  BY <1>9, TickInv
<1>10. CASE UNCHANGED vars
  BY <1>10, CopiesSound DEF vars
<1> QED BY <1>1, <1>2, <1>3, <1>4, <1>5, <1>6, <1>7, <1>8, <1>9, <1>10 DEF Next

LEMMA OnceFromInv == MeanInv => EachDayOnce
  BY DEF MeanInv, Sound, FoldedOnce, Own, EachDayOnce, Mean, Accumulator

(* Only a Start, an Import or an evaluation touches what a loaded room has *)
(* sampled.                                                                *)
LEMMA StepKeeps ==
  MeanInv /\ [Next]_vars
    => (up' => Keeps(IF ~up THEN disk.mean ELSE IF Import THEN blob ELSE room.mean, room'.mean))
<1> SUFFICES ASSUME MeanInv, [Next]_vars, up'
             PROVE  Keeps(IF ~up THEN disk.mean ELSE IF Import THEN blob ELSE room.mean, room'.mean)
  OBVIOUS
<1>1. CASE Start
  BY <1>1, StartedSound DEF Start
<1>2. CASE Import
  BY <1>2, ImportedSound DEF Import
<1>3. CASE Evaluate /\ ~Import
  BY <1>3, EvaluatedSound DEF Evaluate, MeanInv
<1>4. CASE up /\ ~Import /\ UNCHANGED room
  BY <1>4 DEF Keeps
<1>5. CASE ~up /\ ~Start
  <2>1. UNCHANGED up
    BY <1>5 DEF Next, vars, Evaluate, Save, Stop, Crash, Export, Import, SensorTurns, Tick
  <2> QED BY <1>5, <2>1
<1>6. up /\ ~Import /\ ~Evaluate => UNCHANGED room
  BY DEF Next, vars, Save, Start, Stop, Crash, Export, SensorTurns, Tick
<1> QED BY <1>1, <1>2, <1>3, <1>4, <1>5, <1>6

(* A day is folded into T_rm at most once, whole and with nothing but its  *)
(* own samples.                                                            *)
THEOREM FoldsEachDayOnce == Spec => []EachDayOnce
  BY InitMean, NextMean, OnceFromInv, PTL DEF Spec

(* A day that has been sampled is lost only when no evaluation saw the     *)
(* state between the next day's recompute time and its midnight.           *)
THEOREM LosesNoDay == Spec => NoDayIsLost
<1>1. MeanInv /\ [Next]_vars
        => [up' => LET m == IF ~up THEN disk.mean ELSE IF Import THEN blob ELSE room.mean
                   IN \A s \in Samples(m) \ Samples(room'.mean) : m.rolled <= s[1] /\ today > s[1] + 1]_vars
  BY StepKeeps DEF Keeps
<1> QED BY <1>1, InitMean, NextMean, PTL DEF Spec, NoDayIsLost

---------------------------------------------------------------------------
(* What an evaluation makes of a room, field by field.                     *)
LEMMA SamplesIs ==
  ASSUME NEW m, NEW s
  PROVE  s \in Samples(m) <=> \E f \in m.folded \cup {m.current, m.completed} : s \in f.samples
  BY DEF Samples

LEMMA SeededIs ==
  ASSUME NEW m, Sound(m), today \in Nat \ {0}, slot \in Int
  PROVE  /\ Seeded(m) \in Mean /\ Seeded(m).frozen = m.frozen /\ Seeded(m).rolled = m.rolled
         /\ Seeded(m).seeded \in {m.seeded, Now} /\ Samples(Seeded(m)) = Samples(m)
<1>1. Seeded(m) \in Mean /\ m \in Mean
  BY SeededSound DEF Sound
<1>2. /\ Seeded(m).frozen = m.frozen /\ Seeded(m).rolled = m.rolled /\ Seeded(m).seeded \in {m.seeded, Now}
      /\ Seeded(m).folded = m.folded /\ Seeded(m).current = m.current /\ Seeded(m).completed = m.completed
  BY <1>1 DEF Seeded, Mean
<1> QED BY <1>1, <1>2 DEF Samples

LEMMA AddSampleIs ==
  ASSUME NEW m \in Mean
  PROVE  /\ AddSample(m).frozen = FALSE /\ AddSample(m).rolled = m.rolled /\ AddSample(m).seeded = m.seeded
         /\ Samples(AddSample(m)) \subseteq Samples(m) \cup {Now}
<1> DEFINE n == AddSample(m)
<1>1. /\ n.frozen = FALSE /\ n.rolled = m.rolled /\ n.seeded = m.seeded /\ n.folded = m.folded
      /\ n.completed \in {m.current, m.completed}
      /\ n.current.samples \subseteq m.current.samples \cup {Now}
  BY DEF AddSample, Mean
<1> HIDE DEF n
<1>2. ASSUME NEW s \in Samples(n) PROVE s \in Samples(m) \cup {Now}
  BY <1>1, <1>2, SamplesIs
<1> QED BY <1>1, <1>2 DEF n

LEMMA RollIs ==
  ASSUME NEW m \in Mean, NEW n, n = [Roll(m) EXCEPT !.rolled = today]
  PROVE  /\ n.frozen = m.frozen /\ n.seeded = m.seeded /\ n.rolled = today
         /\ Samples(n) \subseteq Samples(m)
<1> DEFINE completed == IF Over(m) /\ m.current.day > m.day THEN m.current ELSE m.completed
           rest == [m EXCEPT !.current = IF Over(m) THEN NoDay ELSE @, !.completed = NoDay]
<1>1. completed \in {m.current, m.completed}
  OBVIOUS
<1>2. /\ rest.frozen = m.frozen /\ rest.seeded = m.seeded /\ rest.folded = m.folded /\ rest.completed = NoDay
      /\ rest.current \in {m.current, NoDay} /\ rest \in [DOMAIN m -> Int \cup {m[x] : x \in DOMAIN m} \cup {NoDay}]
  BY DEF Mean
<1>3. Roll(m) = IF completed.day <= m.day THEN rest ELSE [rest EXCEPT !.day = completed.day, !.folded = @ \cup {completed}]
  BY DEF Roll
<1> HIDE DEF completed, rest
<1>4. /\ n.frozen = m.frozen /\ n.seeded = m.seeded /\ n.rolled = today
      /\ n.folded \subseteq m.folded \cup {completed} /\ n.completed = NoDay /\ n.current \in {m.current, NoDay}
  BY <1>2, <1>3
<1>5. ASSUME NEW s \in Samples(n) PROVE s \in Samples(m)
  BY <1>1, <1>4, <1>5, NoDayTyped, SamplesIs
<1> QED BY <1>4, <1>5

LEMMA SampleOutdoorIs ==
  ASSUME NEW r \in Memory, Sound(r.mean), today \in Nat \ {0}, slot \in Int, sensor \in BOOLEAN,
         NEW n, n = SampleOutdoor(r)
  PROVE  /\ n.at = r.at
         /\ n.seen = (IF sensor THEN Now ELSE r.seen)
         /\ n.sampled = (IF sensor /\ Due(r) THEN Now ELSE r.sampled)
         /\ n.mean.frozen = (IF sensor THEN ~Due(r) /\ r.mean.frozen ELSE r.mean.frozen \/ IsStale(r))
         /\ n.mean.seeded \in {r.mean.seeded, Now} /\ n.mean.rolled = r.mean.rolled
         /\ Samples(n.mean) \subseteq Samples(r.mean) \cup {Now}
<1>1. CASE sensor
  <2> DEFINE seed == Seeded(r.mean)
             s == [r EXCEPT !.seen = Now, !.reported = FALSE, !.mean = seed]
             add == AddSample(seed)
  <2>1. /\ seed \in Mean /\ seed.frozen = r.mean.frozen /\ seed.rolled = r.mean.rolled
        /\ seed.seeded \in {r.mean.seeded, Now} /\ Samples(seed) = Samples(r.mean)
    BY SeededIs
  <2>2. s = [r EXCEPT !.seen = Now, !.reported = FALSE, !.mean = Seeded(@)]
    BY DEF Memory
  <2> HIDE DEF seed
  <2>3. s.mean = seed /\ s.seen = Now /\ s.at = r.at /\ s.sampled = r.sampled
    BY DEF Memory
  <2>4. /\ add.frozen = FALSE /\ add.rolled = seed.rolled /\ add.seeded = seed.seeded
        /\ Samples(add) \subseteq Samples(seed) \cup {Now}
    BY <2>1, AddSampleIs
  <2>5. n = IF Due(r) THEN [s EXCEPT !.sampled = Now, !.mean = add] ELSE s
    BY <1>1, <2>2, <2>3 DEF SampleOutdoor, seed, Memory
  <2>6. DOMAIN s = {"mean", "sampled", "seen", "reported", "at"}
    BY DEF Memory
  <2> HIDE DEF s, add
  <2>7. CASE Due(r)
    <3>1. n.mean = add /\ n.sampled = Now /\ n.seen = Now /\ n.at = r.at
      BY <2>3, <2>5, <2>6, <2>7
    <3>2. Samples(add) \subseteq Samples(r.mean) \cup {Now}
      BY <2>1, <2>4
    <3>3. add.frozen = FALSE /\ add.rolled = r.mean.rolled /\ add.seeded \in {r.mean.seeded, Now}
      BY <2>1, <2>4
    <3> QED BY <1>1, <2>7, <3>1, <3>2, <3>3
  <2>8. CASE ~Due(r)
    <3>1. n.mean = seed /\ n.sampled = r.sampled /\ n.seen = Now /\ n.at = r.at
      BY <2>3, <2>5, <2>8
    <3>2. r.mean.frozen \in BOOLEAN
      BY DEF Memory, Mean
    <3> QED BY <1>1, <2>1, <2>8, <3>1, <3>2
  <2> QED BY <2>7, <2>8
<1>2. CASE ~sensor
  <2> DEFINE f == [r.mean EXCEPT !.frozen = r.mean.frozen \/ Freezes(r)]
  <2>1. r.mean \in Mean
    BY DEF Memory
  <2>2. /\ f.frozen = (r.mean.frozen \/ IsStale(r)) /\ f.seeded = r.mean.seeded /\ f.rolled = r.mean.rolled
        /\ f.folded = r.mean.folded /\ f.current = r.mean.current /\ f.completed = r.mean.completed
    BY <2>1 DEF Mean, Freezes
  <2>3. n = [r EXCEPT !.mean = f, !.reported = @ \/ IsStale(r)]
    BY <1>2, <2>1 DEF SampleOutdoor, Memory, Mean
  <2> HIDE DEF f
  <2>4. n.mean = f /\ n.sampled = r.sampled /\ n.seen = r.seen /\ n.at = r.at
    BY <2>3 DEF Memory
  <2>5. Samples(f) = Samples(r.mean)
    BY <2>2 DEF Samples
  <2> QED BY <1>2, <2>2, <2>4, <2>5
<1> QED BY <1>1, <1>2

LEMMA EvaluatedIs ==
  ASSUME NEW r \in Memory, Sound(r.mean), today \in Nat \ {0}, slot \in Int, sensor \in BOOLEAN,
         NEW n, n = Evaluated(r)
  PROVE  /\ n.at = Now
         /\ n.seen = (IF sensor THEN Now ELSE r.seen)
         /\ n.sampled = (IF sensor /\ Due(r) THEN Now ELSE r.sampled)
         /\ n.mean.frozen = (IF sensor THEN ~Due(r) /\ r.mean.frozen ELSE r.mean.frozen \/ IsStale(r))
         /\ n.mean.seeded \in {r.mean.seeded, Now} /\ n.mean.rolled \in {r.mean.rolled, today}
         /\ Samples(n.mean) \subseteq Samples(r.mean) \cup {Now}
<1> DEFINE s == SampleOutdoor(r)
           l == MaybeRoll(s)
<1>1. s \in Memory /\ s.mean \in Mean
  BY SampleOutdoorSound DEF Sound
<1>2. /\ s.seen = (IF sensor THEN Now ELSE r.seen)
      /\ s.sampled = (IF sensor /\ Due(r) THEN Now ELSE r.sampled)
      /\ s.mean.frozen = (IF sensor THEN ~Due(r) /\ r.mean.frozen ELSE r.mean.frozen \/ IsStale(r))
      /\ s.mean.seeded \in {r.mean.seeded, Now} /\ s.mean.rolled = r.mean.rolled
      /\ Samples(s.mean) \subseteq Samples(r.mean) \cup {Now}
  BY SampleOutdoorIs
<1>3. n = [l EXCEPT !.at = Now]
  BY DEF Evaluated
<1> HIDE DEF s
<1>4. /\ l.seen = s.seen /\ l.sampled = s.sampled /\ l.mean.frozen = s.mean.frozen
      /\ l.mean.seeded = s.mean.seeded /\ l.mean.rolled \in {s.mean.rolled, today}
      /\ Samples(l.mean) \subseteq Samples(s.mean) /\ DOMAIN l = {"mean", "sampled", "seen", "reported", "at"}
  <2>1. CASE slot < RollAt
    BY <1>1, <2>1 DEF MaybeRoll, Memory
  <2>2. CASE ~(slot < RollAt)
    <3> DEFINE m == [Roll(s.mean) EXCEPT !.rolled = today]
    <3>1. /\ m.frozen = s.mean.frozen /\ m.seeded = s.mean.seeded /\ m.rolled = today
          /\ Samples(m) \subseteq Samples(s.mean)
      BY <1>1, RollIs
    <3>2. l = [s EXCEPT !.mean = m]
      BY <1>1, <2>2 DEF MaybeRoll, Memory
    <3> HIDE DEF m
    <3>3. /\ l.mean = m /\ l.seen = s.seen /\ l.sampled = s.sampled
          /\ DOMAIN l = {"mean", "sampled", "seen", "reported", "at"}
      BY <1>1, <3>2 DEF Memory
    <3> QED BY <3>1, <3>3
  <2> QED BY <2>1, <2>2
<1> HIDE DEF l
<1>5. n.at = Now /\ n.seen = l.seen /\ n.sampled = l.sampled /\ n.mean = l.mean
  BY <1>3, <1>4
<1>6. Samples(n.mean) \subseteq Samples(r.mean) \cup {Now}
  BY <1>2, <1>4, <1>5
<1> QED BY <1>2, <1>4, <1>5, <1>6

---------------------------------------------------------------------------
(* The offset is held whenever an evaluation finds the outdoor temperature *)
(* out, and a sample lifts the hold: what the memory remembers is of the   *)
(* past, and where memory and store have the same sample, the memory is    *)
(* held if the store is.                                                   *)
Past(t) == t \in Times /\ Since(t) >= 0

Recalls(r) == /\ Past(r.sampled) /\ Past(r.seen) /\ Past(r.at)
              /\ r.sampled = Now => r.seen = Now
              /\ r.seen = Now => Since(r.sampled) < Interval

Lifted(r) == r.sampled = Now /\ r.mean.frozen => blob.frozen

Clock == today \in 1..LastDay /\ slot \in 0..Slots - 1

HoldInv ==
  /\ Clock /\ Recalls(room) /\ Recalls(disk) /\ Lifted(room) /\ Lifted(disk)
  /\ room.at = Now /\ IsStale(room) => room.mean.frozen
  /\ up /\ disk.sampled = Now => room.sampled = Now /\ (disk.mean.frozen => room.mean.frozen)

LEMMA ClockFacts == Clock => /\ Past(Now) /\ Since(Now) = 0 /\ Past(Never) /\ Never # Now
<1> SUFFICES ASSUME Clock PROVE Past(Now) /\ Since(Now) = 0 /\ Past(Never) /\ Never # Now
  OBVIOUS
<1>1. today \in Nat /\ slot \in Nat /\ Slots \in Nat \ {0}
  BY DaysAssumption DEF Clock
<1>2. Now \in Times /\ Never \in Times /\ Never # Now
  BY <1>1, DaysAssumption DEF Clock, Now, Never, Times
<1>3. Since(Now) = 0
  BY <1>1 DEF Since, Now
<1>4. Since(Never) >= 0
  <2>1. (today + 1) * Slots \in Nat
    BY <1>1
  <2>2. Since(Never) = (today + 1) * Slots + slot
    BY <1>1 DEF Since, Never
  <2> QED BY <2>1, <2>2, <1>1
<1> QED BY <1>2, <1>3, <1>4 DEF Past

(* The slot after slot s of day d is one slot later, seen from any time.   *)
LEMMA SlotAfter ==
  ASSUME NEW d \in Int, NEW s \in Int, NEW p \in Int, NEW q \in Int, NEW n \in Int, NEW k \in Int,
         NEW d1 \in Int, NEW s1 \in Int, k = (d - p) * n,
         (s1 = s + 1 /\ d1 = d) \/ (s + 1 = n /\ s1 = 0 /\ d1 = d + 1)
  PROVE  (d1 - p) * n + s1 - q = k + s - q + 1
<1>1. (d + 1 - p) * n = (d - p) * n + n
  OBVIOUS
<1>2. CASE s1 = s + 1 /\ d1 = d
  <2>1. (d1 - p) * n = k
    BY <1>2
  <2> QED BY <2>1, <1>2
<1>3. CASE s + 1 = n /\ s1 = 0 /\ d1 = d + 1
  <2>1. (d1 - p) * n = k + n
    BY <1>1, <1>3
  <2> QED BY <2>1, <1>3
<1> QED BY <1>2, <1>3

LEMMA TickClock ==
  ASSUME Clock, Tick
  PROVE  Clock' /\ \A t : Past(t) => Past(t)' /\ t # Now'
<1>1. Slots \in Nat \ {0} /\ today \in Int /\ slot \in Int /\ LastDay \in Nat
  BY DaysAssumption DEF Clock
<1>2. Clock' /\ today' \in Int /\ slot' \in Int
  BY <1>1 DEF Clock, Tick
<1>3. (slot' = slot + 1 /\ today' = today) \/ (slot + 1 = Slots /\ slot' = 0 /\ today' = today + 1)
  BY <1>1 DEF Clock, Tick
<1>4. ASSUME NEW t, Past(t) PROVE Past(t)' /\ t # Now'
  <2>1. t \in Times /\ Since(t) >= 0 /\ t[1] \in Int /\ t[2] \in Int
    BY <1>1, <1>4 DEF Past, Times
  <2> DEFINE k == (today - t[1]) * Slots
             k1 == (today' - t[1]) * Slots
  <2>2. k \in Int /\ k1 \in Int
    BY <2>1, <1>1, <1>2
  <2>3. k1 + slot' - t[2] = k + slot - t[2] + 1
    <3> DEFINE d == today
               s == slot
               d1 == today'
               s1 == slot'
               p == t[1]
               q == t[2]
    <3>1. /\ d \in Int /\ s \in Int /\ d1 \in Int /\ s1 \in Int /\ p \in Int /\ q \in Int /\ k \in Int
          /\ Slots \in Int /\ k = (d - p) * Slots /\ k1 = (d1 - p) * Slots
          /\ (s1 = s + 1 /\ d1 = d) \/ (s + 1 = Slots /\ s1 = 0 /\ d1 = d + 1)
      BY <2>1, <2>2, <1>1, <1>2, <1>3
    <3> HIDE DEF d, s, d1, s1, p, q, k, k1
    <3>2. k1 + s1 - q = k + s - q + 1
      BY <3>1, SlotAfter
    <3> QED BY <3>2 DEF s, s1, q
  <2>4. k + slot - t[2] >= 0
    BY <2>1 DEF Since
  <2>5. t = Now' => k1 + slot' - t[2] = 0
    <3>1. \A d \in Int : (d - d) * Slots = 0
      <4>1. \A d \in Int : d - d = 0
        OBVIOUS
      <4> QED BY <4>1, <1>1
    <3>2. t = Now' => t[1] = today' /\ t[2] = slot'
      BY DEF Now
    <3>3. t[1] = today' => k1 = 0
      BY <3>1, <1>2
    <3> HIDE DEF k1
    <3> QED BY <3>2, <3>3, <1>2
  <2>6. Past(t)' <=> t \in Times /\ k1 + slot' - t[2] >= 0
    BY DEF Past, Times, Since
  <2> HIDE DEF k, k1
  <2>7. k1 + slot' - t[2] >= 1
    BY <2>1, <2>2, <2>3, <2>4, <1>1, <1>2
  <2> QED BY <2>1, <2>2, <2>5, <2>6, <2>7, <1>2
<1> QED BY <1>2, <1>4

(* What holds of a room, evaluated, that recalled the past before.         *)
LEMMA EvaluatedHolds ==
  ASSUME NEW r \in Memory, Sound(r.mean), MeanInv, Clock, Recalls(r), Lifted(r), NEW n, n = Evaluated(r)
  PROVE  /\ Recalls(n) /\ Lifted(n) /\ n.at = Now
         /\ IsStale(n) => n.mean.frozen
         /\ r.sampled = Now => n.sampled = Now /\ (r.mean.frozen => n.mean.frozen)
<1>1. /\ n.at = Now
      /\ n.seen = (IF sensor THEN Now ELSE r.seen)
      /\ n.sampled = (IF sensor /\ Due(r) THEN Now ELSE r.sampled)
      /\ n.mean.frozen = (IF sensor THEN ~Due(r) /\ r.mean.frozen ELSE r.mean.frozen \/ IsStale(r))
  BY EvaluatedIs DEF MeanInv
<1>2. /\ Past(Now) /\ Since(Now) = 0 /\ Past(Never) /\ Never # Now
      /\ Interval \in Nat \ {0} /\ Stale \in Nat /\ today \in Int /\ slot \in Int /\ Slots \in Int
  BY ClockFacts, DaysAssumption DEF Clock
<1>3. Since(r.sampled) \in Int
  BY <1>2 DEF Since, Recalls, Past, Times
<1>4. r.sampled = Now => ~Due(r) /\ ~IsStale(r)
  BY <1>2 DEF Due, IsStale, Recalls
<1>5. Recalls(n)
  <2>1. CASE sensor /\ Due(r)
    BY <1>1, <1>2, <2>1 DEF Recalls
  <2>2. CASE sensor /\ ~Due(r)
    BY <1>1, <1>2, <1>3, <2>2 DEF Recalls, Due
  <2>3. CASE ~sensor
    BY <1>1, <1>2, <2>3 DEF Recalls
  <2> QED BY <2>1, <2>2, <2>3
<1>6. Lifted(n)
  BY <1>1, <1>4 DEF Lifted, MeanInv
<1>7. IsStale(n) => n.mean.frozen
  <2>1. CASE sensor
    BY <1>1, <1>2, <2>1 DEF IsStale
  <2>2. CASE ~sensor
    BY <1>1, <2>2 DEF IsStale
  <2> QED BY <2>1, <2>2 DEF MeanInv
<1>8. r.sampled = Now => n.sampled = Now /\ (r.mean.frozen => n.mean.frozen)
  BY <1>1, <1>4 DEF MeanInv
<1> QED BY <1>1, <1>5, <1>6, <1>7, <1>8

LEMMA StoredIs ==
  ASSUME NEW r \in Memory, Clock, Recalls(r), Lifted(r), NEW n, n = Stored(r)
  PROVE  Recalls(n) /\ Lifted(n) /\ n.sampled = r.sampled /\ n.mean = r.mean
<1>1. n.sampled = r.sampled /\ n.seen = r.seen /\ n.at = Never /\ n.mean = r.mean
  BY DEF Stored, Memory
<1> QED BY <1>1, ClockFacts DEF Recalls, Lifted

LEMMA InitHold == Init => HoldInv
<1> SUFFICES ASSUME Init PROVE HoldInv
  OBVIOUS
<1>1. Clock
  BY DaysAssumption DEF Init, Clock
<1>2. /\ room.sampled = Never /\ room.seen = Never /\ room.at = Never
      /\ disk.sampled = Never /\ disk.seen = Never /\ disk.at = Never
  BY DEF Init, NoRoom
<1> QED BY <1>1, <1>2, ClockFacts DEF HoldInv, Recalls, Lifted

(* A step within a slot.                                                   *)
LEMMA WithinSlot ==
  ASSUME UNCHANGED <<today, slot>>
  PROVE  /\ Clock' <=> Clock
         /\ \A r : (Recalls(r)' <=> Recalls(r)) /\ (IsStale(r)' <=> IsStale(r))
         /\ Now' = Now
  BY DEF Clock, Recalls, IsStale, Past, Since, Now, Times

LEMMA NextHold == MeanInv /\ HoldInv /\ [Next]_vars => HoldInv'
<1> SUFFICES ASSUME MeanInv, HoldInv, [Next]_vars PROVE HoldInv'
  OBVIOUS
<1>1. ASSUME NEW r, NEW d, NEW b, UNCHANGED <<today, slot>>,
             room' = r, disk' = d, blob' = b, Recalls(r), Recalls(d),
             r.sampled = Now /\ r.mean.frozen => b.frozen,
             d.sampled = Now /\ d.mean.frozen => b.frozen,
             r.at = Now /\ IsStale(r) => r.mean.frozen,
             up' /\ d.sampled = Now => r.sampled = Now /\ (d.mean.frozen => r.mean.frozen)
      PROVE  HoldInv'
  BY <1>1, WithinSlot DEF HoldInv, Lifted
<1>2. /\ Clock /\ room \in Memory /\ disk \in Memory /\ Sound(room.mean) /\ Sound(disk.mean) /\ Sound(blob)
      /\ Recalls(room) /\ Recalls(disk) /\ Lifted(room) /\ Lifted(disk)
  BY DEF MeanInv, HoldInv
<1>3. Recalls(NoRoom) /\ NoRoom.sampled # Now /\ NoRoom.at # Now
  BY <1>2, ClockFacts DEF NoRoom, Recalls
<1>4. CASE Evaluate
  <2>1. /\ Recalls(room') /\ Lifted(room') /\ (IsStale(room') => room'.mean.frozen)
        /\ room.sampled = Now => room'.sampled = Now /\ (room.mean.frozen => room'.mean.frozen)
    BY <1>2, <1>4, EvaluatedHolds DEF Evaluate
  <2> QED BY <1>1, <1>2, <1>4, <2>1 DEF Evaluate, HoldInv, Lifted
<1>5. CASE Save
  BY <1>1, <1>2, <1>5, StoredIs DEF Save, HoldInv, Lifted
<1>6. CASE Start
  <2>1. PICK recorder \in BOOLEAN :
          room' = Evaluated(IF recorder \/ sensor THEN [disk EXCEPT !.mean = Seeded(@)] ELSE disk)
    BY <1>6 DEF Start
  <2> DEFINE seed == Seeded(disk.mean)
             r == IF recorder \/ sensor THEN [disk EXCEPT !.mean = seed] ELSE disk
  <2>2. seed \in Mean /\ Sound(seed) /\ seed.frozen = disk.mean.frozen
    BY <1>2, SeededSound, SeededIs DEF MeanInv
  <2>3. room' = Evaluated(r)
    BY <1>2, <2>1 DEF Memory
  <2> HIDE DEF seed
  <2>4. /\ r \in Memory /\ Sound(r.mean) /\ r.mean.frozen = disk.mean.frozen
        /\ r.sampled = disk.sampled /\ r.seen = disk.seen /\ r.at = disk.at
    <3>1. CASE recorder \/ sensor
      <4>1. r = [disk EXCEPT !.mean = seed]
        BY <3>1
      <4>2. /\ r \in Memory /\ r.mean = seed
            /\ r.sampled = disk.sampled /\ r.seen = disk.seen /\ r.at = disk.at
        BY <1>2, <2>2, <4>1 DEF Memory
      <4> QED BY <4>2, <2>2
    <3>2. CASE ~(recorder \/ sensor)
      BY <3>2, <1>2
    <3> QED BY <3>1, <3>2
  <2> HIDE DEF r
  <2>5. Recalls(r) /\ Lifted(r)
    BY <1>2, <2>4 DEF Recalls, Lifted
  <2>6. /\ Recalls(room') /\ Lifted(room') /\ (IsStale(room') => room'.mean.frozen)
        /\ r.sampled = Now => room'.sampled = Now /\ (r.mean.frozen => room'.mean.frozen)
    BY <1>2, <2>3, <2>4, <2>5, EvaluatedHolds
  <2> QED BY <1>1, <1>2, <1>6, <2>4, <2>6 DEF Start, Lifted
<1>7. CASE Stop
  <2>1. Recalls(disk') /\ Lifted(disk')
    BY <1>2, <1>7, StoredIs DEF Stop
  <2> QED BY <1>1, <1>3, <1>7, <2>1 DEF Stop, Lifted
<1>8. CASE Crash
  BY <1>1, <1>2, <1>3, <1>8 DEF Crash, Lifted
<1>9. CASE Export
  <2>1. disk.sampled = Now /\ disk.mean.frozen => room.mean.frozen
    BY <1>9 DEF Export, HoldInv
  <2> QED BY <1>1, <1>2, <1>9, <2>1 DEF Export, HoldInv
<1>10. CASE Import
  <2> DEFINE swapped == [room EXCEPT !.mean = blob]
  <2>1. /\ swapped \in Memory /\ swapped.mean = blob
        /\ room' = Evaluated(swapped) /\ disk' = Stored(swapped)
    BY <1>10, ImportedSound
  <2>2. swapped.sampled = room.sampled /\ swapped.seen = room.seen /\ swapped.at = room.at
    BY <1>2 DEF Memory
  <2> HIDE DEF swapped
  <2>3. Recalls(swapped) /\ Lifted(swapped)
    BY <1>2, <2>1, <2>2 DEF Recalls, Lifted
  <2>4. /\ Recalls(room') /\ Lifted(room') /\ (IsStale(room') => room'.mean.frozen)
        /\ swapped.sampled = Now => room'.sampled = Now /\ (swapped.mean.frozen => room'.mean.frozen)
    BY <1>2, <2>1, <2>3, EvaluatedHolds
  <2>5. Recalls(disk') /\ Lifted(disk') /\ disk'.sampled = swapped.sampled /\ disk'.mean = swapped.mean
    BY <1>2, <2>1, <2>3, StoredIs
  <2> QED BY <1>1, <1>10, <2>4, <2>5 DEF Import, Lifted
<1>11. CASE SensorTurns
  BY <1>1, <1>2, <1>11 DEF SensorTurns, HoldInv, Lifted
<1>12. CASE Tick
  <2>1. Clock' /\ \A t : Past(t) => Past(t)' /\ t # Now'
    BY <1>2, <1>12, TickClock
  <2>2. UNCHANGED <<room, disk, blob, up>>
    BY <1>12 DEF Tick
  <2>3. ASSUME NEW r, Recalls(r) PROVE Recalls(r)' /\ r.sampled # Now' /\ r.at # Now'
    BY <2>1, <2>3 DEF Recalls
  <2> QED BY <1>2, <2>1, <2>2, <2>3 DEF HoldInv, Lifted, Recalls
<1>13. CASE UNCHANGED vars
  BY <1>1, <1>2, <1>13 DEF vars, HoldInv, Lifted
<1> QED BY <1>4, <1>5, <1>6, <1>7, <1>8, <1>9, <1>10, <1>11, <1>12, <1>13 DEF Next

LEMMA HoldFromInv == HoldInv => HeldWhileStale
  BY DEF HoldInv, HeldWhileStale, Recalls, Lifted

(* Whenever the last evaluation found the outdoor temperature out for too  *)
(* long the offset is held; a sample lifts the hold, and readings are soon *)
(* followed by one.                                                        *)
THEOREM HoldsWhileStale == Spec => []HeldWhileStale
  BY InitMean, NextMean, InitHold, NextHold, HoldFromInv, PTL DEF Spec

---------------------------------------------------------------------------
(* What the variables hold, beyond what MeanInv and HoldInv say of it.     *)
Ranged(m) == /\ m.seeded \in Times /\ m.rolled >= -1
             /\ \A s \in Samples(m) : s[1] \in 1..today /\ s[2] \in 0..Slots - 1

RangeInv == /\ up \in BOOLEAN /\ moves \in 0..MaxMoves
            /\ Ranged(room.mean) /\ Ranged(disk.mean) /\ Ranged(blob)

LEMMA NowRanged == Clock => Now \in Times /\ Now[1] \in 1..today /\ Now[2] \in 0..Slots - 1 /\ today >= -1
  BY DaysAssumption DEF Clock, Now, Times

LEMMA EvaluatedRanged ==
  ASSUME NEW r \in Memory, Sound(r.mean), MeanInv, Clock, Ranged(r.mean), NEW n, n = Evaluated(r)
  PROVE  Ranged(n.mean)
  BY EvaluatedIs, NowRanged DEF MeanInv, Ranged

LEMMA NoMeanRanged == Clock => Ranged(NoMean) /\ NoRoom.mean = NoMean
<1> SUFFICES ASSUME Clock PROVE Ranged(NoMean) /\ NoRoom.mean = NoMean
  OBVIOUS
<1>1. NoMean.seeded = Never /\ NoMean.rolled = -1 /\ NoRoom.mean = NoMean
  BY DEF NoMean, NoRoom
<1>2. Samples(NoMean) = {}
  BY NoDayTyped DEF NoMean, Samples
<1> QED BY <1>1, <1>2, ClockFacts DEF Ranged, Past

LEMMA NextRange == MeanInv /\ HoldInv /\ RangeInv /\ [Next]_vars => RangeInv'
<1> SUFFICES ASSUME MeanInv, HoldInv, RangeInv, [Next]_vars PROVE RangeInv'
  OBVIOUS
<1>1. /\ Clock /\ room \in Memory /\ disk \in Memory /\ Sound(room.mean) /\ Sound(disk.mean) /\ Sound(blob)
      /\ Ranged(room.mean) /\ Ranged(disk.mean) /\ Ranged(blob)
  BY DEF MeanInv, HoldInv, RangeInv
<1>2. up' \in BOOLEAN /\ moves' \in 0..MaxMoves
  <2>1. moves' = moves \/ Move
    BY DEF Next, vars, Evaluate, Save, Start, Stop, Crash, Export, Import, SensorTurns, Tick
  <2>2. up' \in {up, TRUE, FALSE}
    BY DEF Next, vars, Evaluate, Save, Start, Stop, Crash, Export, Import, SensorTurns, Tick
  <2>3. MaxMoves \in Nat /\ moves \in 0..MaxMoves /\ up \in BOOLEAN
    BY DaysAssumption DEF RangeInv
  <2>4. moves' \in 0..MaxMoves
    BY <2>1, <2>3 DEF Move
  <2>5. up' \in BOOLEAN
    BY <2>2, <2>3
  <2> QED BY <2>4, <2>5
<1>3. ASSUME NEW r, NEW d, NEW b, UNCHANGED <<today, slot>>,
             room' = r, disk' = d, blob' = b, Ranged(r.mean), Ranged(d.mean), Ranged(b)
      PROVE  RangeInv'
  <2>1. \A m : Ranged(m)' <=> Ranged(m)
    BY <1>3 DEF Ranged, Times, Samples
  <2> QED BY <1>2, <1>3, <2>1 DEF RangeInv
<1>4. Ranged(NoRoom.mean)
  BY <1>1, NoMeanRanged
<1>5. CASE Evaluate
  BY <1>1, <1>3, <1>5, EvaluatedRanged DEF Evaluate
<1>6. CASE Save
  BY <1>1, <1>3, <1>6, StoredSound DEF Save
<1>7. CASE Start
  <2>1. PICK recorder \in BOOLEAN :
          room' = Evaluated(IF recorder \/ sensor THEN [disk EXCEPT !.mean = Seeded(@)] ELSE disk)
    BY <1>7 DEF Start
  <2> DEFINE seed == Seeded(disk.mean)
             r == IF recorder \/ sensor THEN [disk EXCEPT !.mean = seed] ELSE disk
  <2>2. seed \in Mean /\ Sound(seed)
    BY <1>1, SeededSound, SeededIs DEF MeanInv
  <2>3. Ranged(seed)
    <3>1. seed.rolled = disk.mean.rolled /\ seed.seeded \in {disk.mean.seeded, Now} /\ Samples(seed) = Samples(disk.mean)
      BY <1>1, SeededIs DEF MeanInv
    <3> QED BY <1>1, <3>1, NowRanged DEF Ranged
  <2>4. room' = Evaluated(r)
    BY <1>1, <2>1 DEF Memory
  <2> HIDE DEF seed
  <2>5. r \in Memory /\ Sound(r.mean) /\ Ranged(r.mean)
    <3>1. CASE recorder \/ sensor
      <4>1. r = [disk EXCEPT !.mean = seed]
        BY <3>1
      <4>2. r \in Memory /\ r.mean = seed
        BY <1>1, <2>2, <4>1 DEF Memory
      <4> QED BY <4>2, <2>2, <2>3
    <3>2. CASE ~(recorder \/ sensor)
      BY <3>2, <1>1
    <3> QED BY <3>1, <3>2
  <2> HIDE DEF r
  <2>6. Ranged(room'.mean)
    BY <1>1, <2>4, <2>5, EvaluatedRanged
  <2> QED BY <1>1, <1>3, <1>7, <2>6 DEF Start
<1>8. CASE Stop
  <2>1. Ranged(disk'.mean)
    BY <1>1, <1>8, StoredSound DEF Stop
  <2> QED BY <1>1, <1>3, <1>4, <1>8, <2>1 DEF Stop
<1>9. CASE Crash
  BY <1>1, <1>3, <1>4, <1>9 DEF Crash
<1>10. CASE Export
  BY <1>1, <1>3, <1>10 DEF Export
<1>11. CASE Import
  <2> DEFINE swapped == [room EXCEPT !.mean = blob]
  <2>1. /\ swapped \in Memory /\ swapped.mean = blob
        /\ room' = Evaluated(swapped) /\ disk' = Stored(swapped)
    BY <1>11, ImportedSound
  <2> HIDE DEF swapped
  <2>2. Ranged(room'.mean)
    BY <1>1, <2>1, EvaluatedRanged
  <2>3. Ranged(disk'.mean)
    BY <1>1, <2>1, StoredSound
  <2> QED BY <1>1, <1>3, <1>11, <2>2, <2>3 DEF Import
<1>12. CASE SensorTurns
  BY <1>1, <1>3, <1>12 DEF SensorTurns
<1>13. CASE Tick
  <2>1. today \in Int /\ today' \in Int /\ today <= today' /\ UNCHANGED <<room, disk, blob>>
    BY <1>13 DEF Tick, MeanInv
  <2>2. ASSUME NEW m, Ranged(m) PROVE Ranged(m)'
    BY <2>1, <2>2 DEF Ranged, Times, Samples
  <2> QED BY <1>1, <1>2, <2>1, <2>2 DEF RangeInv
<1>14. CASE UNCHANGED vars
  BY <1>1, <1>3, <1>14 DEF vars
<1> QED BY <1>5, <1>6, <1>7, <1>8, <1>9, <1>10, <1>11, <1>12, <1>13, <1>14 DEF Next

LEMMA InitRange == Init => RangeInv
<1> SUFFICES ASSUME Init PROVE RangeInv
  OBVIOUS
<1>1. Clock
  BY DaysAssumption DEF Init, Clock
<1>2. Ranged(room.mean) /\ Ranged(disk.mean) /\ Ranged(blob)
  BY <1>1, NoMeanRanged DEF Init
<1>3. up \in BOOLEAN
  BY DEF Init
<1>4. moves \in 0..MaxMoves
  BY DaysAssumption DEF Init
<1> QED BY <1>2, <1>3, <1>4 DEF RangeInv

LEMMA TypeFromInv == MeanInv /\ HoldInv /\ RangeInv => TypeOK
<1> SUFFICES ASSUME MeanInv, HoldInv, RangeInv PROVE TypeOK
  OBVIOUS
<1>1. ASSUME NEW m, Sound(m), Ranged(m)
      PROVE  /\ m.seeded \in Times /\ {m.day, m.rolled} \subseteq -1..today /\ m.frozen \in BOOLEAN
             /\ Samples(m) # {} => m.seeded # Never
             /\ \A s \in Samples(m) : s[1] \in 1..today /\ s[2] \in 0..Slots - 1
  <2>1. m \in Mean /\ -1 <= m.day /\ m.day < today /\ m.rolled <= today /\ today \in Int
    BY <1>1 DEF Sound, MeanInv
  <2>2. {m.day, m.rolled} \subseteq -1..today /\ m.frozen \in BOOLEAN
    BY <1>1, <2>1 DEF Mean, Ranged
  <2>3. m.seeded = Never => Samples(m) = {}
    BY <1>1, NoDayTyped DEF Sound, SeedFirst, Samples
  <2> QED BY <1>1, <2>2, <2>3 DEF Ranged
<1>2. ASSUME NEW r \in Memory, Recalls(r)
      PROVE  {r.sampled, r.seen, r.at} \subseteq Times /\ r.reported \in BOOLEAN
  BY <1>2 DEF Recalls, Past, Memory
<1>3. today \in 1..LastDay /\ slot \in 0..Slots - 1 /\ sensor \in BOOLEAN /\ up \in BOOLEAN /\ moves \in 0..MaxMoves
  BY DEF MeanInv, HoldInv, Clock, RangeInv
<1>4. \A r \in {room, disk} : {r.sampled, r.seen, r.at} \subseteq Times /\ r.reported \in BOOLEAN
  BY <1>2 DEF MeanInv, HoldInv
<1>5. \A m \in {room.mean, disk.mean, blob} : Sound(m) /\ Ranged(m)
  BY DEF MeanInv, RangeInv
<1> QED BY <1>1, <1>3, <1>4, <1>5 DEF TypeOK

(* The variables keep their types, a mean without a seed has no samples,   *)
(* and none has samples of later.                                          *)
THEOREM TypesHold == Spec => []TypeOK
  BY InitMean, NextMean, InitHold, NextHold, InitRange, NextRange, TypeFromInv, PTL DEF Spec

-----------------------------------------------------------------------------
(***************************************************************************)
(* The computed target: division, rounding, the band of the room.          *)
(***************************************************************************)
LEMMA DivBounds ==
  ASSUME NEW a \in Int, NEW s \in Int, s > 0
  PROVE  a \div s \in Int /\ s * (a \div s) <= a /\ a < s * (a \div s) + s
  OBVIOUS

LEMMA DivLargest ==
  ASSUME NEW a \in Int, NEW s \in Int, s > 0, NEW m \in Int, m * s <= a
  PROVE  m * s <= (a \div s) * s
<1> DEFINE d == a \div s
<1>1. d \in Int /\ a < s * d + s
  BY DivBounds
<1>2. CASE m <= d
  <2>1. (d - m) * s >= 0
    BY <1>1, <1>2
  <2> QED BY <1>1, <2>1
<1>3. CASE m >= d + 1
  <2>1. (m - d - 1) * s >= 0
    BY <1>1, <1>3
  <2> QED BY <1>1, <2>1
<1> QED BY <1>1, <1>2, <1>3

LEMMA DownIs ==
  ASSUME NEW v \in Int, NEW s \in Int, s > 0
  PROVE  /\ Down(v, s) \in Int /\ Down(v, s) <= v /\ v - Down(v, s) < s
         /\ \E k \in Int : Down(v, s) = k * s
         /\ \A m \in Int : m * s <= v => m * s <= Down(v, s)
<1>1. v \div s \in Int /\ s * (v \div s) <= v /\ v < s * (v \div s) + s
  BY DivBounds
<1>2. \A m \in Int : m * s <= v => m * s <= (v \div s) * s
  BY DivLargest
<1> QED BY <1>1, <1>2 DEF Down

LEMMA UpIs ==
  ASSUME NEW v \in Int, NEW s \in Int, s > 0
  PROVE  /\ Up(v, s) \in Int /\ Up(v, s) >= v /\ Up(v, s) - v < s
         /\ \E k \in Int : Up(v, s) = k * s
         /\ \A m \in Int : m * s >= v => m * s >= Up(v, s)
<1> DEFINE d == (-v) \div s
<1>1. d \in Int /\ s * d <= -v /\ -v < s * d + s
  BY DivBounds
<1>2. Up(v, s) = (-d) * s
  BY <1>1 DEF Up
<1>3. ASSUME NEW m \in Int, m * s >= v
      PROVE  m * s >= Up(v, s)
  <2>1. (-m) * s = -(m * s)
    OBVIOUS
  <2>2. (-m) * s <= d * s
    BY <2>1, <1>3, DivLargest
  <2> QED BY <1>1, <1>2, <2>1, <2>2
<1> HIDE DEF d
<1>4. -d \in Int /\ (-d) * s = -(s * d)
  BY <1>1
<1> QED BY <1>1, <1>2, <1>3, <1>4

(* The nearest multiple is at most half a step away.                       *)
LEMMA QuantiseIs ==
  ASSUME NEW v \in Int, NEW s \in Int, s > 0
  PROVE  /\ Quantise(v, s) \in Int /\ \E k \in Int : Quantise(v, s) = k * s
         /\ 2 * (Quantise(v, s) - v) <= s /\ 2 * (v - Quantise(v, s)) <= s
<1>1. CASE v >= 0
  <2> DEFINE d == (2 * v + s) \div (2 * s)
  <2>1. d \in Int /\ (2 * s) * d <= 2 * v + s /\ 2 * v + s < (2 * s) * d + 2 * s
    BY DivBounds
  <2>2. Quantise(v, s) = d * s
    BY <1>1 DEF Quantise
  <2> HIDE DEF d
  <2>3. (2 * s) * d = 2 * (d * s) /\ d * s \in Int
    BY <2>1
  <2> QED BY <2>1, <2>2, <2>3
<1>2. CASE v < 0
  <2> DEFINE d == (s - 2 * v) \div (2 * s)
  <2>1. d \in Int /\ (2 * s) * d <= s - 2 * v /\ s - 2 * v < (2 * s) * d + 2 * s
    BY DivBounds
  <2>2. Quantise(v, s) = -(d * s)
    BY <1>2 DEF Quantise
  <2> HIDE DEF d
  <2>3. (2 * s) * d = 2 * (d * s) /\ d * s \in Int /\ -(d * s) = (-d) * s /\ -d \in Int
    BY <2>1
  <2> QED BY <2>1, <2>2, <2>3
<1> QED BY <1>1, <1>2

(* What is written to a preset never leaves the band of the room, however  *)
(* narrow that is and whatever multiples of the step lie in it.            *)
THEOREM QuantisedInBand ==
  ASSUME NEW value \in Int, NEW step \in Int, step > 0,
         NEW lo \in Int, NEW hi \in Int, lo <= hi
  PROVE  QuantiseWithin(value, step, lo, hi) \in lo .. hi
<1> DEFINE clamped == Clamp(value, lo, hi)
           nearest == Quantise(clamped, step)
           below == IF nearest > hi THEN Down(hi, step) ELSE nearest
           q == IF below < lo THEN Up(lo, step) ELSE below
<1>1. clamped \in lo .. hi
  BY DEF Clamp
<1>2. nearest \in Int /\ Down(hi, step) \in Int /\ Up(lo, step) \in Int
  BY <1>1, QuantiseIs, DownIs, UpIs
<1>3. q \in Int /\ QuantiseWithin(value, step, lo, hi) = IF q < lo \/ q > hi THEN clamped ELSE q
  BY <1>2 DEF QuantiseWithin
<1> HIDE DEF q, clamped
<1> QED BY <1>1, <1>3

(* A band that holds a multiple of the step gets one: stepping back inward *)
(* from either edge finds it, and moves the value by less than a step.     *)
THEOREM QuantisedOnStep ==
  ASSUME NEW value \in Int, NEW step \in Int, step > 0,
         NEW lo \in Int, NEW hi \in Int, NEW m \in Int, lo <= m * step, m * step <= hi
  PROVE  LET q == QuantiseWithin(value, step, lo, hi)
         IN /\ \E k \in Int : q = k * step
            /\ q - Clamp(value, lo, hi) < step /\ Clamp(value, lo, hi) - q < step
<1> DEFINE clamped == Clamp(value, lo, hi)
           nearest == Quantise(clamped, step)
           below == IF nearest > hi THEN Down(hi, step) ELSE nearest
           q == IF below < lo THEN Up(lo, step) ELSE below
<1>0. m * step \in Int /\ lo <= hi
  OBVIOUS
<1>1. clamped \in Int /\ lo <= clamped /\ clamped <= hi
  BY <1>0 DEF Clamp
<1>2. /\ nearest \in Int /\ \E k \in Int : nearest = k * step
      /\ 2 * (nearest - clamped) <= step /\ 2 * (clamped - nearest) <= step
  BY <1>1, QuantiseIs
<1>3. QuantiseWithin(value, step, lo, hi) = IF q < lo \/ q > hi THEN clamped ELSE q
  BY DEF QuantiseWithin
<1> HIDE DEF clamped, nearest
<1>4. CASE nearest > hi
  <2>1. /\ Down(hi, step) \in Int /\ Down(hi, step) <= hi /\ hi - Down(hi, step) < step
        /\ \E k \in Int : Down(hi, step) = k * step
        /\ m * step <= Down(hi, step)
    BY DownIs
  <2>2. q = Down(hi, step)
    BY <1>0, <1>4, <2>1
  <2>3. clamped - q < step /\ q - clamped < step /\ ~(q < lo \/ q > hi)
    BY <1>0, <1>1, <1>2, <1>4, <2>1, <2>2
  <2> QED BY <1>3, <2>1, <2>2, <2>3 DEF clamped
<1>5. CASE nearest <= hi /\ nearest < lo
  <2>1. /\ Up(lo, step) \in Int /\ Up(lo, step) >= lo /\ Up(lo, step) - lo < step
        /\ \E k \in Int : Up(lo, step) = k * step
        /\ m * step >= Up(lo, step)
    BY UpIs
  <2>2. q = Up(lo, step)
    BY <1>0, <1>2, <1>5
  <2>3. clamped - q < step /\ q - clamped < step /\ ~(q < lo \/ q > hi)
    BY <1>0, <1>1, <1>2, <1>5, <2>1, <2>2
  <2> QED BY <1>3, <2>1, <2>2, <2>3 DEF clamped
<1>6. CASE nearest <= hi /\ nearest >= lo
  <2>1. q = nearest /\ ~(q < lo \/ q > hi)
    BY <1>2, <1>6
  <2>2. clamped - q < step /\ q - clamped < step
    BY <1>1, <1>2, <2>1
  <2> QED BY <1>2, <1>3, <2>1, <2>2 DEF clamped
<1> QED BY <1>2, <1>4, <1>5, <1>6

(* Colder outside never means a colder room (D65): through the cap of the  *)
(* offset and the clamp of the band, a lower running mean gives a target   *)
(* that is at least as warm.                                               *)
THEOREM ColderIsWarmer ==
  ASSUME NEW base \in Int, NEW slope \in Nat, NEW cold \in Int, NEW mild \in Int, cold <= mild,
         NEW t_ref \in Int, NEW extra \in Int, NEW max_offset \in Nat,
         NEW lo \in Int, NEW hi \in Int, lo <= hi, NEW held \in BOOLEAN
  PROVE  Target(base, slope, cold, t_ref, held, extra, max_offset, lo, hi)
           >= Target(base, slope, mild, t_ref, held, extra, max_offset, lo, hi)
<1> DEFINE c == Requested(slope, cold, t_ref, held)
           w == Requested(slope, mild, t_ref, held)
<1>1. c \in Int /\ w \in Int
  BY DEF Requested
<1>2. c >= w
  <2>1. slope * (mild - cold) >= 0
    OBVIOUS
  <2>2. slope * (t_ref - cold) = slope * (t_ref - mild) + slope * (mild - cold)
    OBVIOUS
  <2>3. slope * (t_ref - mild) \in Int /\ slope * (mild - cold) \in Int
    OBVIOUS
  <2> QED BY <2>1, <2>2, <2>3 DEF Requested
<1> HIDE DEF c, w
<1> DEFINE top == Clamp(c + extra, -max_offset, max_offset)
           low == Clamp(w + extra, -max_offset, max_offset)
<1>4. top >= low /\ top \in Int /\ low \in Int
  BY <1>1, <1>2 DEF Clamp
<1> HIDE DEF top, low
<1>5. base + top >= base + low /\ base + top \in Int /\ base + low \in Int
  BY <1>4
<1>6. Clamp(base + top, lo, hi) >= Clamp(base + low, lo, hi)
  BY <1>5 DEF Clamp
<1> QED BY <1>6 DEF Target, c, w, top, low
=============================================================================
