------------------------ MODULE LearningLedger_proofs ------------------------
(***************************************************************************)
(* What a room has learnt is told once and in full, and resets, undos,     *)
(* transfers and crashes move whole facts, for any nets and contexts, any  *)
(* limits of the rings and any number of half-lives, facts and moves.      *)
(*                                                                         *)
(* The properties are about one ledger, but ledgers come back: from an     *)
(* undo, a stash, an export, the store.  Each invariant is therefore about *)
(* all the ledgers that are Held anywhere: their types (TypeInv), that     *)
(* what they know was said in the order of the half-lives (TimeInv), that  *)
(* none says a thing twice, nor a stash that is still alone with the       *)
(* ledger (OnceInv), and that their statistics are those of their facts    *)
(* (SumInv).  On these rest what is cleared (GoneInv) and that steps are   *)
(* one change (StepInv); the heating runs have an invariant of their own   *)
(* (RunInv).  From SumInv it also follows, action by action, that the      *)
(* ledger implements LearntBaseline.                                       *)
(*                                                                         *)
(* First come facts about the operators: sequences arranged by rank, sums, *)
(* and what an update, an undone update, a reset and a merge make of a     *)
(* ledger.                                                                 *)
(***************************************************************************)
EXTENDS LearningLedger, SequenceTheorems, FiniteSetTheorems, WellFoundedInduction, TLAPS

-----------------------------------------------------------------------------
(***************************************************************************)
(* Sequences arranged by rank: Of and ByAge.                               *)
(***************************************************************************)
\* A set of numbers that is not empty has a least one.
LEMMA LeastNumber ==
  ASSUME NEW S \in SUBSET Nat, S # {}
  PROVE  \E m \in S : \A n \in S : m <= n
<1>1. PICK m \in S : \A n \in S : ~ (<<n, m>> \in OpToRel(<, Nat))
  BY NatLessThanWellFounded, WFMin
<1>2. ASSUME NEW n \in S
      PROVE  m <= n
  <2>1. n \in Nat /\ m \in Nat
    OBVIOUS
  <2>2. n < m => <<n, m>> \in OpToRel(<, Nat)
    BY <2>1 DEF OpToRel
  <2>3. ~ (<<n, m>> \in OpToRel(<, Nat))
    BY <1>1
  <2>4. ~ (n < m)
    BY <2>2, <2>3
  <2> QED
    BY <2>1, <2>4
<1> QED
  BY <1>2

\* Among finitely many that are told apart by what is up to each, the ranks go from 1 up.
LEMMA RankOf ==
  ASSUME NEW I, IsFiniteSet(I), NEW upTo \in [I -> SUBSET I],
         \A i \in I : i \in upTo[i],
         \A i, j \in I : i # j => (upTo[i] \subseteq upTo[j] /\ j \notin upTo[i]) \/ (upTo[j] \subseteq upTo[i] /\ i \notin upTo[j])
  PROVE  /\ \A i \in I : Cardinality(upTo[i]) \in 1..Cardinality(I)
         /\ \A i, j \in I : Cardinality(upTo[i]) <= Cardinality(upTo[j]) => i \in upTo[j]
         /\ \A i, j \in I : Cardinality(upTo[i]) = Cardinality(upTo[j]) => i = j
<1>1. Cardinality(I) \in Nat
  BY FS_CardinalityType
<1>2. ASSUME NEW i \in I PROVE IsFiniteSet(upTo[i]) /\ Cardinality(upTo[i]) \in 1..Cardinality(I)
  <2>1. upTo[i] \subseteq I
    OBVIOUS
  <2>2. IsFiniteSet(upTo[i]) /\ Cardinality(upTo[i]) <= Cardinality(I)
    BY <2>1, FS_Subset
  <2>3. Cardinality(upTo[i]) \in Nat /\ Cardinality(upTo[i]) # 0
    BY <2>2, FS_CardinalityType, FS_EmptySet
  <2> QED
    BY <1>1, <2>2, <2>3
<1>3. ASSUME NEW i \in I, NEW j \in I, i # j, upTo[i] \subseteq upTo[j], j \notin upTo[i]
      PROVE  Cardinality(upTo[i]) < Cardinality(upTo[j])
  <2>1. IsFiniteSet(upTo[j]) /\ IsFiniteSet(upTo[i])
    BY <1>2
  <2>2. upTo[i] # upTo[j]
    BY <1>3
  <2>3. Cardinality(upTo[i]) <= Cardinality(upTo[j]) /\ Cardinality(upTo[i]) # Cardinality(upTo[j])
    BY <2>1, <2>2, <1>3, FS_Subset
  <2> QED
    BY <1>2, <2>3, <1>1
<1>4. ASSUME NEW i \in I, NEW j \in I, Cardinality(upTo[i]) <= Cardinality(upTo[j]) PROVE i \in upTo[j]
  <2>1. CASE i = j
    BY <2>1
  <2>2. CASE i # j /\ upTo[i] \subseteq upTo[j] /\ j \notin upTo[i]
    BY <2>2
  <2>3. CASE i # j /\ upTo[j] \subseteq upTo[i] /\ i \notin upTo[j]
    <3>1. Cardinality(upTo[j]) < Cardinality(upTo[i])
      BY <1>3, <2>3
    <3> QED
      BY <3>1, <1>4, <1>2, <1>1
  <2> QED
    BY <2>1, <2>2, <2>3
<1>5. ASSUME NEW i \in I, NEW j \in I, Cardinality(upTo[i]) = Cardinality(upTo[j]), i # j PROVE FALSE
  <2>1. i \in upTo[j] /\ j \in upTo[i]
    BY <1>2, <1>4, <1>5, <1>1
  <2> QED
    BY <2>1, <1>5
<1> QED
  BY <1>2, <1>4, <1>5

\* Every rank up to their number is taken.
LEMMA EveryRank ==
  ASSUME NEW I, IsFiniteSet(I), NEW upTo \in [I -> SUBSET I],
         \A i \in I : Cardinality(upTo[i]) \in 1..Cardinality(I),
         \A i, j \in I : Cardinality(upTo[i]) = Cardinality(upTo[j]) => i = j
  PROVE  \A k \in 1..Cardinality(I) : \E i \in I : Cardinality(upTo[i]) = k
<1> DEFINE n == Cardinality(I)
           f == [i \in I |-> Cardinality(upTo[i])]
<1>1. n \in Nat
  BY FS_CardinalityType
<1>2. IsFiniteSet(1..n) /\ Cardinality(1..n) = n
  BY <1>1, FS_Interval
<1>3. f \in Injection(I, 1..n)
  BY DEF Injection, IsInjective
<1>4. f \in Surjection(I, 1..n)
  BY <1>2, <1>3, FS_Injection
<1> QED
  BY <1>4 DEF Surjection

\* The elements of s at the indices in I, in the order of a chain of index sets.
Picked(p, I, upTo, s, r) ==
  /\ p \in [1..Len(r) -> I]
  /\ \A k \in 1..Len(r) : r[k] = s[p[k]]
  /\ \A k, m \in 1..Len(r) : k <= m => p[k] \in upTo[p[m]]
  /\ \A k, m \in 1..Len(r) : p[k] = p[m] => k = m
  /\ \A i \in I : \E k \in 1..Len(r) : p[k] = i

\* What is arranged is the elements at those indices, each once, in their order.
LEMMA ArrangedPicks ==
  ASSUME NEW S, NEW s \in Seq(S), NEW I \in SUBSET (1..Len(s)), NEW upTo \in [I -> SUBSET I],
         \A i \in I : i \in upTo[i],
         \A i, j \in I : i # j => (upTo[i] \subseteq upTo[j] /\ j \notin upTo[i]) \/ (upTo[j] \subseteq upTo[i] /\ i \notin upTo[j])
  PROVE  /\ Arranged(s, upTo) \in Seq(S)
         /\ Len(Arranged(s, upTo)) = Cardinality(I)
         /\ Len(Arranged(s, upTo)) <= Len(s)
         /\ \E p : Picked(p, I, upTo, s, Arranged(s, upTo))
<1> DEFINE n == Cardinality(I)
           p == [k \in 1..n |-> CHOOSE i \in I : Cardinality(upTo[i]) = k]
           r == Arranged(s, upTo)
<1>1. IsFiniteSet(I) /\ n \in Nat /\ n <= Len(s)
  <2>1. PICK len \in Nat : len = Len(s)
    OBVIOUS
  <2>2. IsFiniteSet(1..len) /\ Cardinality(1..len) = len
    BY FS_Interval
  <2>3. I \subseteq 1..len
    BY <2>1
  <2>4. IsFiniteSet(I) /\ Cardinality(I) <= len
    BY <2>2, <2>3, FS_Subset
  <2> QED
    BY <2>1, <2>4, FS_CardinalityType
<1>2. /\ \A i \in I : Cardinality(upTo[i]) \in 1..n
      /\ \A i, j \in I : Cardinality(upTo[i]) <= Cardinality(upTo[j]) => i \in upTo[j]
      /\ \A i, j \in I : Cardinality(upTo[i]) = Cardinality(upTo[j]) => i = j
  BY <1>1, RankOf
<1>3. \A k \in 1..n : \E i \in I : Cardinality(upTo[i]) = k
  BY <1>1, <1>2, EveryRank
<1>4. \A k \in 1..n : p[k] \in I /\ Cardinality(upTo[p[k]]) = k
  BY <1>3
<1>5. r = [k \in 1..n |-> s[p[k]]]
  BY DEF Arranged
<1>6. r \in [1..n -> S]
  <2>1. \A k \in 1..n : s[p[k]] \in S
    <3> HIDE DEF p
    <3> QED
      BY <1>4
  <2> HIDE DEF p, r
  <2> QED
    BY <2>1, <1>5
<1>7. r \in Seq(S) /\ Len(r) = n
  BY <1>1, <1>6
<1>8. Picked(p, I, upTo, s, r)
  <2>1. p \in [1..n -> I]
    BY <1>4
  <2>2. \A k \in 1..n : r[k] = s[p[k]]
    BY <1>5
  <2>3. ASSUME NEW k \in 1..n, NEW m \in 1..n, k <= m PROVE p[k] \in upTo[p[m]]
    BY <1>2, <1>4, <2>3
  <2>4. ASSUME NEW k \in 1..n, NEW m \in 1..n, p[k] = p[m] PROVE k = m
    BY <1>4, <2>4
  <2>5. ASSUME NEW i \in I PROVE \E k \in 1..n : p[k] = i
    <3>1. Cardinality(upTo[i]) \in 1..n
      BY <1>2
    <3>2. p[Cardinality(upTo[i])] = i
      BY <3>1, <1>4, <1>2
    <3> QED
      BY <3>1, <3>2
  <2> HIDE DEF p, r, n
  <2> QED
    BY <2>1, <2>2, <2>3, <2>4, <2>5, <1>7 DEF Picked
<1> HIDE DEF p, r, n
<1>9. \E q : Picked(q, I, upTo, s, r)
  BY <1>8
<1> QED
  BY <1>1, <1>7, <1>9 DEF r, n

Apart(s) == \A i, j \in DOMAIN s : i # j => s[i].at # s[j].at
InEras(s) == \A i, j \in DOMAIN s : i <= j => s[i].era <= s[j].era

\* Of picks the entries about some buckets, in the order they are in.
LEMMA OfPicks ==
  ASSUME NEW S, NEW s \in Seq(S), NEW bs
  PROVE  /\ Of(s, bs) \in Seq(S)
         /\ Len(Of(s, bs)) <= Len(s)
         /\ \E p : /\ p \in [1..Len(Of(s, bs)) -> {i \in 1..Len(s) : s[i].bucket \in bs}]
                   /\ \A k \in 1..Len(Of(s, bs)) : Of(s, bs)[k] = s[p[k]]
                   /\ \A k, m \in 1..Len(Of(s, bs)) : k <= m => p[k] <= p[m]
                   /\ \A k, m \in 1..Len(Of(s, bs)) : p[k] = p[m] => k = m
                   /\ \A i \in 1..Len(s) : s[i].bucket \in bs => \E k \in 1..Len(Of(s, bs)) : p[k] = i
<1> DEFINE I == {i \in 1..Len(s) : s[i].bucket \in bs}
           upTo == [i \in I |-> {j \in I : j <= i}]
           r == Of(s, bs)
<1>1. DOMAIN s = 1..Len(s) /\ Len(s) \in Nat /\ I \subseteq Nat
  OBVIOUS
<1>2. r = Arranged(s, upTo)
  BY <1>1 DEF Of
<1>3. upTo \in [I -> SUBSET I] /\ \A i \in I : i \in upTo[i]
  BY <1>1
<1>4. \A i, j \in I : i # j => (upTo[i] \subseteq upTo[j] /\ j \notin upTo[i]) \/ (upTo[j] \subseteq upTo[i] /\ i \notin upTo[j])
  BY <1>1
<1>5. I \in SUBSET (1..Len(s))
  OBVIOUS
<1>6. /\ r \in Seq(S) /\ Len(r) <= Len(s)
      /\ \E p : Picked(p, I, upTo, s, r)
  <2> HIDE DEF I, upTo, r
  <2> QED
    BY <1>2, <1>3, <1>4, <1>5, ArrangedPicks
<1>7. PICK p : Picked(p, I, upTo, s, r)
  BY <1>6
<1>8. \A i, j \in I : i \in upTo[j] => i <= j
  OBVIOUS
<1>9. /\ p \in [1..Len(r) -> I]
      /\ \A k \in 1..Len(r) : r[k] = s[p[k]]
      /\ \A k, m \in 1..Len(r) : k <= m => p[k] <= p[m]
      /\ \A k, m \in 1..Len(r) : p[k] = p[m] => k = m
      /\ \A i \in I : \E k \in 1..Len(r) : p[k] = i
  <2> HIDE DEF I, upTo, r
  <2> QED
    BY <1>7, <1>8 DEF Picked
<1>10. \A i \in 1..Len(s) : s[i].bucket \in bs => i \in I
  OBVIOUS
<1> HIDE DEF upTo
<1> QED
  BY <1>6, <1>9, <1>10

\* Hence it says nothing twice where the ledger does not, and keeps the order of the half-lives.
LEMMA OfEntries ==
  ASSUME NEW s \in Seq(Fact), NEW bs
  PROVE  /\ Of(s, bs) \in Seq(Fact)
         /\ Len(Of(s, bs)) <= Len(s)
         /\ ToSet(Of(s, bs)) = {f \in ToSet(s) : f.bucket \in bs}
         /\ Apart(s) => Apart(Of(s, bs))
         /\ InEras(s) => InEras(Of(s, bs))
<1> DEFINE r == Of(s, bs)
<1>1. r \in Seq(Fact) /\ Len(r) <= Len(s)
  BY OfPicks
<1>2. PICK p : /\ p \in [1..Len(r) -> {i \in 1..Len(s) : s[i].bucket \in bs}]
               /\ \A k \in 1..Len(r) : r[k] = s[p[k]]
               /\ \A k, m \in 1..Len(r) : k <= m => p[k] <= p[m]
               /\ \A k, m \in 1..Len(r) : p[k] = p[m] => k = m
               /\ \A i \in 1..Len(s) : s[i].bucket \in bs => \E k \in 1..Len(r) : p[k] = i
  BY OfPicks
<1> HIDE DEF r
<1>3. DOMAIN r = 1..Len(r) /\ DOMAIN s = 1..Len(s) /\ Len(s) \in Nat /\ Len(r) \in Nat
  BY <1>1
<1>4. \A k \in 1..Len(r) : p[k] \in 1..Len(s) /\ s[p[k]].bucket \in bs
  BY <1>2
<1>5. ToSet(r) = {f \in ToSet(s) : f.bucket \in bs}
  <2>1. ASSUME NEW f \in ToSet(r) PROVE f \in ToSet(s) /\ f.bucket \in bs
    BY <1>2, <1>3, <1>4 DEF ToSet
  <2>2. ASSUME NEW f \in ToSet(s), f.bucket \in bs PROVE f \in ToSet(r)
    <3>1. PICK i \in 1..Len(s) : f = s[i]
      BY <1>3 DEF ToSet
    <3>2. PICK k \in 1..Len(r) : p[k] = i
      BY <3>1, <2>2, <1>2
    <3> QED
      BY <3>1, <3>2, <1>2, <1>3 DEF ToSet
  <2> QED
    BY <2>1, <2>2
<1>6. ASSUME Apart(s) PROVE Apart(r)
  <2>1. ASSUME NEW k \in 1..Len(r), NEW m \in 1..Len(r), k # m PROVE r[k].at # r[m].at
    <3>1. p[k] # p[m] /\ p[k] \in DOMAIN s /\ p[m] \in DOMAIN s
      BY <2>1, <1>2, <1>3, <1>4
    <3>2. s[p[k]].at # s[p[m]].at
      BY <3>1, <1>6 DEF Apart
    <3> QED
      BY <3>2, <1>2
  <2> QED
    BY <2>1, <1>3 DEF Apart
<1>7. ASSUME InEras(s) PROVE InEras(r)
  <2>1. ASSUME NEW k \in 1..Len(r), NEW m \in 1..Len(r), k <= m PROVE r[k].era <= r[m].era
    <3>1. p[k] <= p[m] /\ p[k] \in DOMAIN s /\ p[m] \in DOMAIN s
      BY <2>1, <1>2, <1>3, <1>4
    <3>2. s[p[k]].era <= s[p[m]].era
      BY <3>1, <1>7 DEF InEras
    <3> QED
      BY <3>2, <1>2
  <2> QED
    BY <2>1, <1>3 DEF InEras
<1> QED
  BY <1>1, <1>5, <1>6, <1>7 DEF r

\* Entries by age are the same entries, and in the order of the half-lives when age and half-life agree.
LEMMA ByAgeEntries ==
  ASSUME NEW s \in Seq(Fact)
  PROVE  /\ ByAge(s) \in Seq(Fact)
         /\ Len(ByAge(s)) <= Len(s)
         /\ ToSet(ByAge(s)) = ToSet(s)
         /\ Apart(s) => Apart(ByAge(s))
         /\ \A k, m \in DOMAIN ByAge(s) : k <= m => ByAge(s)[k].at <= ByAge(s)[m].at
<1> DEFINE I == 1..Len(s)
           upTo == [i \in I |-> {j \in I : s[j].at < s[i].at \/ (s[j].at = s[i].at /\ j <= i)}]
           r == ByAge(s)
<1>1. DOMAIN s = I /\ Len(s) \in Nat /\ \A i \in I : s[i] \in Fact /\ s[i].at \in Nat
  <2>1. \A f \in Fact : f.at \in Nat
    BY DEF Fact
  <2> QED
    BY <2>1
<1>2. r = Arranged(s, upTo)
  BY <1>1 DEF ByAge
<1>3. upTo \in [I -> SUBSET I] /\ \A i \in I : i \in upTo[i]
  BY <1>1
<1>4. \A i, j \in I : i # j => (upTo[i] \subseteq upTo[j] /\ j \notin upTo[i]) \/ (upTo[j] \subseteq upTo[i] /\ i \notin upTo[j])
  <2>1. SUFFICES ASSUME NEW i \in I, NEW j \in I, i # j
                 PROVE  (upTo[i] \subseteq upTo[j] /\ j \notin upTo[i]) \/ (upTo[j] \subseteq upTo[i] /\ i \notin upTo[j])
    OBVIOUS
  <2>2. i \in Nat /\ j \in Nat /\ s[i].at \in Nat /\ s[j].at \in Nat
    BY <1>1
  <2>3. CASE s[i].at < s[j].at \/ (s[i].at = s[j].at /\ i < j)
    BY <1>1, <2>2, <2>3
  <2>4. CASE s[j].at < s[i].at \/ (s[i].at = s[j].at /\ j < i)
    BY <1>1, <2>2, <2>4
  <2> QED
    BY <2>1, <2>2, <2>3, <2>4
<1>5. I \in SUBSET (1..Len(s))
  OBVIOUS
<1>6. /\ r \in Seq(Fact) /\ Len(r) <= Len(s)
      /\ \E p : Picked(p, I, upTo, s, r)
  <2> HIDE DEF I, upTo, r
  <2> QED
    BY <1>2, <1>3, <1>4, <1>5, ArrangedPicks
<1>7. PICK p : Picked(p, I, upTo, s, r)
  BY <1>6
<1>8. \A i, j \in I : i \in upTo[j] => s[i].at <= s[j].at
  BY <1>1
<1> HIDE DEF I, upTo, r
<1>9. /\ p \in [1..Len(r) -> I]
      /\ \A k \in 1..Len(r) : r[k] = s[p[k]]
      /\ \A k, m \in 1..Len(r) : k <= m => s[p[k]].at <= s[p[m]].at
      /\ \A k, m \in 1..Len(r) : p[k] = p[m] => k = m
      /\ \A i \in I : \E k \in 1..Len(r) : p[k] = i
  BY <1>7, <1>8 DEF Picked
<1>10. DOMAIN r = 1..Len(r)
  BY <1>6
<1>11. ToSet(r) = ToSet(s)
  <2>1. ASSUME NEW f \in ToSet(r) PROVE f \in ToSet(s)
    BY <1>1, <1>9, <1>10 DEF ToSet
  <2>2. ASSUME NEW f \in ToSet(s) PROVE f \in ToSet(r)
    <3>1. PICK i \in I : f = s[i]
      BY <1>1 DEF ToSet
    <3>2. PICK k \in 1..Len(r) : p[k] = i
      BY <3>1, <1>9
    <3> QED
      BY <3>1, <3>2, <1>9, <1>10 DEF ToSet
  <2> QED
    BY <2>1, <2>2
<1>12. ASSUME Apart(s) PROVE Apart(r)
  <2>1. ASSUME NEW k \in 1..Len(r), NEW m \in 1..Len(r), k # m PROVE r[k].at # r[m].at
    <3>1. p[k] # p[m] /\ p[k] \in DOMAIN s /\ p[m] \in DOMAIN s
      BY <2>1, <1>9, <1>1
    <3>2. s[p[k]].at # s[p[m]].at
      BY <3>1, <1>12 DEF Apart
    <3> QED
      BY <3>2, <1>9
  <2> QED
    BY <2>1, <1>10 DEF Apart
<1>13. \A k, m \in DOMAIN r : k <= m => r[k].at <= r[m].at
  BY <1>9, <1>10
<1> QED
  BY <1>6, <1>11, <1>12, <1>13 DEF r

-----------------------------------------------------------------------------
(***************************************************************************)
(* Front, Last, Append, Newest and concatenations.                         *)
(***************************************************************************)
\* The elements of a sequence are what it has at its indices.
LEMMA ToSetOf == ASSUME NEW S, NEW s \in Seq(S) PROVE ToSet(s) \subseteq S /\ \A f : f \in ToSet(s) <=> \E i \in 1..Len(s) : f = s[i]
BY DEF ToSet

\* A sequence and what is left without its last element.
LEMMA FrontLast ==
  ASSUME NEW S, NEW s \in Seq(S), s # <<>>
  PROVE  /\ Len(s) \in Nat \ {0}
         /\ Front(s) \in Seq(S) /\ Len(Front(s)) = Len(s) - 1
         /\ \A i \in 1..Len(s) - 1 : Front(s)[i] = s[i]
         /\ Last(s) = s[Len(s)] /\ Last(s) \in S
         /\ ToSet(s) = ToSet(Front(s)) \cup {Last(s)}
<1>1. Len(s) \in Nat /\ Len(s) # 0 /\ DOMAIN s = 1..Len(s)
  OBVIOUS
<1>2. \A i \in 1..Len(s) - 1 : s[i] \in S
  BY <1>1
<1>3. /\ Front(s) \in Seq(S)
      /\ Len(Front(s)) = Len(s) - 1
      /\ \A i \in 1..Len(s) - 1 : Front(s)[i] = s[i]
  <2>1. PICK n \in Nat : n = Len(s) /\ n # 0
    BY <1>1
  <2>2. /\ SubSeq(s, 1, n - 1) \in Seq(S)
        /\ Len(SubSeq(s, 1, n - 1)) = IF 1 <= n - 1 THEN n - 1 - 1 + 1 ELSE 0
        /\ \A i \in 1..(n - 1 - 1 + 1) : SubSeq(s, 1, n - 1)[i] = s[1 + i - 1]
    BY <2>1, <1>2, SubSeqProperties
  <2> QED
    BY <2>1, <2>2 DEF Front
<1>4. Last(s) = s[Len(s)] /\ Last(s) \in S
  BY <1>1 DEF Last
<1>5. \A f : f \in ToSet(s) <=> (f \in ToSet(Front(s)) \/ f = Last(s))
  BY <1>1, <1>3, <1>4, ToSetOf
<1> QED
  BY <1>1, <1>3, <1>4, <1>5

\* A sequence with one element more.
LEMMA AppendLast ==
  ASSUME NEW S, NEW s \in Seq(S), NEW f \in S
  PROVE  /\ Append(s, f) \in Seq(S) /\ Len(Append(s, f)) = Len(s) + 1 /\ Append(s, f) # <<>>
         /\ \A i \in 1..Len(s) : Append(s, f)[i] = s[i]
         /\ Append(s, f)[Len(s) + 1] = f /\ Last(Append(s, f)) = f
         /\ Front(Append(s, f)) = s
         /\ ToSet(Append(s, f)) = ToSet(s) \cup {f}
<1> DEFINE r == Append(s, f)
<1>1. /\ r \in Seq(S) /\ Len(r) = Len(s) + 1 /\ r # <<>> /\ Len(s) \in Nat
      /\ \A i \in 1..Len(s) : r[i] = s[i]
      /\ r[Len(s) + 1] = f
  OBVIOUS
<1> HIDE DEF r
<1>2. Last(r) = f
  BY <1>1, FrontLast
<1>3. Front(r) = s
  BY <1>1, FrontLast, SeqEqual
<1>4. ToSet(r) = ToSet(s) \cup {f}
  BY <1>1, <1>2, <1>3, FrontLast
<1> QED
  BY <1>1, <1>2, <1>3, <1>4 DEF r

\* The newest of a sequence is an end of it.
LEMMA NewestPart ==
  ASSUME NEW S, NEW s \in Seq(S), NEW n \in Nat
  PROVE  /\ Newest(s, n) \in Seq(S) /\ Len(Newest(s, n)) <= n
         /\ Len(s) <= n => Newest(s, n) = s
         /\ \E d \in Nat : \A i \in 1..Len(Newest(s, n)) : i + d \in 1..Len(s) /\ Newest(s, n)[i] = s[i + d]
         /\ ToSet(Newest(s, n)) \subseteq ToSet(s)
<1> DEFINE len == Len(s)
           d == AtLeast0(len - n)
           r == Newest(s, n)
<1>1. len \in Nat /\ d \in Nat /\ (len <= n => d = 0) /\ len - d <= n /\ d <= len
  BY DEF AtLeast0
<1>2. \A i \in 1 + d..len : s[i] \in S
  BY <1>1
<1>3. r = SubSeq(s, 1 + d, len)
  BY DEF Newest
<1> HIDE DEF d, len, r
<1>4. /\ r \in Seq(S)
      /\ Len(r) = (IF 1 + d <= len THEN len - (1 + d) + 1 ELSE 0)
      /\ \A i \in 1..(len - (1 + d) + 1) : r[i] = s[1 + d + i - 1]
  BY <1>1, <1>2, <1>3, SubSeqProperties
<1>5. Len(r) = len - d
  BY <1>1, <1>4
<1>6. \A i \in 1..Len(r) : i + d \in 1..len /\ r[i] = s[i + d]
  BY <1>1, <1>4, <1>5
<1>7. len <= n => r = s
  <2>1. len <= n => Len(r) = Len(s) /\ \A i \in 1..Len(r) : r[i] = s[i]
    BY <1>1, <1>5, <1>6 DEF len
  <2> QED
    BY <2>1, <1>4, SeqEqual
<1>8. ToSet(r) \subseteq ToSet(s)
  <2>1. ASSUME NEW f \in ToSet(r) PROVE f \in ToSet(s)
    <3>1. PICK i \in 1..Len(r) : f = r[i]
      BY <1>4, ToSetOf
    <3>2. i + d \in 1..Len(s) /\ f = s[i + d]
      BY <3>1, <1>6 DEF len
    <3> QED
      BY <3>2, ToSetOf
  <2> QED
    BY <2>1
<1> QED
  BY <1>1, <1>4, <1>5, <1>6, <1>7, <1>8 DEF r, len

\* One sequence after another.
LEMMA ConcatParts ==
  ASSUME NEW S, NEW s \in Seq(S), NEW t \in Seq(S)
  PROVE  /\ s \o t \in Seq(S) /\ Len(s \o t) = Len(s) + Len(t)
         /\ \A i \in 1..Len(s) : (s \o t)[i] = s[i]
         /\ \A i \in 1..Len(t) : (s \o t)[Len(s) + i] = t[i]
         /\ ToSet(s \o t) = ToSet(s) \cup ToSet(t)
<1> DEFINE r == s \o t
<1>1. /\ r \in Seq(S) /\ Len(r) = Len(s) + Len(t) /\ Len(s) \in Nat /\ Len(t) \in Nat
      /\ \A i \in 1..Len(s) + Len(t) : r[i] = IF i <= Len(s) THEN s[i] ELSE t[i - Len(s)]
  BY ConcatProperties
<1> HIDE DEF r
<1>2. /\ \A i \in 1..Len(s) : r[i] = s[i]
      /\ \A i \in 1..Len(t) : r[Len(s) + i] = t[i]
  <2>1. ASSUME NEW i \in 1..Len(t) PROVE r[Len(s) + i] = t[i]
    <3>1. Len(s) + i \in 1..Len(s) + Len(t) /\ ~(Len(s) + i <= Len(s)) /\ (Len(s) + i) - Len(s) = i
      BY <1>1
    <3> QED
      BY <3>1, <1>1
  <2> QED
    BY <2>1, <1>1
<1>3. ASSUME NEW f \in ToSet(r) PROVE f \in ToSet(s) \cup ToSet(t)
  <2>1. PICK i \in 1..Len(s) + Len(t) : f = r[i]
    BY <1>1, ToSetOf
  <2>2. CASE i <= Len(s)
    BY <2>1, <2>2, <1>1, ToSetOf
  <2>3. CASE ~(i <= Len(s))
    <3>1. i - Len(s) \in 1..Len(t) /\ f = t[i - Len(s)]
      BY <2>1, <2>3, <1>1
    <3> QED
      BY <3>1, ToSetOf
  <2> QED
    BY <2>2, <2>3
<1>4. ASSUME NEW f \in ToSet(s) \cup ToSet(t) PROVE f \in ToSet(r)
  <2>1. CASE f \in ToSet(s)
    <3>1. PICK i \in 1..Len(s) : f = s[i]
      BY <2>1, ToSetOf
    <3>2. i \in 1..Len(r) /\ f = r[i]
      BY <3>1, <1>1, <1>2
    <3> QED
      BY <3>2, <1>1, ToSetOf
  <2>2. CASE f \in ToSet(t)
    <3>1. PICK i \in 1..Len(t) : f = t[i]
      BY <2>2, ToSetOf
    <3>2. Len(s) + i \in 1..Len(r) /\ f = r[Len(s) + i]
      BY <3>1, <1>1, <1>2
    <3> QED
      BY <3>2, <1>1, ToSetOf
  <2> QED
    BY <2>1, <2>2
<1> QED
  BY <1>1, <1>2, <1>3, <1>4 DEF r

Once(s) == \A i, j \in DOMAIN s : i # j => s[i] # s[j]

\* The two ways a sequence says a thing once, carried over to what is made of it.
LEMMA ApartAppend ==
  ASSUME NEW s \in Seq(Fact), NEW f \in Fact
  PROVE  /\ Apart(s) /\ (\A g \in ToSet(s) : g.at # f.at) => Apart(Append(s, f))
         /\ InEras(s) /\ (\A g \in ToSet(s) : g.era <= f.era) => InEras(Append(s, f))
<1> DEFINE r == Append(s, f)
           n == Len(s)
<1>1. /\ r \in Seq(Fact) /\ Len(r) = n + 1 /\ n \in Nat /\ DOMAIN r = 1..n + 1 /\ DOMAIN s = 1..n
      /\ \A i \in 1..n : r[i] = s[i] /\ s[i] \in ToSet(s)
      /\ r[n + 1] = f
  BY AppendLast, ToSetOf
<1> HIDE DEF r, n
<1>2. ASSUME Apart(s), \A g \in ToSet(s) : g.at # f.at PROVE Apart(r)
  <2>1. ASSUME NEW i \in 1..n + 1, NEW j \in 1..n + 1, i # j PROVE r[i].at # r[j].at
    <3>1. CASE i = n + 1
      <4>1. j \in 1..n
        BY <2>1, <3>1, <1>1
      <4> QED
        BY <4>1, <3>1, <1>1, <1>2
    <3>2. CASE j = n + 1
      <4>1. i \in 1..n
        BY <2>1, <3>2, <1>1
      <4> QED
        BY <4>1, <3>2, <1>1, <1>2
    <3>3. CASE i # n + 1 /\ j # n + 1
      <4>1. i \in 1..n /\ j \in 1..n
        BY <2>1, <3>3, <1>1
      <4> QED
        BY <4>1, <2>1, <1>1, <1>2 DEF Apart
    <3> QED
      BY <3>1, <3>2, <3>3
  <2> QED
    BY <2>1, <1>1 DEF Apart
<1>3. ASSUME InEras(s), \A g \in ToSet(s) : g.era <= f.era PROVE InEras(r)
  <2>1. ASSUME NEW i \in 1..n + 1, NEW j \in 1..n + 1, i <= j PROVE r[i].era <= r[j].era
    <3>1. CASE i = n + 1
      <4>1. j = n + 1 /\ f.era \in Int
        BY <2>1, <3>1, <1>1, LearningAssumption DEF Fact
      <4> QED
        BY <4>1, <3>1, <1>1
    <3>2. CASE i # n + 1 /\ j = n + 1
      <4>1. i \in 1..n
        BY <2>1, <3>2, <1>1
      <4> QED
        BY <4>1, <3>2, <1>1, <1>3
    <3>3. CASE i # n + 1 /\ j # n + 1
      <4>1. i \in 1..n /\ j \in 1..n
        BY <2>1, <3>3, <1>1
      <4> QED
        BY <4>1, <2>1, <1>1, <1>3 DEF InEras
    <3> QED
      BY <3>1, <3>2, <3>3
  <2> QED
    BY <2>1, <1>1 DEF InEras
<1> QED
  BY <1>2, <1>3 DEF r

\* Without its last element a sequence still says nothing twice, nor what that element said.
LEMMA ApartFront ==
  ASSUME NEW s \in Seq(Fact), s # <<>>
  PROVE  /\ Apart(s) => Apart(Front(s)) /\ \A g \in ToSet(Front(s)) : g.at # Last(s).at
         /\ InEras(s) => InEras(Front(s)) /\ \A g \in ToSet(Front(s)) : g.era <= Last(s).era
<1> DEFINE r == Front(s)
           n == Len(s)
<1>1. /\ r \in Seq(Fact) /\ Len(r) = n - 1 /\ n \in Nat \ {0} /\ DOMAIN r = 1..n - 1 /\ DOMAIN s = 1..n
      /\ \A i \in 1..n - 1 : r[i] = s[i]
      /\ Last(s) = s[n]
      /\ \A g \in ToSet(r) : \E i \in 1..n - 1 : g = r[i]
  BY FrontLast, ToSetOf
<1> HIDE DEF r, n
<1>2. \A i \in 1..n - 1 : i \in 1..n /\ i # n /\ i <= n
  BY <1>1
<1>3. n \in 1..n
  BY <1>1
<1>4. Apart(s) => Apart(r) /\ \A g \in ToSet(r) : g.at # Last(s).at
  BY <1>1, <1>2, <1>3 DEF Apart
<1>5. InEras(s) => InEras(r) /\ \A g \in ToSet(r) : g.era <= Last(s).era
  BY <1>1, <1>2, <1>3 DEF InEras
<1> QED
  BY <1>4, <1>5 DEF r

\* The newest part of a sequence says nothing twice where the whole does not.
LEMMA ApartNewest ==
  ASSUME NEW s \in Seq(Fact), NEW n \in Nat
  PROVE  /\ Apart(s) => Apart(Newest(s, n))
         /\ InEras(s) => InEras(Newest(s, n))
<1> DEFINE r == Newest(s, n)
<1>1. r \in Seq(Fact) /\ DOMAIN r = 1..Len(r) /\ Len(r) \in Nat /\ DOMAIN s = 1..Len(s)
  BY NewestPart
<1>2. PICK d \in Nat : \A i \in 1..Len(r) : i + d \in 1..Len(s) /\ r[i] = s[i + d]
  BY NewestPart
<1> HIDE DEF r
<1>3. ASSUME Apart(s) PROVE Apart(r)
  <2>1. ASSUME NEW i \in 1..Len(r), NEW j \in 1..Len(r), i # j PROVE r[i].at # r[j].at
    <3>1. i + d # j + d
      BY <1>1, <2>1
    <3> QED
      BY <3>1, <1>1, <1>2, <1>3 DEF Apart
  <2> QED
    BY <2>1, <1>1 DEF Apart
<1>4. ASSUME InEras(s) PROVE InEras(r)
  <2>1. ASSUME NEW i \in 1..Len(r), NEW j \in 1..Len(r), i <= j PROVE r[i].era <= r[j].era
    <3>1. i + d <= j + d
      BY <1>1, <2>1
    <3> QED
      BY <3>1, <1>1, <1>2, <1>4 DEF InEras
  <2> QED
    BY <2>1, <1>1 DEF InEras
<1> QED
  BY <1>3, <1>4 DEF r

\* Nor do two sequences that have nothing in common.
LEMMA ApartConcat ==
  ASSUME NEW s \in Seq(Fact), NEW t \in Seq(Fact), Apart(s), Apart(t),
         \A f \in ToSet(s), g \in ToSet(t) : f.at # g.at
  PROVE  Apart(s \o t)
<1> DEFINE r == s \o t
           n == Len(s)
<1>1. /\ r \in Seq(Fact) /\ Len(r) = n + Len(t) /\ n \in Nat /\ Len(t) \in Nat /\ DOMAIN r = 1..n + Len(t)
      /\ DOMAIN s = 1..n /\ DOMAIN t = 1..Len(t)
      /\ \A i \in 1..n : r[i] = s[i] /\ s[i] \in ToSet(s)
      /\ \A i \in 1..Len(t) : r[n + i] = t[i] /\ t[i] \in ToSet(t)
  BY ConcatParts, ToSetOf
<1> HIDE DEF r, n
<1>2. \A i \in 1..n + Len(t) : i \in 1..n \/ \E k \in 1..Len(t) : i = n + k
  <2>1. ASSUME NEW i \in 1..n + Len(t), i \notin 1..n PROVE i - n \in 1..Len(t) /\ i = n + (i - n)
    BY <1>1, <2>1
  <2> QED
    BY <2>1
<1>3. ASSUME NEW i \in 1..n + Len(t), NEW j \in 1..n + Len(t), i # j PROVE r[i].at # r[j].at
  <2>1. CASE i \in 1..n /\ j \in 1..n
    BY <2>1, <1>1, <1>3 DEF Apart
  <2>2. CASE i \in 1..n /\ j \notin 1..n
    BY <2>2, <1>1, <1>2
  <2>3. CASE i \notin 1..n /\ j \in 1..n
    BY <2>3, <1>1, <1>2
  <2>4. CASE i \notin 1..n /\ j \notin 1..n
    <3>1. PICK k \in 1..Len(t) : i = n + k
      BY <2>4, <1>2
    <3>2. PICK m \in 1..Len(t) : j = n + m
      BY <2>4, <1>2
    <3>3. k # m
      BY <1>3, <3>1, <3>2
    <3>4. t[k].at # t[m].at
      BY <3>3, <1>1 DEF Apart
    <3>5. r[i] = t[k] /\ r[j] = t[m]
      BY <3>1, <3>2, <1>1
    <3> QED
      BY <3>4, <3>5
  <2> QED
    BY <2>1, <2>2, <2>3, <2>4
<1> QED
  BY <1>1, <1>3 DEF Apart, r

\* The first values of a recursion.
Stage(g, n, base, G) ==
  /\ DOMAIN g = 0..n /\ g[0] = base
  /\ \A k \in 1..n : g[k] = G[<<k, g[k - 1]>>]

\* Two functions that recur in the same way agree as far as both go.
LEMMA StagesAgree ==
  ASSUME NEW base, NEW G, NEW g, NEW h, NEW n \in Nat, NEW m \in Nat, Stage(g, n, base, G), Stage(h, m, base, G),
         NEW k \in Nat, k <= n, k <= m
  PROVE  g[k] = h[k]
<1> DEFINE Bad == {i \in Nat : i <= n /\ i <= m /\ g[i] # h[i]}
<1>1. SUFFICES ASSUME Bad # {} PROVE FALSE
  OBVIOUS
<1>2. Bad \in SUBSET Nat
  OBVIOUS
<1>3. PICK i \in Bad : \A j \in Bad : i <= j
  <2> HIDE DEF Bad
  <2> QED
    BY <1>1, <1>2, LeastNumber
<1>4. i # 0
  BY <1>3 DEF Stage
<1>5. i - 1 \in Nat /\ i \in 1..n /\ i \in 1..m /\ i - 1 <= n /\ i - 1 <= m /\ ~(i <= i - 1)
  BY <1>4
<1>6. i - 1 \notin Bad
  <2> HIDE DEF Bad
  <2> QED
    BY <1>3, <1>5
<1>7. g[i - 1] = h[i - 1]
  BY <1>5, <1>6
<1>8. g[i] = h[i]
  BY <1>5, <1>7 DEF Stage
<1> QED
  BY <1>3, <1>8

\* There is one for every number of stages.
LEMMA StageExists ==
  ASSUME NEW base, NEW G, NEW n \in Nat
  PROVE  \E g : Stage(g, n, base, G)
<1> DEFINE Bad == {i \in Nat : ~ \E g : Stage(g, i, base, G)}
<1>1. SUFFICES ASSUME Bad # {} PROVE FALSE
  OBVIOUS
<1>2. Bad \in SUBSET Nat
  OBVIOUS
<1>3. PICK i \in Bad : \A j \in Bad : i <= j
  <2> HIDE DEF Bad
  <2> QED
    BY <1>1, <1>2, LeastNumber
<1>4. CASE i = 0
  <2>1. Stage([k \in 0..0 |-> base], 0, base, G)
    BY DEF Stage
  <2> QED
    BY <2>1, <1>3, <1>4
<1>5. CASE i # 0
  <2>1. i - 1 \in Nat /\ ~(i <= i - 1) /\ i \in Nat
    BY <1>5
  <2>2. i - 1 \notin Bad
    <3> HIDE DEF Bad
    <3> QED
      BY <1>3, <2>1
  <2>3. PICK g : Stage(g, i - 1, base, G)
    BY <2>1, <2>2
  <2> DEFINE h == [k \in 0..i |-> IF k = i THEN G[<<i, g[i - 1]>>] ELSE g[k]]
  <2>4. \A k \in 0..i - 1 : h[k] = g[k]
    BY <2>1
  <2>5. h[i] = G[<<i, g[i - 1]>>] /\ DOMAIN h = 0..i /\ h[0] = base
    BY <2>1, <2>3, <1>5 DEF Stage
  <2>6. ASSUME NEW k \in 1..i PROVE h[k] = G[<<k, h[k - 1]>>]
    <3> HIDE DEF h
    <3>1. k - 1 \in 0..i - 1
      BY <2>1
    <3>2. CASE k = i
      BY <3>1, <3>2, <2>4, <2>5
    <3>3. CASE k # i
      <4>1. k \in 1..i - 1 /\ k \in 0..i - 1
        BY <3>3, <2>1
      <4> QED
        BY <4>1, <3>1, <2>3, <2>4 DEF Stage
    <3> QED
      BY <3>2, <3>3
  <2>7. Stage(h, i, base, G)
    <3> HIDE DEF h
    <3> QED
      BY <2>5, <2>6 DEF Stage
  <2> QED
    BY <2>7, <1>3
<1> QED
  BY <1>4, <1>5

Recurses(f, base, G) ==
  /\ f = [n \in Nat |-> f[n]] /\ f[0] = base
  /\ \A n \in Nat \ {0} : f[n] = G[<<n, f[n - 1]>>]

\* So a recursion over the numbers has a function: this is where Pow2 and Total get their equations from.
LEMMA Recursion ==
  ASSUME NEW base, NEW G
  PROVE  \E f : Recurses(f, base, G)
<1> DEFINE st(n) == CHOOSE g : Stage(g, n, base, G)
           f == [n \in Nat |-> st(n)[n]]
<1>1. ASSUME NEW n \in Nat PROVE Stage(st(n), n, base, G)
  BY StageExists
<1> HIDE DEF st
<1>2. f[0] = base
  <2>1. Stage(st(0), 0, base, G)
    BY <1>1
  <2> QED
    BY <2>1 DEF Stage
<1>3. ASSUME NEW n \in Nat \ {0} PROVE f[n] = G[<<n, f[n - 1]>>]
  <2>1. n - 1 \in Nat /\ n \in Nat /\ n \in 1..n /\ n - 1 <= n /\ n - 1 <= n - 1
    OBVIOUS
  <2>2. Stage(st(n), n, base, G) /\ Stage(st(n - 1), n - 1, base, G)
    BY <1>1, <2>1
  <2>3. st(n)[n - 1] = st(n - 1)[n - 1]
    <3>1. \A g, h : Stage(g, n, base, G) /\ Stage(h, n - 1, base, G) => g[n - 1] = h[n - 1]
      BY <2>1, StagesAgree
    <3> QED
      BY <3>1, <2>2
  <2>4. st(n)[n] = G[<<n, st(n)[n - 1]>>]
    BY <2>1, <2>2 DEF Stage
  <2> QED
    BY <2>1, <2>3, <2>4
<1>4. f = [n \in Nat |-> f[n]]
  OBVIOUS
<1> HIDE DEF f
<1> QED
  BY <1>2, <1>3, <1>4 DEF Recurses

\* The equations of Pow2.
LEMMA Pow2Step == DOMAIN Pow2 = Nat /\ Pow2[0] = 1 /\ \A n \in Nat \ {0} : Pow2[n] = 2 * Pow2[n - 1]
<1> DEFINE G == [p \in Nat \X Int |-> 2 * p[2]]
<1>0. PICK f : Recurses(f, 1, G)
  <2> HIDE DEF G
  <2> QED
    BY Recursion
<1>1. f = [n \in Nat |-> f[n]] /\ f[0] = 1 /\ \A n \in Nat \ {0} : f[n] = G[<<n, f[n - 1]>>]
  <2> HIDE DEF G
  <2> QED
    BY <1>0 DEF Recurses
<1>2. \A n \in Nat : f[n] \in Int
  <2> DEFINE Bad == {n \in Nat : f[n] \notin Int}
  <2>1. SUFFICES ASSUME Bad # {} PROVE FALSE
    OBVIOUS
  <2>2. PICK i \in Bad : \A j \in Bad : i <= j
    <3>1. Bad \in SUBSET Nat
      OBVIOUS
    <3> HIDE DEF Bad
    <3> QED
      BY <2>1, <3>1, LeastNumber
  <2>3. i \in Nat \ {0}
    BY <1>1
  <2>4. i - 1 \in Nat /\ ~(i <= i - 1)
    BY <2>3
  <2>5. f[i - 1] \in Int
    <3>1. i - 1 \notin Bad
      <4> HIDE DEF Bad
      <4> QED
        BY <2>2, <2>4
    <3> QED
      BY <3>1, <2>4
  <2>6. f[i] = G[<<i, f[i - 1]>>]
    <3> HIDE DEF G
    <3> QED
      BY <1>1, <2>3
  <2>7. <<i, f[i - 1]>> \in Nat \X Int
    BY <2>3, <2>5
  <2>8. f[i] = 2 * f[i - 1]
    BY <2>6, <2>7
  <2> QED
    BY <2>5, <2>8
<1>3. \A n \in Nat \ {0} : f[n] = 2 * f[n - 1]
  <2>1. ASSUME NEW n \in Nat \ {0} PROVE f[n] = 2 * f[n - 1]
    <3>1. <<n, f[n - 1]>> \in Nat \X Int
      BY <1>2
    <3>2. f[n] = G[<<n, f[n - 1]>>]
      <4> HIDE DEF G
      <4> QED
        BY <1>1
    <3> QED
      BY <3>1, <3>2
  <2> QED
    BY <2>1
<1>4. f = [n \in Nat |-> IF n = 0 THEN 1 ELSE 2 * f[n - 1]]
  <2>1. \A n \in Nat : f[n] = IF n = 0 THEN 1 ELSE 2 * f[n - 1]
    <3> HIDE DEF G
    <3> QED
      BY <1>1, <1>3
  <2>2. [n \in Nat |-> f[n]] = [n \in Nat |-> IF n = 0 THEN 1 ELSE 2 * f[n - 1]]
    BY <2>1
  <2> HIDE DEF G
  <2> QED
    BY <1>1, <2>2
<1>5. Pow2 = [n \in Nat |-> IF n = 0 THEN 1 ELSE 2 * Pow2[n - 1]]
  BY <1>4 DEF Pow2
<1> QED
  BY <1>5

-----------------------------------------------------------------------------
(***************************************************************************)
(* Halvings.                                                               *)
(***************************************************************************)
\* A power of two is never 0.
LEMMA Pow2Positive == \A n \in Nat : Pow2[n] \in Nat \ {0}
<1> DEFINE Bad == {n \in Nat : Pow2[n] \notin Nat \ {0}}
<1>1. SUFFICES ASSUME Bad # {} PROVE FALSE
  OBVIOUS
<1>2. PICK i \in Bad : \A j \in Bad : i <= j
  <2>1. Bad \in SUBSET Nat
    OBVIOUS
  <2> HIDE DEF Bad
  <2> QED
    BY <1>1, <2>1, LeastNumber
<1>3. i \in Nat \ {0}
  BY Pow2Step
<1>4. i - 1 \in Nat /\ ~(i <= i - 1)
  BY <1>3
<1>5. i - 1 \notin Bad
  <2> HIDE DEF Bad
  <2> QED
    BY <1>2, <1>4
<1>6. Pow2[i - 1] \in Nat \ {0}
  BY <1>4, <1>5
<1>7. Pow2[i] = 2 * Pow2[i - 1]
  BY <1>3, Pow2Step
<1>8. Pow2[i] \in Nat \ {0}
  BY <1>6, <1>7
<1> QED
  BY <1>2, <1>8

\* Twice a product is the product with twice one of its factors.
LEMMA TwiceTimes == \A a, b \in Nat : 2 * (a * b) = (2 * a) * b
OBVIOUS

\* Powers of two multiply.
LEMMA Pow2Sum == \A a, b \in Nat : Pow2[a + b] = Pow2[a] * Pow2[b]
<1>1. SUFFICES ASSUME NEW b \in Nat PROVE \A a \in Nat : Pow2[a + b] = Pow2[a] * Pow2[b]
  OBVIOUS
<1> DEFINE Bad == {n \in Nat : Pow2[n + b] # Pow2[n] * Pow2[b]}
<1>2. SUFFICES ASSUME Bad # {} PROVE FALSE
  OBVIOUS
<1>3. PICK i \in Bad : \A j \in Bad : i <= j
  <2>1. Bad \in SUBSET Nat
    OBVIOUS
  <2> HIDE DEF Bad
  <2> QED
    BY <1>2, <2>1, LeastNumber
<1>4. i # 0
  <2>1. Pow2[b] \in Nat /\ 0 + b = b /\ Pow2[0] = 1
    BY Pow2Step, Pow2Positive
  <2> QED
    BY <2>1
<1>5. i \in Nat \ {0} /\ i - 1 \in Nat /\ ~(i <= i - 1)
  BY <1>4
<1>6. i - 1 \notin Bad
  <2> HIDE DEF Bad
  <2> QED
    BY <1>3, <1>5
<1>7. Pow2[(i - 1) + b] = Pow2[i - 1] * Pow2[b]
  BY <1>5, <1>6
<1>8. i + b \in Nat \ {0} /\ (i + b) - 1 = (i - 1) + b
  BY <1>5
<1>9. Pow2[i + b] = 2 * Pow2[(i - 1) + b] /\ Pow2[i] = 2 * Pow2[i - 1]
  <2>1. Pow2[i + b] = 2 * Pow2[(i + b) - 1]
    BY <1>8, Pow2Step
  <2>2. Pow2[i] = 2 * Pow2[i - 1]
    BY <1>5, Pow2Step
  <2> QED
    BY <2>1, <2>2, <1>8
<1>10. Pow2[i - 1] \in Nat /\ Pow2[b] \in Nat
  BY <1>5, Pow2Positive
<1>11. 2 * (Pow2[i - 1] * Pow2[b]) = (2 * Pow2[i - 1]) * Pow2[b]
  BY <1>10, TwiceTimes
<1>12. Pow2[i + b] = Pow2[i] * Pow2[b]
  BY <1>7, <1>9, <1>11
<1> QED
  BY <1>3, <1>12

\* The bounds and the weight 1.0.
LEMMA Eras == MaxEra \in Nat /\ MaxFacts \in Nat /\ Whole \in Nat \ {0}
BY LearningAssumption, Pow2Positive DEF Whole

\* What is left of a weight after some half-lives is that after fewer, halved for each of the others.
LEMMA UnitHalves ==
  ASSUME NEW n \in 0..MaxEra, NEW m \in 0..MaxEra, n <= m
  PROVE  /\ Unit[n] \in Nat \ {0} /\ Unit[m] \in Nat \ {0} /\ m - n \in Nat
         /\ Unit[n] = Unit[m] * Pow2[m - n]
         /\ Unit[0] = Whole
         /\ Unit[n] <= Whole
<1>1. n \in Nat /\ m \in Nat /\ MaxEra \in Nat /\ m - n \in Nat /\ MaxEra - n \in Nat /\ MaxEra - m \in Nat
  BY Eras
<1>2. Unit[n] = Pow2[MaxEra - n] /\ Unit[m] = Pow2[MaxEra - m] /\ Unit[0] = Whole
  BY <1>1 DEF Unit, Whole
<1>3. Unit[n] = Unit[m] * Pow2[m - n]
  <2>1. (MaxEra - m) + (m - n) = MaxEra - n
    BY <1>1
  <2>2. Pow2[(MaxEra - m) + (m - n)] = Pow2[MaxEra - m] * Pow2[m - n]
    BY <1>1, Pow2Sum
  <2> QED
    BY <2>1, <2>2, <1>2
<1>4. Unit[n] <= Whole
  <2>1. (MaxEra - n) + n = MaxEra
    BY <1>1
  <2>2. Pow2[(MaxEra - n) + n] = Pow2[MaxEra - n] * Pow2[n]
    BY <1>1, Pow2Sum
  <2>3. Whole = Unit[n] * Pow2[n]
    BY <2>1, <2>2, <1>2 DEF Whole
  <2>4. \A a, b \in Nat \ {0} : a <= a * b
    OBVIOUS
  <2>5. Unit[n] \in Nat \ {0} /\ Pow2[n] \in Nat \ {0}
    BY <1>1, <1>2, Pow2Positive
  <2> QED
    BY <2>3, <2>4, <2>5
<1>5. Unit[n] \in Nat \ {0} /\ Unit[m] \in Nat \ {0}
  BY <1>1, <1>2, Pow2Positive
<1> QED
  BY <1>1, <1>2, <1>3, <1>4, <1>5

-----------------------------------------------------------------------------
IntsBy(v) == \A n \in 1..MaxFacts : v[n] \in Int
Sums(f, v) == f[0] = 0 /\ \A n \in 1..MaxFacts : f[n] = f[n - 1] + v[n]

\* Running sums of integers are integers.
LEMMA SumsInt ==
  ASSUME NEW v, NEW f, Sums(f, v), IntsBy(v)
  PROVE  \A n \in 0..MaxFacts : f[n] \in Int
<1> DEFINE Bad == {n \in Nat : n <= MaxFacts /\ f[n] \notin Int}
<1>0. MaxFacts \in Nat
  BY Eras
<1>1. SUFFICES ASSUME Bad # {} PROVE FALSE
  BY <1>0
<1>2. PICK i \in Bad : \A j \in Bad : i <= j
  <2>1. Bad \in SUBSET Nat
    OBVIOUS
  <2> HIDE DEF Bad
  <2> QED
    BY <1>1, <2>1, LeastNumber
<1>3. i # 0
  BY DEF Sums
<1>4. i \in 1..MaxFacts /\ i - 1 \in Nat /\ ~(i <= i - 1) /\ i - 1 <= MaxFacts
  BY <1>0, <1>3
<1>5. i - 1 \notin Bad
  <2> HIDE DEF Bad
  <2> QED
    BY <1>2, <1>4
<1>6. f[i - 1] \in Int
  BY <1>4, <1>5
<1>7. f[i] = f[i - 1] + v[i] /\ v[i] \in Int
  BY <1>4 DEF Sums, IntsBy
<1> QED
  BY <1>2, <1>6, <1>7

\* Total is the last of the running sums, however they are written down.
LEMMA TotalOf ==
  ASSUME NEW v, NEW f, Sums(f, v)
  PROVE  Baseline!Total(v) = f[MaxFacts]
<1>0. MaxFacts \in Nat
  BY Eras
<1> DEFINE F == [n \in 0..MaxFacts |-> f[n]]
           Def(g) == [n \in 0..MaxFacts |-> IF n = 0 THEN 0 ELSE g[n - 1] + v[n]]
           up == CHOOSE g : g = Def(g)
<1>1. Baseline!Total(v) = up[MaxFacts]
  BY DEF Baseline!Total
<1>2. F = Def(F)
  <2>1. ASSUME NEW n \in 0..MaxFacts PROVE F[n] = IF n = 0 THEN 0 ELSE F[n - 1] + v[n]
    <3>1. CASE n = 0
      BY <3>1, <1>0 DEF Sums
    <3>2. CASE n # 0
      <4>1. n \in 1..MaxFacts /\ n - 1 \in 0..MaxFacts
        BY <3>2, <1>0
      <4> QED
        BY <4>1, <3>2 DEF Sums
    <3> QED
      BY <3>1, <3>2
  <2> QED
    BY <2>1
<1>3. up = Def(up)
  <2> HIDE DEF F, Def
  <2> QED
    BY <1>2
<1> HIDE DEF up
<1>4. \A n \in 0..MaxFacts : up[n] = IF n = 0 THEN 0 ELSE up[n - 1] + v[n]
  BY <1>3
<1> HIDE DEF Def
<1> DEFINE Bad == {n \in Nat : n <= MaxFacts /\ up[n] # f[n]}
<1>5. ASSUME Bad # {} PROVE FALSE
  <2>1. PICK i \in Bad : \A j \in Bad : i <= j
    <3>1. Bad \in SUBSET Nat
      OBVIOUS
    <3> HIDE DEF Bad
    <3> QED
      BY <1>5, <3>1, LeastNumber
  <2>2. i # 0
    BY <1>0, <1>4 DEF Sums
  <2>3. i \in 1..MaxFacts /\ i \in 0..MaxFacts /\ i - 1 \in Nat /\ ~(i <= i - 1) /\ i - 1 <= MaxFacts
    BY <1>0, <2>2
  <2>4. i - 1 \notin Bad
    <3> HIDE DEF Bad
    <3> QED
      BY <2>1, <2>3
  <2>5. up[i - 1] = f[i - 1]
    BY <2>3, <2>4
  <2>6. up[i] = f[i]
    BY <2>3, <2>5, <1>4 DEF Sums
  <2> QED
    BY <2>1, <2>6
<1>6. up[MaxFacts] = f[MaxFacts]
  BY <1>0, <1>5
<1> QED
  BY <1>1, <1>6

\* Running sums exist.
LEMMA SumsExist == ASSUME NEW v, IntsBy(v) PROVE \E f : Sums(f, v)
<1> DEFINE G == [p \in Nat \X Int |-> IF p[1] \in 1..MaxFacts THEN p[2] + v[p[1]] ELSE p[2]]
<1>0. MaxFacts \in Nat
  BY Eras
<1>1. PICK f : Recurses(f, 0, G)
  <2> HIDE DEF G
  <2> QED
    BY Recursion
<1>2. f[0] = 0 /\ \A n \in Nat \ {0} : f[n] = G[<<n, f[n - 1]>>]
  <2> HIDE DEF G
  <2> QED
    BY <1>1 DEF Recurses
<1>3. \A n \in Nat, x \in Int : G[<<n, x>>] = (IF n \in 1..MaxFacts THEN x + v[n] ELSE x) /\ G[<<n, x>>] \in Int
  BY DEF IntsBy
<1> HIDE DEF G
<1> DEFINE Bad == {n \in Nat : f[n] \notin Int}
<1>4. ASSUME Bad # {} PROVE FALSE
  <2>1. PICK i \in Bad : \A j \in Bad : i <= j
    <3>1. Bad \in SUBSET Nat
      OBVIOUS
    <3> HIDE DEF Bad
    <3> QED
      BY <1>4, <3>1, LeastNumber
  <2>2. i \in Nat \ {0} /\ i - 1 \in Nat /\ ~(i <= i - 1)
    BY <1>2
  <2>3. i - 1 \notin Bad
    <3> HIDE DEF Bad
    <3> QED
      BY <2>1, <2>2
  <2>4. f[i - 1] \in Int
    BY <2>2, <2>3
  <2>5. f[i] \in Int
    BY <1>2, <1>3, <2>2, <2>4
  <2> QED
    BY <2>1, <2>5
<1>5. \A n \in Nat : f[n] \in Int
  BY <1>4
<1>6. ASSUME NEW n \in 1..MaxFacts PROVE f[n] = f[n - 1] + v[n]
  <2>1. n \in Nat \ {0} /\ n - 1 \in Nat
    BY <1>0
  <2> QED
    BY <2>1, <1>2, <1>3, <1>5
<1> QED
  BY <1>2, <1>6 DEF Sums

\* A total of integers is an integer.
LEMMA TotalInt ==
  ASSUME NEW v, IntsBy(v)
  PROVE  Baseline!Total(v) \in Int /\ \E f : Sums(f, v) /\ Baseline!Total(v) = f[MaxFacts] /\ \A n \in 0..MaxFacts : f[n] \in Int
<1>1. PICK f : Sums(f, v)
  BY SumsExist
<1>2. \A n \in 0..MaxFacts : f[n] \in Int
  BY <1>1, SumsInt
<1>3. Baseline!Total(v) = f[MaxFacts]
  BY <1>1, TotalOf
<1>4. MaxFacts \in 0..MaxFacts
  BY Eras
<1> QED
  BY <1>1, <1>2, <1>3, <1>4

\* A total of zeros is zero.
LEMMA TotalZero ==
  ASSUME NEW v, \A n \in 1..MaxFacts : v[n] = 0
  PROVE  Baseline!Total(v) = 0
<1> DEFINE f == [n \in 0..MaxFacts |-> 0]
<1>0. MaxFacts \in Nat
  BY Eras
<1>1. Sums(f, v)
  BY <1>0 DEF Sums
<1>2. f[MaxFacts] = 0
  BY <1>0
<1> HIDE DEF f
<1> QED
  BY <1>1, <1>2, TotalOf

\* One number more or less in one place is that much more or less in all.
LEMMA TotalPlus ==
  ASSUME NEW v, NEW w, IntsBy(v), NEW d \in Int, NEW m \in 1..MaxFacts,
         \A n \in 1..MaxFacts : w[n] = IF n = m THEN v[n] + d ELSE v[n]
  PROVE  Baseline!Total(w) = Baseline!Total(v) + d
<1>0. MaxFacts \in Nat
  BY Eras
<1>1. PICK f : Sums(f, v) /\ Baseline!Total(v) = f[MaxFacts] /\ \A n \in 0..MaxFacts : f[n] \in Int
  BY TotalInt
<1> DEFINE g == [n \in 0..MaxFacts |-> IF n < m THEN f[n] ELSE f[n] + d]
<1>2. g[0] = 0
  BY <1>0, <1>1 DEF Sums
<1>3. ASSUME NEW n \in 1..MaxFacts PROVE g[n] = g[n - 1] + w[n]
  <2>1. n \in 0..MaxFacts /\ n - 1 \in 0..MaxFacts /\ f[n] \in Int /\ f[n - 1] \in Int /\ v[n] \in Int
    BY <1>0, <1>1 DEF IntsBy
  <2>2. f[n] = f[n - 1] + v[n]
    BY <1>1 DEF Sums
  <2>3. g[n] = (IF n < m THEN f[n] ELSE f[n] + d) /\ g[n - 1] = IF n - 1 < m THEN f[n - 1] ELSE f[n - 1] + d
    BY <2>1
  <2> HIDE DEF g
  <2>4. CASE n < m
    BY <2>1, <2>2, <2>3, <2>4
  <2>5. CASE n = m
    <3>1. n - 1 < m /\ ~(n < m)
      BY <2>1, <2>5
    <3> QED
      BY <3>1, <2>1, <2>2, <2>3, <2>5
  <2>6. CASE n > m
    <3>1. ~(n - 1 < m) /\ ~(n < m) /\ n # m
      BY <2>1, <2>6
    <3> QED
      BY <3>1, <2>1, <2>2, <2>3
  <2> QED
    BY <2>1, <2>4, <2>5, <2>6
<1>4. Sums(g, w)
  <2> HIDE DEF g
  <2> QED
    BY <1>2, <1>3 DEF Sums
<1>5. g[MaxFacts] = f[MaxFacts] + d
  BY <1>0
<1> HIDE DEF g
<1> QED
  BY <1>1, <1>4, <1>5, TotalOf

\* Totals of the same numbers are the same.
LEMMA TotalSame ==
  ASSUME NEW v, NEW w, IntsBy(v), \A n \in 1..MaxFacts : w[n] = v[n]
  PROVE  Baseline!Total(w) = Baseline!Total(v)
<1>1. PICK f : Sums(f, v) /\ Baseline!Total(v) = f[MaxFacts]
  BY TotalInt
<1>2. Sums(f, w)
  BY <1>1 DEF Sums
<1> QED
  BY <1>1, <1>2, TotalOf

\* A factor of a sum is one of what is summed.
LEMMA TimesSum == \A a, b, c \in Int : (a + b) * c = a * c + b * c
OBVIOUS

\* A factor of all is a factor of the total.
LEMMA TotalTimes ==
  ASSUME NEW v, NEW w, IntsBy(v), NEW c \in Int, \A n \in 1..MaxFacts : w[n] = v[n] * c
  PROVE  Baseline!Total(w) = Baseline!Total(v) * c
<1>0. MaxFacts \in Nat
  BY Eras
<1>1. PICK f : Sums(f, v) /\ Baseline!Total(v) = f[MaxFacts] /\ \A n \in 0..MaxFacts : f[n] \in Int
  BY TotalInt
<1> DEFINE g == [n \in 0..MaxFacts |-> f[n] * c]
<1>2. g[0] = 0
  BY <1>0, <1>1 DEF Sums
<1>3. ASSUME NEW n \in 1..MaxFacts PROVE g[n] = g[n - 1] + w[n]
  <2>1. n \in 0..MaxFacts /\ n - 1 \in 0..MaxFacts /\ f[n] \in Int /\ f[n - 1] \in Int /\ v[n] \in Int
    BY <1>0, <1>1 DEF IntsBy
  <2>2. f[n] = f[n - 1] + v[n]
    BY <1>1 DEF Sums
  <2>3. g[n] = f[n] * c /\ g[n - 1] = f[n - 1] * c /\ w[n] = v[n] * c
    BY <2>1
  <2>4. (f[n - 1] + v[n]) * c = f[n - 1] * c + v[n] * c
    BY <2>1, TimesSum
  <2> HIDE DEF g
  <2> QED
    BY <2>2, <2>3, <2>4
<1>4. Sums(g, w)
  <2> HIDE DEF g
  <2> QED
    BY <1>2, <1>3 DEF Sums
<1>5. g[MaxFacts] = f[MaxFacts] * c
  BY <1>0
<1> HIDE DEF g
<1> QED
  BY <1>1, <1>4, <1>5, TotalOf

\* A total of what is not negative is not negative.
LEMMA TotalNat ==
  ASSUME NEW v, \A n \in 1..MaxFacts : v[n] \in Nat
  PROVE  Baseline!Total(v) \in Nat
<1>0. MaxFacts \in Nat /\ IntsBy(v)
  BY Eras DEF IntsBy
<1>1. PICK f : Sums(f, v) /\ Baseline!Total(v) = f[MaxFacts] /\ \A n \in 0..MaxFacts : f[n] \in Int
  BY <1>0, TotalInt
<1> DEFINE Bad == {n \in Nat : n <= MaxFacts /\ f[n] \notin Nat}
<1>2. ASSUME Bad # {} PROVE FALSE
  <2>1. PICK i \in Bad : \A j \in Bad : i <= j
    <3>1. Bad \in SUBSET Nat
      OBVIOUS
    <3> HIDE DEF Bad
    <3> QED
      BY <1>2, <3>1, LeastNumber
  <2>2. i # 0
    BY <1>1 DEF Sums
  <2>3. i \in 1..MaxFacts /\ i - 1 \in Nat /\ ~(i <= i - 1) /\ i - 1 <= MaxFacts
    BY <1>0, <2>2
  <2>4. i - 1 \notin Bad
    <3> HIDE DEF Bad
    <3> QED
      BY <2>1, <2>3
  <2>5. f[i - 1] \in Nat /\ v[i] \in Nat
    BY <2>3, <2>4
  <2>6. f[i] = f[i - 1] + v[i]
    BY <2>3, <1>1 DEF Sums
  <2>7. f[i] \in Nat
    BY <2>5, <2>6
  <2> QED
    BY <2>1, <2>7
<1> QED
  BY <1>0, <1>1, <1>2

\* A sum of what is not negative is no less than any part of it.
LEMMA TotalPart ==
  ASSUME NEW v, \A n \in 1..MaxFacts : v[n] \in Nat, NEW m \in 1..MaxFacts
  PROVE  v[m] <= Baseline!Total(v)
<1> DEFINE w == [n \in 1..MaxFacts |-> IF n = m THEN v[n] + (-v[m]) ELSE v[n]]
<1>1. IntsBy(v) /\ v[m] \in Nat
  BY DEF IntsBy
<1>2. -v[m] \in Int /\ \A n \in 1..MaxFacts : w[n] = IF n = m THEN v[n] + (-v[m]) ELSE v[n]
  BY <1>1
<1>3. \A n \in 1..MaxFacts : w[n] \in Nat
  BY <1>1
<1> HIDE DEF w
<1>4. Baseline!Total(w) = Baseline!Total(v) + (-v[m])
  BY <1>1, <1>2, TotalPlus
<1>5. Baseline!Total(w) \in Nat /\ Baseline!Total(v) \in Nat
  BY <1>3, TotalNat
<1> QED
  BY <1>1, <1>4, <1>5

\* Where all but one number are 0, the sum is that one.
LEMMA TotalOne ==
  ASSUME NEW v, NEW m \in 1..MaxFacts, v[m] \in Int, \A n \in 1..MaxFacts : n # m => v[n] = 0
  PROVE  Baseline!Total(v) = v[m]
<1> DEFINE w == [n \in 1..MaxFacts |-> 0]
<1>1. IntsBy(w) /\ \A n \in 1..MaxFacts : v[n] = IF n = m THEN w[n] + v[m] ELSE w[n]
  BY DEF IntsBy
<1>2. Baseline!Total(w) = 0
  BY TotalZero
<1> HIDE DEF w
<1>3. Baseline!Total(v) = Baseline!Total(w) + v[m]
  BY <1>1, TotalPlus
<1> QED
  BY <1>2, <1>3

-----------------------------------------------------------------------------
(***************************************************************************)
(* What facts amount to.                                                   *)
(***************************************************************************)
\* What has a factor divides by it exactly.
LEMMA DivExact == ASSUME NEW x \in Int, NEW c \in Nat \ {0} PROVE (x * c) \div c = x
<1> DEFINE a == x * c
           q == a \div c
<1>1. a \in Int /\ q \in Int /\ c * q <= a /\ a < c * q + c
  OBVIOUS
<1>2. ASSUME NEW p \in Int, NEW r \in Int, p < r PROVE c * p + c <= c * r
  <2>1. r - p - 1 \in Nat /\ c * (r - p - 1) >= 0
    BY <1>2
  <2> QED
    BY <2>1
<1>3. a = c * x
  OBVIOUS
<1> HIDE DEF a, q
<1>4. ~(q < x)
  <2>1. q < x => c * q + c <= c * x
    BY <1>1, <1>2
  <2>2. c * x \in Int /\ c * q \in Int
    BY <1>1
  <2> QED
    BY <1>1, <1>3, <2>1, <2>2
<1>5. ~(x < q)
  <2>1. x < q => c * x + c <= c * q
    BY <1>1, <1>2
  <2>2. c * x \in Int /\ c * q \in Int
    BY <1>1
  <2> QED
    BY <1>1, <1>3, <2>1, <2>2
<1> QED
  BY <1>1, <1>4, <1>5 DEF a, q

Parts == {"sum", "weight", "pos", "neg", "events"}

\* Facts that can be held together: no two of the same time.
Together(F) == /\ F \subseteq Fact
               /\ \A f \in F : f.at \in 1..MaxFacts
               /\ \A f, g \in F : f.at = g.at => f = g
UpTo(F, e) == \A f \in F : f.era <= e

\* Of facts that can be held together, fewer can.
LEMMA TogetherSub == ASSUME NEW F, NEW G, Together(F), G \subseteq F PROVE Together(G)
BY DEF Together

\* The parts of a fact.
LEMMA FactFields ==
  ASSUME NEW f \in Fact
  PROVE  /\ f.at \in Nat /\ f.era \in 0..MaxEra /\ f.era \in Nat /\ f.net \in Int
         /\ f.bucket \in Buckets /\ f.weight \in {1, 2} /\ f.weight \in Nat \ {0}
BY Eras DEF Fact

\* A fact never weighs nothing.
LEMMA WorthPositive ==
  ASSUME NEW f \in Fact, NEW e \in 0..MaxEra, f.era <= e
  PROVE  Baseline!Worth(f, e) \in Nat \ {0} /\ Baseline!Worth(f, e) <= 2 * Whole /\ e - f.era \in 0..MaxEra
<1> DEFINE u == Unit[e - f.era]
<1>1. f.weight \in {1, 2} /\ f.era \in Nat /\ f.era <= MaxEra
  BY FactFields, Eras
<1>2. e - f.era \in 0..MaxEra
  BY <1>1, Eras
<1>3. u \in Nat \ {0} /\ u <= Whole /\ Whole \in Nat
  BY <1>2, UnitHalves, Eras
<1>4. Baseline!Worth(f, e) = f.weight * u
  BY DEF Baseline!Worth
<1> HIDE DEF u
<1> QED
  BY <1>1, <1>2, <1>3, <1>4

\* The share of a fact is an integer, and of all parts but the sum not negative.
LEMMA ShareType ==
  ASSUME NEW f \in Fact, NEW e \in 0..MaxEra, f.era <= e, NEW part \in Parts
  PROVE  /\ Baseline!Share(f, e, part) \in Int
         /\ part # "sum" => Baseline!Share(f, e, part) \in Nat
<1> DEFINE w == Baseline!Worth(f, e)
<1>1. w \in Nat \ {0} /\ f.net \in Int
  BY WorthPositive, FactFields
<1>2. Baseline!Share(f, e, part) = CASE part = "sum"    -> f.net * w
                                     [] part = "weight" -> w
                                     [] part = "pos"    -> IF f.net > 0 THEN w ELSE 0
                                     [] part = "neg"    -> IF f.net < 0 THEN w ELSE 0
                                     [] part = "events" -> 1
  BY DEF Baseline!Share
<1>3. f.net * w \in Int
  BY <1>1
<1> HIDE DEF w
<1> QED
  BY <1>1, <1>2, <1>3 DEF Parts

\* The part that a share is of, case by case.
LEMMA ShareOfPart ==
  ASSUME NEW f, NEW e
  PROVE  /\ Baseline!Share(f, e, "sum") = f.net * Baseline!Worth(f, e)
         /\ Baseline!Share(f, e, "weight") = Baseline!Worth(f, e)
         /\ Baseline!Share(f, e, "pos") = IF f.net > 0 THEN Baseline!Worth(f, e) ELSE 0
         /\ Baseline!Share(f, e, "neg") = IF f.net < 0 THEN Baseline!Worth(f, e) ELSE 0
         /\ Baseline!Share(f, e, "events") = 1
BY DEF Baseline!Share

\* Each fact has its share at its own time.
LEMMA SharesAt ==
  ASSUME NEW F, Together(F), NEW e, NEW part
  PROVE  /\ \A f \in F : Baseline!Shares(F, e, part)[f.at] = Baseline!Share(f, e, part)
         /\ \A n \in 1..MaxFacts : (\A f \in F : f.at # n) => Baseline!Shares(F, e, part)[n] = 0
<1>1. ASSUME NEW f \in F PROVE Baseline!Shares(F, e, part)[f.at] = Baseline!Share(f, e, part)
  <2>1. f.at \in 1..MaxFacts /\ Baseline!Said(F, f.at) = {f}
    BY DEF Together, Baseline!Said
  <2>2. (CHOOSE g \in Baseline!Said(F, f.at) : TRUE) = f /\ Baseline!Said(F, f.at) # {}
    BY <2>1
  <2> QED
    BY <2>1, <2>2 DEF Baseline!Shares
<1>2. ASSUME NEW n \in 1..MaxFacts, \A f \in F : f.at # n PROVE Baseline!Shares(F, e, part)[n] = 0
  <2>1. Baseline!Said(F, n) = {}
    BY <1>2 DEF Baseline!Said
  <2> QED
    BY <2>1 DEF Baseline!Shares
<1> QED
  BY <1>1, <1>2

\* The shares of facts that can be held together, by time.
LEMMA SharesType ==
  ASSUME NEW F, Together(F), NEW e \in 0..MaxEra, UpTo(F, e), NEW part \in Parts
  PROVE  /\ IntsBy(Baseline!Shares(F, e, part))
         /\ part # "sum" => \A n \in 1..MaxFacts : Baseline!Shares(F, e, part)[n] \in Nat
<1> DEFINE v == Baseline!Shares(F, e, part)
<1>1. ASSUME NEW n \in 1..MaxFacts PROVE v[n] \in Int /\ (part # "sum" => v[n] \in Nat)
  <2>1. CASE \E f \in F : f.at = n
    <3>1. PICK f \in F : f.at = n
      BY <2>1
    <3>2. f \in Fact /\ f.era <= e
      BY DEF Together, UpTo
    <3>3. v[n] = Baseline!Share(f, e, part)
      BY <3>1, SharesAt
    <3> QED
      BY <3>2, <3>3, ShareType
  <2>2. CASE \A f \in F : f.at # n
    <3>1. v[n] = 0
      BY <2>2, SharesAt
    <3> QED
      BY <3>1
  <2> QED
    BY <2>1, <2>2
<1> QED
  BY <1>1 DEF IntsBy

\* One fact more.
LEMMA TotalWith ==
  ASSUME NEW F, NEW f, Together(F \cup {f}), f \notin F, NEW e \in 0..MaxEra, UpTo(F \cup {f}, e), NEW part \in Parts
  PROVE  Baseline!Total(Baseline!Shares(F \cup {f}, e, part)) =
         Baseline!Total(Baseline!Shares(F, e, part)) + Baseline!Share(f, e, part)
<1> DEFINE v == Baseline!Shares(F, e, part)
           w == Baseline!Shares(F \cup {f}, e, part)
           d == Baseline!Share(f, e, part)
           m == f.at
<1>1. Together(F) /\ UpTo(F, e) /\ f \in Fact /\ f.era <= e /\ m \in 1..MaxFacts /\ \A g \in F : g.at # m
  BY DEF Together, UpTo
<1>2. IntsBy(v) /\ d \in Int
  BY <1>1, SharesType, ShareType
<1>3. ASSUME NEW n \in 1..MaxFacts PROVE w[n] = IF n = m THEN v[n] + d ELSE v[n]
  <2>1. CASE n = m
    <3>1. w[n] = d
      BY <2>1, SharesAt
    <3>2. v[n] = 0
      BY <2>1, <1>1, SharesAt
    <3> QED
      BY <3>1, <3>2, <2>1, <1>2
  <2>2. CASE n # m /\ \E g \in F : g.at = n
    <3>1. PICK g \in F : g.at = n
      BY <2>2
    <3>2. w[g.at] = Baseline!Share(g, e, part) /\ v[g.at] = Baseline!Share(g, e, part)
      BY <1>1, SharesAt
    <3> QED
      BY <3>1, <3>2, <2>2
  <2>3. CASE n # m /\ \A g \in F : g.at # n
    <3>1. \A g \in F \cup {f} : g.at # n
      BY <2>3
    <3>2. w[n] = 0 /\ v[n] = 0
      BY <3>1, <1>1, SharesAt
    <3> QED
      BY <3>2, <2>3
  <2> QED
    BY <2>1, <2>2, <2>3
<1> HIDE DEF v, w, d, m
<1>4. Baseline!Total(w) = Baseline!Total(v) + d
  BY <1>1, <1>2, <1>3, TotalPlus
<1> QED
  BY <1>4 DEF v, w, d

\* Nothing said amounts to nothing.
LEMMA TotalNone ==
  ASSUME NEW e, NEW part
  PROVE  Baseline!Total(Baseline!Shares({}, e, part)) = 0
<1>1. Together({})
  BY DEF Together
<1>2. \A n \in 1..MaxFacts : Baseline!Shares({}, e, part)[n] = 0
  BY <1>1, SharesAt
<1> QED
  BY <1>2, TotalZero

\* A factor moves through a product.
LEMMA MovedFactor ==
  /\ \A a, b, c, d \in Int : a * (b * (c * d)) = (a * (b * c)) * d
  /\ \A b, c, d \in Int : b * (c * d) = (b * c) * d
  /\ \A d \in Int : 0 * d = 0
OBVIOUS

\* With every half-life each part of what was said is halved, the number of events is not.
LEMMA TotalHalves ==
  ASSUME NEW F, Together(F), NEW e \in 0..MaxEra, NEW e2 \in 0..MaxEra, e <= e2, UpTo(F, e), NEW part \in Parts
  PROVE  Baseline!Total(Baseline!Shares(F, e, part)) =
         Baseline!Total(Baseline!Shares(F, e2, part)) * (IF part = "events" THEN 1 ELSE Pow2[e2 - e])
<1> DEFINE v == Baseline!Shares(F, e2, part)
           w == Baseline!Shares(F, e, part)
           c == IF part = "events" THEN 1 ELSE Pow2[e2 - e]
<1>0. e \in Nat /\ e2 \in Nat /\ e2 - e \in Nat /\ Pow2[e2 - e] \in Nat \ {0} /\ c \in Int
  BY Pow2Positive, Eras
<1>1. UpTo(F, e2)
  <2>1. \A f \in F : f.era \in Nat
    BY FactFields DEF Together
  <2> QED
    BY <2>1, <1>0 DEF UpTo
<1>2. IntsBy(v) /\ IntsBy(w)
  BY <1>1, SharesType
<1>3. ASSUME NEW n \in 1..MaxFacts PROVE w[n] = v[n] * c
  <2>1. CASE \E f \in F : f.at = n
    <3>1. PICK f \in F : f.at = n
      BY <2>1
    <3>2. f \in Fact /\ f.era <= e /\ f.era <= e2 /\ f.era \in Nat /\ f.net \in Int /\ f.weight \in Int
      BY <1>1, FactFields DEF Together, UpTo
    <3>3. w[n] = Baseline!Share(f, e, part) /\ v[n] = Baseline!Share(f, e2, part)
      BY <3>1, SharesAt
    <3> DEFINE a == Unit[e - f.era]
               b == Unit[e2 - f.era]
               p == Pow2[e2 - e]
    <3>4. /\ e - f.era \in 0..MaxEra /\ e2 - f.era \in 0..MaxEra /\ e - f.era <= e2 - f.era
          /\ (e2 - f.era) - (e - f.era) = e2 - e
      BY <3>2, <1>0, Eras
    <3>5. a = b * p /\ a \in Nat /\ b \in Nat /\ p \in Nat
      BY <3>4, UnitHalves, <1>0
    <3>6. Baseline!Worth(f, e) = f.weight * a /\ Baseline!Worth(f, e2) = f.weight * b
      BY DEF Baseline!Worth
    <3> HIDE DEF a, b, p
    <3> DEFINE x == Baseline!Worth(f, e2)
    <3>7. Baseline!Worth(f, e) = x * p /\ x \in Int
      BY <3>2, <3>5, <3>6, MovedFactor
    <3>8. f.net * (x * p) = (f.net * x) * p
      BY <3>2, <3>5, <3>7, MovedFactor
    <3>9. part # "events" => c = p
      BY DEF p
    <3>10. part = "events" => c = 1
      OBVIOUS
    <3> HIDE DEF x, c, v, w
    <3>11. CASE part = "sum"
      BY <3>11, <3>3, <3>7, <3>8, <3>9, ShareOfPart DEF x
    <3>12. CASE part = "weight"
      BY <3>12, <3>3, <3>7, <3>9, ShareOfPart DEF x
    <3>13. CASE part = "pos"
      BY <3>13, <3>3, <3>5, <3>7, <3>9, ShareOfPart, MovedFactor DEF x
    <3>14. CASE part = "neg"
      BY <3>14, <3>3, <3>5, <3>7, <3>9, ShareOfPart, MovedFactor DEF x
    <3>15. CASE part = "events"
      BY <3>15, <3>3, <3>10, ShareOfPart
    <3> QED
      BY <3>11, <3>12, <3>13, <3>14, <3>15 DEF Parts
  <2>2. CASE \A f \in F : f.at # n
    <3>1. w[n] = 0 /\ v[n] = 0
      BY <2>2, SharesAt
    <3> HIDE DEF v, w, c
    <3> QED
      BY <3>1, <1>0
  <2> QED
    BY <2>1, <2>2
<1> HIDE DEF v, w, c
<1>4. Baseline!Total(w) = Baseline!Total(v) * c
  BY <1>0, <1>2, <1>3, TotalTimes
<1> QED
  BY <1>4 DEF v, w, c

\* What was said weighs something for ever.
LEMMA TotalWeighs ==
  ASSUME NEW F, Together(F), NEW e \in 0..MaxEra, UpTo(F, e), Baseline!Total(Baseline!Shares(F, e, "weight")) <= 0
  PROVE  F = {}
<1>1. SUFFICES ASSUME NEW f \in F PROVE FALSE
  OBVIOUS
<1> DEFINE v == Baseline!Shares(F, e, "weight")
<1>2. f.at \in 1..MaxFacts /\ f \in Fact /\ f.era <= e /\ "weight" \in Parts
  BY DEF Together, UpTo, Parts
<1>3. v[f.at] = Baseline!Worth(f, e) /\ Baseline!Worth(f, e) \in Nat \ {0}
  BY <1>2, SharesAt, ShareOfPart, WorthPositive
<1>4. \A n \in 1..MaxFacts : v[n] \in Nat
  BY <1>2, SharesType
<1> HIDE DEF v
<1>5. v[f.at] <= Baseline!Total(v) /\ Baseline!Total(v) \in Nat
  BY <1>2, <1>4, TotalPart, TotalNat
<1> QED
  BY <1>3, <1>5 DEF v

Tot(F, e, part) == Baseline!Total(Baseline!Shares(F, e, part))

\* The parts of a bucket's statistics are what its facts amount to at e.
Amounts(s, F, e) ==
  /\ s.sum = Tot(F, e, "sum") /\ s.weight = Tot(F, e, "weight") /\ s.pos = Tot(F, e, "pos")
  /\ s.neg = Tot(F, e, "neg") /\ s.events = Tot(F, e, "events")

\* The statistics are those of the facts, when they were last brought up to date.
Tallies(s, F) == s \in Stats /\ Together(F) /\ UpTo(F, s.last) /\ Amounts(s, F, s.last)

\* The parts of statistics.
LEMMA StatsFields ==
  ASSUME NEW s \in Stats
  PROVE  /\ s.sum \in Int /\ s.weight \in Nat /\ s.pos \in Nat /\ s.neg \in Nat /\ s.events \in Nat
         /\ s.last \in 0..MaxEra /\ s.last \in Nat
BY Eras DEF Stats

\* Decay halves each part but the number of events.
LEMMA DecayOf ==
  ASSUME NEW s \in Stats, NEW e \in 0..MaxEra
  PROVE  /\ Decay(s, e) \in Stats /\ Decay(s, e).last = s.last /\ Decay(s, e).events = s.events
         /\ e <= s.last => Decay(s, e) = s
         /\ ~(e <= s.last) => /\ Decay(s, e).sum = s.sum \div Pow2[e - s.last]
                              /\ Decay(s, e).weight = s.weight \div Pow2[e - s.last]
                              /\ Decay(s, e).pos = s.pos \div Pow2[e - s.last]
                              /\ Decay(s, e).neg = s.neg \div Pow2[e - s.last]
<1>1. CASE e <= s.last
  BY <1>1 DEF Decay
<1>2. CASE ~(e <= s.last)
  <2> DEFINE f == Pow2[e - s.last]
             d == [s EXCEPT !.sum = @ \div f, !.weight = @ \div f, !.pos = @ \div f, !.neg = @ \div f]
  <2>1. e - s.last \in Nat /\ f \in Nat \ {0}
    BY <1>2, StatsFields, Eras, Pow2Positive
  <2>2. Decay(s, e) = d
    BY <1>2 DEF Decay
  <2> HIDE DEF f
  <2>3. \A x \in Int : x \div f \in Int
    BY <2>1
  <2>4. \A x \in Nat : x \div f \in Nat
    <3>1. ASSUME NEW x \in Nat PROVE x \div f \in Nat
      <4> DEFINE q == x \div f
      <4>1. q \in Int /\ x < f * q + f /\ f * q <= x
        BY <2>1
      <4> HIDE DEF q
      <4>2. q < 0 => f * q + f <= 0
        <5>1. q < 0 => f * (-1 - q) >= 0
          BY <2>1, <4>1
        <5> QED
          BY <5>1, <2>1, <4>1
      <4>3. ~(q < 0)
        BY <4>1, <4>2, <2>1
      <4>4. q \in Nat
        BY <4>1, <4>3
      <4> QED
        BY <4>4 DEF q
    <3> QED
      BY <3>1
  <2>5. /\ s.sum \div f \in Int /\ s.weight \div f \in Nat /\ s.pos \div f \in Nat /\ s.neg \div f \in Nat
    BY <2>3, <2>4, StatsFields
  <2>6. /\ d \in Stats /\ d.last = s.last /\ d.events = s.events /\ d.sum = s.sum \div f /\ d.weight = s.weight \div f
        /\ d.pos = s.pos \div f /\ d.neg = s.neg \div f
    BY <2>5 DEF Stats
  <2> QED
    BY <1>2, <2>2, <2>6 DEF f
<1> QED
  BY <1>1, <1>2

\* What an update adds.
LEMMA ReaddOf ==
  ASSUME NEW s \in Stats, NEW net \in Int, NEW w \in {1, 2}
  PROVE  /\ Readd(s, net, w) \in Stats /\ Readd(s, net, w).last = s.last
         /\ Readd(s, net, w).sum = s.sum + net * (w * Whole)
         /\ Readd(s, net, w).weight = s.weight + w * Whole
         /\ Readd(s, net, w).pos = s.pos + IF net > 0 THEN w * Whole ELSE 0
         /\ Readd(s, net, w).neg = s.neg + IF net < 0 THEN w * Whole ELSE 0
         /\ Readd(s, net, w).events = s.events + 1
<1>1. w * Whole \in Nat /\ net * w * Whole \in Int /\ net * w * Whole = net * (w * Whole)
  BY Eras, MovedFactor
<1> DEFINE u == w * Whole
           y == net * w * Whole
           r == [s EXCEPT !.sum = @ + y, !.weight = @ + u, !.pos = @ + IF net > 0 THEN u ELSE 0,
                          !.neg = @ + IF net < 0 THEN u ELSE 0, !.events = @ + 1]
<1>2. Readd(s, net, w) = r
  BY DEF Readd
<1>3. u \in Nat /\ y \in Int /\ y = net * u
  BY <1>1
<1> HIDE DEF u, y
<1>4. /\ s.sum + y \in Int /\ s.weight + u \in Nat /\ s.events + 1 \in Nat
      /\ s.pos + (IF net > 0 THEN u ELSE 0) \in Nat /\ s.neg + (IF net < 0 THEN u ELSE 0) \in Nat
  BY <1>3, StatsFields
<1>5. r \in Stats
  BY <1>4 DEF Stats
<1>6. /\ r.last = s.last /\ r.sum = s.sum + y /\ r.weight = s.weight + u /\ r.events = s.events + 1
      /\ r.pos = s.pos + (IF net > 0 THEN u ELSE 0) /\ r.neg = s.neg + (IF net < 0 THEN u ELSE 0)
  BY DEF Stats
<1> HIDE DEF r
<1> QED
  BY <1>2, <1>3, <1>5, <1>6 DEF u

\* What unlearning takes away.
LEMMA UnlearnOf ==
  ASSUME NEW s \in Stats, NEW net \in Int, NEW w \in {1, 2}
  PROVE  /\ Unlearn(s, net, w) \in Stats /\ Unlearn(s, net, w).last = s.last
         /\ Unlearn(s, net, w).sum = IF s.weight - w * Whole <= 0 THEN 0 ELSE s.sum - net * (w * Whole)
         /\ Unlearn(s, net, w).weight = AtLeast0(s.weight - w * Whole)
         /\ Unlearn(s, net, w).pos = IF net > 0 THEN AtLeast0(s.pos - w * Whole) ELSE s.pos
         /\ Unlearn(s, net, w).neg = IF net < 0 THEN AtLeast0(s.neg - w * Whole) ELSE s.neg
         /\ Unlearn(s, net, w).events = AtLeast0(s.events - 1)
<1>1. w * Whole \in Nat /\ net * w * Whole \in Int /\ net * w * Whole = net * (w * Whole)
  BY Eras, MovedFactor
<1> DEFINE u == w * Whole
           y == net * w * Whole
           r == [s EXCEPT !.sum = IF s.weight - u <= 0 THEN 0 ELSE @ - y, !.weight = AtLeast0(s.weight - u),
                          !.pos = IF net > 0 THEN AtLeast0(@ - u) ELSE @,
                          !.neg = IF net < 0 THEN AtLeast0(@ - u) ELSE @,
                          !.events = AtLeast0(@ - 1)]
<1>2. Unlearn(s, net, w) = r
  BY DEF Unlearn
<1>3. u \in Nat /\ y \in Int /\ y = net * u
  BY <1>1
<1> HIDE DEF u, y
<1>4. \A x \in Int : AtLeast0(x) \in Nat
  BY DEF AtLeast0
<1>5. /\ (IF s.weight - u <= 0 THEN 0 ELSE s.sum - y) \in Int /\ AtLeast0(s.weight - u) \in Nat
      /\ AtLeast0(s.events - 1) \in Nat
      /\ (IF net > 0 THEN AtLeast0(s.pos - u) ELSE s.pos) \in Nat
      /\ (IF net < 0 THEN AtLeast0(s.neg - u) ELSE s.neg) \in Nat
  BY <1>3, <1>4, StatsFields
<1>6. r \in Stats
  BY <1>5 DEF Stats
<1>7. /\ r.last = s.last /\ r.sum = (IF s.weight - u <= 0 THEN 0 ELSE s.sum - y)
      /\ r.weight = AtLeast0(s.weight - u) /\ r.events = AtLeast0(s.events - 1)
      /\ r.pos = (IF net > 0 THEN AtLeast0(s.pos - u) ELSE s.pos)
      /\ r.neg = (IF net < 0 THEN AtLeast0(s.neg - u) ELSE s.neg)
  BY DEF Stats
<1> HIDE DEF r
<1> QED
  BY <1>2, <1>3, <1>6, <1>7 DEF u

\* What facts amount to is a number.
LEMMA TotType ==
  ASSUME NEW F, Together(F), NEW e \in 0..MaxEra, UpTo(F, e)
  PROVE  /\ Tot(F, e, "sum") \in Int
         /\ Tot(F, e, "weight") \in Nat /\ Tot(F, e, "pos") \in Nat /\ Tot(F, e, "neg") \in Nat
         /\ Tot(F, e, "events") \in Nat
<1>1. {"sum", "weight", "pos", "neg", "events"} \subseteq Parts
  BY DEF Parts
<1>2. Tot(F, e, "sum") \in Int
  BY <1>1, SharesType, TotalInt DEF Tot
<1>3. ASSUME NEW part \in Parts, part # "sum" PROVE Tot(F, e, part) \in Nat
  BY <1>3, SharesType, TotalNat DEF Tot
<1> QED
  BY <1>1, <1>2, <1>3

\* No statistics are those of no facts.
LEMMA NoStatsTally == Tallies(NoStats, {})
<1>1. NoStats \in Stats /\ NoStats.last = 0
  BY Eras DEF NoStats, Stats
<1>2. Together({}) /\ UpTo({}, 0)
  BY DEF Together, UpTo
<1> QED
  BY <1>1, <1>2, TotalNone DEF Tallies, Amounts, Tot, NoStats

\* Statistics that are faded to now are what the facts amount to now.
LEMMA DecayTallies ==
  ASSUME NEW s, NEW F, Tallies(s, F), NEW e \in 0..MaxEra, s.last <= e
  PROVE  Amounts(Decay(s, e), F, e) /\ UpTo(F, e) /\ Decay(s, e) \in Stats
<1>1. s \in Stats /\ Together(F) /\ UpTo(F, s.last) /\ Amounts(s, F, s.last) /\ s.last \in 0..MaxEra /\ s.last \in Nat
  BY StatsFields DEF Tallies
<1>2. UpTo(F, e)
  <2>1. \A f \in F : f.era \in Nat
    BY <1>1, FactFields DEF Together
  <2> QED
    BY <1>1, <2>1, Eras DEF UpTo
<1>3. CASE e <= s.last
  <2>1. e = s.last
    BY <1>1, <1>3, Eras
  <2> QED
    BY <1>1, <1>2, <1>3, <2>1, DecayOf
<1>4. CASE ~(e <= s.last)
  <2> DEFINE p == Pow2[e - s.last]
             d == Decay(s, e)
  <2>1. p \in Nat \ {0}
    BY <1>1, Eras, Pow2Positive
  <2>2. /\ d \in Stats /\ d.events = s.events
        /\ d.sum = s.sum \div p /\ d.weight = s.weight \div p /\ d.pos = s.pos \div p /\ d.neg = s.neg \div p
    BY <1>1, <1>4, DecayOf
  <2>3. /\ Tot(F, s.last, "sum") = Tot(F, e, "sum") * p
        /\ Tot(F, s.last, "weight") = Tot(F, e, "weight") * p
        /\ Tot(F, s.last, "pos") = Tot(F, e, "pos") * p
        /\ Tot(F, s.last, "neg") = Tot(F, e, "neg") * p
        /\ Tot(F, s.last, "events") = Tot(F, e, "events") * 1
    <3>1. \A part \in Parts : Tot(F, s.last, part) = Tot(F, e, part) * (IF part = "events" THEN 1 ELSE p)
      BY <1>1, TotalHalves DEF Tot
    <3> QED
      BY <3>1 DEF Parts
  <2> HIDE DEF p, d
  <2>4. \A x \in Int : (x * p) \div p = x
    BY <2>1, DivExact
  <2>5. /\ Tot(F, e, "sum") \in Int /\ Tot(F, e, "weight") \in Int /\ Tot(F, e, "pos") \in Int
        /\ Tot(F, e, "neg") \in Int /\ Tot(F, e, "events") \in Int
    BY <1>1, <1>2, TotType
  <2>6. Amounts(d, F, e)
    BY <1>1, <2>2, <2>3, <2>4, <2>5 DEF Amounts
  <2> QED
    BY <1>2, <2>2, <2>6 DEF d
<1> QED
  BY <1>3, <1>4

\* A fact that is said now.
LEMMA AmountsWith ==
  ASSUME NEW s \in Stats, NEW F, NEW f, Together(F \cup {f}), f \notin F, UpTo(F, f.era), Amounts(s, F, f.era)
  PROVE  /\ Amounts(Readd(s, f.net, f.weight), F \cup {f}, f.era)
         /\ UpTo(F \cup {f}, f.era) /\ f \in Fact /\ f.era \in 0..MaxEra
<1>1. f \in Fact /\ Together(F)
  BY DEF Together
<1>2. f.net \in Int /\ f.weight \in {1, 2} /\ f.era \in 0..MaxEra /\ f.era <= f.era
  BY <1>1, FactFields
<1>3. UpTo(F \cup {f}, f.era)
  BY <1>2 DEF UpTo
<1>4. Baseline!Worth(f, f.era) = f.weight * Whole
  <2>1. f.era - f.era = 0 /\ 0 \in 0..MaxEra /\ 0 <= 0
    BY <1>2, Eras
  <2>2. Unit[f.era - f.era] = Whole
    BY <2>1, UnitHalves
  <2> QED
    BY <2>2 DEF Baseline!Worth
<1>5. \A part \in Parts : Tot(F \cup {f}, f.era, part) = Tot(F, f.era, part) + Baseline!Share(f, f.era, part)
  BY <1>2, <1>3, TotalWith DEF Tot
<1> DEFINE u == f.weight * Whole
           r == Readd(s, f.net, f.weight)
           G == F \cup {f}
<1>6. /\ Tot(G, f.era, "sum") = Tot(F, f.era, "sum") + f.net * u
      /\ Tot(G, f.era, "weight") = Tot(F, f.era, "weight") + u
      /\ Tot(G, f.era, "pos") = Tot(F, f.era, "pos") + IF f.net > 0 THEN u ELSE 0
      /\ Tot(G, f.era, "neg") = Tot(F, f.era, "neg") + IF f.net < 0 THEN u ELSE 0
      /\ Tot(G, f.era, "events") = Tot(F, f.era, "events") + 1
  BY <1>4, <1>5, ShareOfPart DEF Parts
<1>7. /\ r.sum = s.sum + f.net * u /\ r.weight = s.weight + u
      /\ r.pos = s.pos + (IF f.net > 0 THEN u ELSE 0)
      /\ r.neg = s.neg + (IF f.net < 0 THEN u ELSE 0) /\ r.events = s.events + 1
  BY <1>2, ReaddOf
<1> HIDE DEF u, r, G
<1>8. Amounts(r, G, f.era)
  BY <1>6, <1>7 DEF Amounts
<1> QED
  BY <1>1, <1>2, <1>3, <1>8 DEF r, G

\* Readd tells a fact of this era.
LEMMA ReaddTallies ==
  ASSUME NEW s, NEW F, Tallies(s, F), NEW f, Together(F \cup {f}), f \notin F, f.era = s.last
  PROVE  Tallies(Readd(s, f.net, f.weight), F \cup {f})
<1>1. s \in Stats /\ UpTo(F, f.era) /\ Amounts(s, F, f.era) /\ f \in Fact
  BY DEF Tallies, Together
<1>2. /\ Amounts(Readd(s, f.net, f.weight), F \cup {f}, f.era)
      /\ UpTo(F \cup {f}, f.era)
  BY <1>1, AmountsWith
<1>3. Readd(s, f.net, f.weight) \in Stats /\ Readd(s, f.net, f.weight).last = s.last
  BY <1>1, ReaddOf, FactFields
<1> QED
  BY <1>2, <1>3 DEF Tallies

\* Update fades first, so that it tells a later fact too.
LEMMA UpdateTallies ==
  ASSUME NEW s, NEW F, Tallies(s, F), NEW f, Together(F \cup {f}), f \notin F, s.last <= f.era
  PROVE  Tallies(Update(s, f), F \cup {f}) /\ Update(s, f).last = f.era
<1> DEFINE d == Decay(s, f.era)
           r == Readd(d, f.net, f.weight)
           q == [r EXCEPT !.last = f.era]
<1>1. f \in Fact /\ s \in Stats /\ f.era \in 0..MaxEra
  BY FactFields DEF Together, Tallies
<1>2. Amounts(d, F, f.era) /\ UpTo(F, f.era) /\ d \in Stats
  BY <1>1, DecayTallies
<1>3. Amounts(r, F \cup {f}, f.era) /\ UpTo(F \cup {f}, f.era)
  BY <1>1, <1>2, AmountsWith
<1>4. r \in Stats
  BY <1>1, <1>2, ReaddOf, FactFields
<1>5. Update(s, f) = q
  BY DEF Update
<1> HIDE DEF d, r
<1>6. /\ q \in Stats /\ q.last = f.era /\ q.sum = r.sum /\ q.weight = r.weight /\ q.pos = r.pos /\ q.neg = r.neg
      /\ q.events = r.events
  BY <1>1, <1>4 DEF Stats
<1> HIDE DEF q
<1>7. Amounts(q, F \cup {f}, q.last) /\ UpTo(F \cup {f}, q.last)
  BY <1>3, <1>6 DEF Amounts
<1> QED
  BY <1>5, <1>6, <1>7 DEF Tallies

\* A fact that was said in the era of the last update is taken out without a trace.
LEMMA UnlearnTallies ==
  ASSUME NEW s, NEW F, NEW f, Tallies(s, F \cup {f}), f \notin F, f.era = s.last
  PROVE  Tallies(Unlearn(s, f.net, f.weight), F)
<1> DEFINE u == f.weight * Whole
           r == Unlearn(s, f.net, f.weight)
           G == F \cup {f}
           e == f.era
<1>1. /\ s \in Stats /\ Together(G) /\ UpTo(G, e) /\ Amounts(s, G, e) /\ f \in Fact /\ e \in 0..MaxEra
      /\ f.net \in Int /\ f.weight \in {1, 2}
  BY FactFields DEF Tallies, Together
<1>2. Together(F) /\ UpTo(F, e)
  BY <1>1, TogetherSub DEF UpTo
<1>3. Baseline!Worth(f, e) = u
  <2>1. e - e = 0 /\ 0 \in 0..MaxEra /\ 0 <= 0
    BY <1>1, Eras
  <2>2. Unit[e - e] = Whole
    BY <2>1, UnitHalves
  <2> QED
    BY <2>2 DEF Baseline!Worth
<1>4. \A part \in Parts : Tot(G, e, part) = Tot(F, e, part) + Baseline!Share(f, e, part)
  BY <1>1, TotalWith DEF Tot
<1>5. /\ Tot(G, e, "sum") = Tot(F, e, "sum") + f.net * u
      /\ Tot(G, e, "weight") = Tot(F, e, "weight") + u
      /\ Tot(G, e, "pos") = Tot(F, e, "pos") + IF f.net > 0 THEN u ELSE 0
      /\ Tot(G, e, "neg") = Tot(F, e, "neg") + IF f.net < 0 THEN u ELSE 0
      /\ Tot(G, e, "events") = Tot(F, e, "events") + 1
  BY <1>3, <1>4, ShareOfPart DEF Parts
<1>6. u \in Nat /\ f.net * u \in Int
  BY <1>1, Eras
<1>7. /\ r \in Stats /\ r.last = s.last
      /\ r.sum = (IF s.weight - u <= 0 THEN 0 ELSE s.sum - f.net * u)
      /\ r.weight = AtLeast0(s.weight - u) /\ r.events = AtLeast0(s.events - 1)
      /\ r.pos = (IF f.net > 0 THEN AtLeast0(s.pos - u) ELSE s.pos)
      /\ r.neg = (IF f.net < 0 THEN AtLeast0(s.neg - u) ELSE s.neg)
  BY <1>1, UnlearnOf
<1>8. /\ Tot(F, e, "sum") \in Int
      /\ Tot(F, e, "weight") \in Nat /\ Tot(F, e, "pos") \in Nat /\ Tot(F, e, "neg") \in Nat
      /\ Tot(F, e, "events") \in Nat
  BY <1>1, <1>2, TotType
<1>9. Tot(F, e, "weight") <= 0 => F = {} /\ Tot(F, e, "sum") = 0
  <2>1. Tot(F, e, "weight") <= 0 => F = {}
    BY <1>1, <1>2, TotalWeighs DEF Tot
  <2> QED
    BY <2>1, TotalNone DEF Tot
<1> DEFINE y == f.net * u
<1>10. y \in Int
  BY <1>6
<1> HIDE DEF u, r, G, y, e
<1>11. Amounts(r, F, e)
  <2>1. r.sum = Tot(F, e, "sum")
    <3>1. s.weight - u = Tot(F, e, "weight") /\ s.sum - y = Tot(F, e, "sum")
      BY <1>1, <1>5, <1>6, <1>8, <1>10 DEF Amounts, y
    <3> QED
      BY <3>1, <1>7, <1>8, <1>9 DEF y
  <2>2. r.weight = Tot(F, e, "weight")
    BY <1>1, <1>5, <1>6, <1>7, <1>8 DEF Amounts, AtLeast0
  <2>3. r.pos = Tot(F, e, "pos")
    BY <1>1, <1>5, <1>6, <1>7, <1>8 DEF Amounts, AtLeast0
  <2>4. r.neg = Tot(F, e, "neg")
    BY <1>1, <1>5, <1>6, <1>7, <1>8 DEF Amounts, AtLeast0
  <2>5. r.events = Tot(F, e, "events")
    BY <1>1, <1>5, <1>7, <1>8 DEF Amounts, AtLeast0
  <2> QED
    BY <2>1, <2>2, <2>3, <2>4, <2>5 DEF Amounts
<1>12. Tallies(r, F)
  BY <1>2, <1>7, <1>11 DEF Tallies, e
<1> QED
  BY <1>12 DEF r

\* An update makes statistics, brought up to date to the fact.
LEMMA UpdateOf ==
  ASSUME NEW s \in Stats, NEW f \in Fact
  PROVE  Update(s, f) \in Stats /\ Update(s, f).last = f.era
<1> DEFINE d == Decay(s, f.era)
           r == Readd(d, f.net, f.weight)
           q == [r EXCEPT !.last = f.era]
<1>1. f.era \in 0..MaxEra /\ f.net \in Int /\ f.weight \in {1, 2}
  BY FactFields
<1>2. d \in Stats
  BY <1>1, DecayOf
<1>3. r \in Stats
  BY <1>1, <1>2, ReaddOf
<1>4. Update(s, f) = q
  BY DEF Update
<1> HIDE DEF d, r
<1>5. q \in Stats /\ q.last = f.era
  BY <1>1, <1>3 DEF Stats
<1> QED
  BY <1>4, <1>5

\* The statistics after each of the facts that are replayed.
Replays(a, s, facts) ==
  /\ a[0] = s /\ \A i \in 1..Len(facts) : a[i] = Update(a[i - 1], facts[i])
  /\ \A i \in 0..Len(facts) : a[i] \in Stats
  /\ Replay(s, facts) = a[Len(facts)]

\* A replay is one update after another.
LEMMA ReplayStages ==
  ASSUME NEW s \in Stats, NEW facts \in Seq(Fact)
  PROVE  \E a : Replays(a, s, facts)
<1> DEFINE n == Len(facts)
           G == [p \in Nat \X Stats |-> IF p[1] \in 1..n THEN Update(p[2], facts[p[1]]) ELSE p[2]]
<1>0. n \in Nat /\ \A i \in 1..n : facts[i] \in Fact
  OBVIOUS
<1>1. PICK f : Recurses(f, s, G)
  <2> HIDE DEF G
  <2> QED
    BY Recursion
<1>2. f[0] = s /\ \A i \in Nat \ {0} : f[i] = G[<<i, f[i - 1]>>]
  <2> HIDE DEF G
  <2> QED
    BY <1>1 DEF Recurses
<1>3. ASSUME NEW i \in Nat, NEW x \in Stats
      PROVE  G[<<i, x>>] = (IF i \in 1..n THEN Update(x, facts[i]) ELSE x) /\ G[<<i, x>>] \in Stats
  <2>1. G[<<i, x>>] = IF i \in 1..n THEN Update(x, facts[i]) ELSE x
    OBVIOUS
  <2>2. i \in 1..n => Update(x, facts[i]) \in Stats
    BY <1>0, UpdateOf
  <2> HIDE DEF G
  <2> QED
    BY <2>1, <2>2
<1> HIDE DEF G
<1> DEFINE Bad == {i \in Nat : f[i] \notin Stats}
<1>4. ASSUME Bad # {} PROVE FALSE
  <2>1. PICK i \in Bad : \A j \in Bad : i <= j
    <3>1. Bad \in SUBSET Nat
      OBVIOUS
    <3> HIDE DEF Bad
    <3> QED
      BY <1>4, <3>1, LeastNumber
  <2>2. i \in Nat \ {0} /\ i - 1 \in Nat /\ ~(i <= i - 1)
    BY <1>2
  <2>3. i - 1 \notin Bad
    <3> HIDE DEF Bad
    <3> QED
      BY <2>1, <2>2
  <2>4. f[i - 1] \in Stats
    BY <2>2, <2>3
  <2>5. f[i] \in Stats
    BY <1>2, <1>3, <2>2, <2>4
  <2> QED
    BY <2>1, <2>5
<1>5. \A i \in Nat : f[i] \in Stats
  BY <1>4
<1>6. ASSUME NEW i \in 1..n PROVE f[i] = Update(f[i - 1], facts[i])
  <2>1. i \in Nat \ {0} /\ i - 1 \in Nat
    BY <1>0
  <2> QED
    BY <2>1, <1>2, <1>3, <1>5
<1> DEFINE Def(g) == [i \in 0..n |-> IF i = 0 THEN s ELSE Update(g[i - 1], facts[i])]
           F == [i \in 0..n |-> f[i]]
           up == CHOOSE g : g = Def(g)
<1>7. F = Def(F)
  <2>1. ASSUME NEW i \in 0..n PROVE F[i] = IF i = 0 THEN s ELSE Update(F[i - 1], facts[i])
    <3>1. CASE i = 0
      BY <3>1, <1>2, <1>0
    <3>2. CASE i # 0
      <4>1. i \in 1..n /\ i - 1 \in 0..n
        BY <3>2, <1>0
      <4> QED
        BY <4>1, <3>2, <1>6
    <3> QED
      BY <3>1, <3>2
  <2> QED
    BY <2>1
<1>8. up = Def(up)
  <2> HIDE DEF F, Def
  <2> QED
    BY <1>7
<1>9. Replay(s, facts) = up[n]
  BY DEF Replay
<1> HIDE DEF up
<1>10. \A i \in 0..n : up[i] = IF i = 0 THEN s ELSE Update(up[i - 1], facts[i])
  BY <1>8
<1> HIDE DEF Def, F, n
<1>11. up[0] = s /\ \A i \in 1..n : up[i] = Update(up[i - 1], facts[i])
  BY <1>0, <1>10
<1> DEFINE Worse == {i \in Nat : i <= n /\ up[i] \notin Stats}
<1>12. ASSUME Worse # {} PROVE FALSE
  <2>1. PICK i \in Worse : \A j \in Worse : i <= j
    <3>1. Worse \in SUBSET Nat
      OBVIOUS
    <3> HIDE DEF Worse
    <3> QED
      BY <1>12, <3>1, LeastNumber
  <2>2. i \in 1..n /\ i - 1 \in Nat /\ ~(i <= i - 1) /\ i - 1 <= n
    BY <1>0, <1>11
  <2>3. i - 1 \notin Worse
    <3> HIDE DEF Worse
    <3> QED
      BY <2>1, <2>2
  <2>4. up[i - 1] \in Stats
    BY <2>2, <2>3
  <2>5. up[i] \in Stats
    BY <1>0, <1>11, <2>2, <2>4, UpdateOf
  <2> QED
    BY <2>1, <2>5
<1>13. \A i \in 0..n : up[i] \in Stats
  BY <1>0, <1>12
<1>14. Replays(up, s, facts)
  BY <1>9, <1>11, <1>13 DEF Replays, n
<1> QED
  BY <1>14

\* A replay makes statistics.
LEMMA ReplayType ==
  ASSUME NEW s \in Stats, NEW facts \in Seq(Fact)
  PROVE  Replay(s, facts) \in Stats
<1>1. PICK a : Replays(a, s, facts)
  BY ReplayStages
<1>2. Len(facts) \in 0..Len(facts)
  OBVIOUS
<1> QED
  BY <1>1, <1>2 DEF Replays

\* The replayed facts are told as if they had been learnt one by one.
LEMMA ReplayTallies ==
  ASSUME NEW s, NEW F, Tallies(s, F), NEW facts \in Seq(Fact), Apart(facts), InEras(facts),
         Together(F \cup ToSet(facts)), \A f \in F, g \in ToSet(facts) : f.at # g.at,
         \A g \in ToSet(facts) : s.last <= g.era,
         NEW e \in Nat, s.last <= e, UpTo(ToSet(facts), e)
  PROVE  Tallies(Replay(s, facts), F \cup ToSet(facts)) /\ Replay(s, facts).last <= e
<1> DEFINE n == Len(facts)
           T(i) == {facts[j] : j \in 1..i}
<1>0. n \in Nat /\ s \in Stats /\ DOMAIN facts = 1..n /\ \A i \in 1..n : facts[i] \in Fact /\ facts[i] \in ToSet(facts)
  BY ToSetOf DEF Tallies
<1>1. PICK a : Replays(a, s, facts)
  BY <1>0, ReplayStages
<1>2. a[0] = s /\ (\A i \in 1..n : a[i] = Update(a[i - 1], facts[i])) /\ Replay(s, facts) = a[n]
  BY <1>1 DEF Replays
<1>3. T(n) = ToSet(facts)
  BY <1>0 DEF ToSet
<1>4. T(0) = {}
  OBVIOUS
<1>5. \A i \in 1..n : T(i) = T(i - 1) \cup {facts[i]}
  BY <1>0
<1>6. \A i \in 0..n : T(i) \subseteq ToSet(facts)
  BY <1>0
<1>7. ASSUME NEW i \in 1..n PROVE \A f \in F \cup T(i - 1) : f.at # facts[i].at
  <2>1. ASSUME NEW f \in T(i - 1) PROVE f.at # facts[i].at
    <3>1. PICK j \in 1..i - 1 : f = facts[j]
      OBVIOUS
    <3>2. j \in 1..n /\ j # i
      BY <1>0, <3>1
    <3> QED
      BY <3>1, <3>2, <1>0 DEF Apart
  <2> QED
    BY <2>1, <1>0
<1> HIDE DEF T, n
<1> DEFINE Good(i) == /\ Tallies(a[i], F \cup T(i)) /\ a[i].last <= e
                      /\ i # n => a[i].last <= facts[i + 1].era
           Bad == {i \in Nat : i <= n /\ ~Good(i)}
<1>8. Good(0)
  <2>1. F \cup T(0) = F /\ 0 + 1 = 1
    BY <1>4
  <2>2. 0 # n => 1 \in 1..n
    BY <1>0
  <2>3. 0 # n => facts[0 + 1] \in ToSet(facts)
    BY <1>0, <2>1, <2>2
  <2>4. 0 # n => a[0].last <= facts[0 + 1].era
    BY <1>2, <2>3
  <2> QED
    BY <1>2, <2>1, <2>4
<1>9. ASSUME NEW i \in 1..n, Good(i - 1) PROVE Good(i)
  <2>1. /\ Tallies(a[i - 1], F \cup T(i - 1)) /\ (i - 1 # n => a[i - 1].last <= facts[(i - 1) + 1].era)
        /\ (i - 1) + 1 = i /\ i - 1 # n /\ i \in 0..n
    BY <1>9, <1>0
  <2>2. facts[i] \notin F \cup T(i - 1)
    BY <1>7
  <2>3. (F \cup T(i - 1)) \cup {facts[i]} = F \cup T(i)
    BY <1>5
  <2>4. Together(F \cup T(i))
    <3>1. F \cup T(i) \subseteq F \cup ToSet(facts)
      BY <1>6, <2>1
    <3> QED
      BY <3>1, TogetherSub
  <2> DEFINE x == a[i - 1]
             H == F \cup T(i - 1)
             f == facts[i]
  <2>5. Tallies(Update(a[i - 1], facts[i]), F \cup T(i)) /\ Update(a[i - 1], facts[i]).last = facts[i].era
    <3>1. Tallies(x, H) /\ x.last <= f.era
      BY <2>1
    <3>2. f \notin H /\ Together(H \cup {f}) /\ H \cup {f} = F \cup T(i)
      BY <2>2, <2>3, <2>4
    <3> HIDE DEF x, H, f
    <3>3. Tallies(Update(x, f), H \cup {f}) /\ Update(x, f).last = f.era
      BY <3>1, <3>2, UpdateTallies
    <3> QED
      BY <3>2, <3>3 DEF x, f
  <2>6. facts[i].era <= e
    BY <1>0 DEF UpTo
  <2>7. i # n => facts[i].era <= facts[i + 1].era
    <3>1. i # n => i \in DOMAIN facts /\ i + 1 \in DOMAIN facts /\ i <= i + 1
      BY <1>0
    <3> QED
      BY <3>1 DEF InEras
  <2> QED
    BY <1>2, <2>5, <2>6, <2>7
<1>10. ASSUME Bad # {} PROVE FALSE
  <2> HIDE DEF Good
  <2>1. PICK i \in Bad : \A j \in Bad : i <= j
    <3>1. Bad \in SUBSET Nat
      OBVIOUS
    <3> HIDE DEF Bad
    <3> QED
      BY <1>10, <3>1, LeastNumber
  <2>2. i \in 1..n /\ i - 1 \in Nat /\ ~(i <= i - 1) /\ i - 1 <= n
    BY <1>0, <1>8
  <2>3. i - 1 \notin Bad
    <3> HIDE DEF Bad
    <3> QED
      BY <2>1, <2>2
  <2>4. Good(i - 1)
    BY <2>2, <2>3
  <2> QED
    BY <1>9, <2>1, <2>2, <2>4
<1>11. Good(n)
  <2> HIDE DEF Good
  <2> QED
    BY <1>0, <1>10
<1> QED
  BY <1>2, <1>3, <1>11

Typed(l) == l \in Ledgers /\ Len(l.entries) <= MaxEntries
Distinct(l) == Apart(l.entries)
Ordered(l) == InEras(l.entries)

\* What is in a ledger about one bucket, and a ledger whose statistics are those of its facts.
FactsOf(l, b) == {f \in Facts(l) : f.bucket = b}
Backed(l, e) == \A b \in Buckets : Tallies(l.buckets[b], FactsOf(l, b)) /\ l.buckets[b].last <= e

\* The limits are numbers, and those of the rings not 0.
LEMMA Limits == MaxEntries \in Nat \ {0} /\ MaxRuns \in Nat \ {0} /\ MaxEra \in Nat /\ MaxFacts \in Nat
BY LearningAssumption

\* An entry is a fact.
LEMMA EntryFact ==
  ASSUME NEW at \in Nat, NEW e \in 0..MaxEra, NEW net \in Int, NEW ctx
  PROVE  Entry(at, e, net, ctx) \in Fact /\ Entry(at, e, net, ctx).at = at /\ Entry(at, e, net, ctx).era = e
<1> DEFINE size == Least(Abs(net), 2 * BoundUnits)
           as == Attribute(ctx, net > 0)
<1>1. size \in Int
  BY LearningAssumption DEF Least, Abs
<1>2. as.bucket \in Buckets /\ as.weight \in {1, 2}
  BY DEF Attribute, Buckets
<1>3. Entry(at, e, net, ctx) =
        [at |-> at, era |-> e, net |-> IF net > 0 THEN size ELSE -size, bucket |-> as.bucket, weight |-> as.weight]
  BY DEF Entry
<1> DEFINE x == IF net > 0 THEN size ELSE -size
<1>4. x \in Int
  BY <1>1
<1> HIDE DEF x, size, as
<1>5. Entry(at, e, net, ctx) = [at |-> at, era |-> e, net |-> x, bucket |-> as.bucket, weight |-> as.weight]
  BY <1>3 DEF x
<1>6. [at |-> at, era |-> e, net |-> x, bucket |-> as.bucket, weight |-> as.weight] \in Fact
  BY <1>2, <1>4 DEF Fact
<1> QED
  BY <1>5, <1>6

\* The parts of a ledger.
LEMMA LedgerParts ==
  ASSUME NEW l \in Ledgers
  PROVE  /\ l.entries \in Seq(Fact) /\ l.buckets \in [Buckets -> Stats]
         /\ Facts(l) \subseteq Fact
         /\ \A f : f \in Facts(l) <=> \E i \in 1..Len(l.entries) : f = l.entries[i]
<1>1. l.entries \in Seq(Fact) /\ l.buckets \in [Buckets -> Stats]
  BY DEF Ledgers
<1> QED
  BY <1>1, ToSetOf DEF Facts

\* A ledger made of entries and statistics.
LEMMA LedgerMade ==
  ASSUME NEW s \in Seq(Fact), NEW B \in [Buckets -> Stats]
  PROVE  /\ [entries |-> s, buckets |-> B] \in Ledgers
         /\ [entries |-> s, buckets |-> B].entries = s /\ [entries |-> s, buckets |-> B].buckets = B
BY DEF Ledgers

\* The times of what a ledger says of some buckets.
LEMMA AtsOfLedger ==
  ASSUME NEW l, NEW bs
  PROVE  \A a : a \in Ats(l, bs) <=> \E f \in Facts(l) : f.bucket \in bs /\ f.at = a
BY DEF Ats

\* The times of all it says.
LEMMA AtsAll ==
  ASSUME NEW l \in Ledgers
  PROVE  \A a : a \in Ats(l, Buckets) <=> \E f \in Facts(l) : f.at = a
<1>1. \A f \in Facts(l) : f.bucket \in Buckets
  BY LedgerParts, FactFields
<1> QED
  BY <1>1, AtsOfLedger

\* An empty ledger is all that a ledger should be.
LEMMA EmptyTyped ==
  /\ Typed(EmptyLedger) /\ Facts(EmptyLedger) = {} /\ Distinct(EmptyLedger) /\ Ordered(EmptyLedger)
  /\ \A e \in Nat : Backed(EmptyLedger, e)
<1>1. NoStats \in Stats /\ NoStats.last = 0
  BY Eras DEF NoStats, Stats
<1>2. EmptyLedger.entries = <<>> /\ EmptyLedger.buckets = [b \in Buckets |-> NoStats]
  BY DEF EmptyLedger
<1>3. Facts(EmptyLedger) = {}
  BY <1>2 DEF Facts, ToSet
<1>4. EmptyLedger \in Ledgers
  <2>1. [b \in Buckets |-> NoStats] \in [Buckets -> Stats] /\ <<>> \in Seq(Fact)
    BY <1>1
  <2> QED
    BY <2>1, LedgerMade DEF EmptyLedger
<1>5. Typed(EmptyLedger)
  BY <1>2, <1>4, Limits DEF Typed
<1>6. ASSUME NEW e \in Nat PROVE Backed(EmptyLedger, e)
  <2>1. \A b \in Buckets : FactsOf(EmptyLedger, b) = {}
    BY <1>3 DEF FactsOf
  <2>2. \A b \in Buckets : EmptyLedger.buckets[b] = NoStats
    BY <1>2
  <2>3. \A b \in Buckets : Tallies(EmptyLedger.buckets[b], FactsOf(EmptyLedger, b))
    BY <2>1, <2>2, NoStatsTally
  <2>4. \A b \in Buckets : EmptyLedger.buckets[b].last <= e
    BY <1>1, <2>2
  <2> QED
    BY <2>3, <2>4 DEF Backed
<1> QED
  BY <1>2, <1>3, <1>5, <1>6 DEF Distinct, Apart, Ordered, InEras

-----------------------------------------------------------------------------
(***************************************************************************)
(* Add.                                                                    *)
(***************************************************************************)
\* What Add makes of the entries.
LEMMA AddLedger ==
  ASSUME NEW l, Typed(l), NEW f \in Fact
  PROVE  /\ Typed(Add(l, f))
         /\ Facts(Add(l, f)) \subseteq Facts(l) \cup {f}
         /\ Distinct(l) /\ (\A g \in Facts(l) : g.at # f.at) => Distinct(Add(l, f))
         /\ Ordered(l) /\ (\A g \in Facts(l) : g.era <= f.era) => Ordered(Add(l, f))
         /\ ~Full(l) => Add(l, f).entries = Append(l.entries, f) /\ Facts(Add(l, f)) = Facts(l) \cup {f}
         /\ Add(l, f).buckets = [l.buckets EXCEPT ![f.bucket] = Update(@, f)]
<1> DEFINE s == l.entries
           t == Append(s, f)
           r == Newest(t, MaxEntries)
           B == [l.buckets EXCEPT ![f.bucket] = Update(@, f)]
<1>1. s \in Seq(Fact) /\ l.buckets \in [Buckets -> Stats] /\ MaxEntries \in Nat /\ f.bucket \in Buckets
  BY LedgerParts, Limits, FactFields DEF Typed
<1>2. B \in [Buckets -> Stats]
  BY <1>1, UpdateOf
<1>3. Add(l, f) = [entries |-> r, buckets |-> B]
  BY DEF Add
<1>4. /\ t \in Seq(Fact) /\ Len(t) = Len(s) + 1 /\ ToSet(t) = ToSet(s) \cup {f} /\ Len(s) \in Nat
  BY <1>1, AppendLast
<1>5. /\ Apart(s) /\ (\A g \in ToSet(s) : g.at # f.at) => Apart(t)
      /\ InEras(s) /\ (\A g \in ToSet(s) : g.era <= f.era) => InEras(t)
  BY <1>1, ApartAppend
<1> HIDE DEF t
<1>6. /\ r \in Seq(Fact) /\ Len(r) <= MaxEntries /\ ToSet(r) \subseteq ToSet(t)
      /\ Len(t) <= MaxEntries => r = t
      /\ Apart(t) => Apart(r)
      /\ InEras(t) => InEras(r)
  BY <1>1, <1>4, NewestPart, ApartNewest
<1>7. ~Full(l) => Len(t) <= MaxEntries
  BY <1>1, <1>4 DEF Full
<1> HIDE DEF r, B, s
<1>8. Add(l, f) \in Ledgers /\ Add(l, f).entries = r /\ Add(l, f).buckets = B
  BY <1>2, <1>3, <1>6, LedgerMade
<1>9. Facts(l) = ToSet(s) /\ Facts(Add(l, f)) = ToSet(r)
  BY <1>8 DEF Facts, s
<1> QED
  BY <1>4, <1>5, <1>6, <1>7, <1>8, <1>9 DEF Typed, Distinct, Ordered, s, t, B

\* Facts that can be held together with those of a ledger.
LEMMA AddBacked ==
  ASSUME NEW l, Typed(l), NEW e \in 0..MaxEra, Backed(l, e), ~Full(l), Distinct(l),
         NEW f \in Fact, f.era = e, f.at \in 1..MaxFacts, \A g \in Facts(l) : g.at # f.at
  PROVE  Backed(Add(l, f), e)
<1>1. /\ Facts(Add(l, f)) = Facts(l) \cup {f}
      /\ Add(l, f).buckets = [l.buckets EXCEPT ![f.bucket] = Update(@, f)]
      /\ l.buckets \in [Buckets -> Stats] /\ f.bucket \in Buckets
  BY AddLedger, LedgerParts, FactFields DEF Typed
<1> DEFINE m == Add(l, f)
<1>2. SUFFICES ASSUME NEW b \in Buckets
               PROVE  Tallies(m.buckets[b], FactsOf(m, b)) /\ m.buckets[b].last <= e
  BY DEF Backed
<1>3. Tallies(l.buckets[b], FactsOf(l, b)) /\ l.buckets[b].last <= e
  BY DEF Backed
<1>4. CASE b = f.bucket
  <2>1. FactsOf(m, b) = FactsOf(l, b) \cup {f}
    BY <1>1, <1>4 DEF FactsOf
  <2>2. m.buckets[b] = Update(l.buckets[b], f)
    BY <1>1, <1>4
  <2>3. f \notin FactsOf(l, b)
    BY DEF FactsOf
  <2>4. Together(FactsOf(l, b) \cup {f})
    <3>1. Together(FactsOf(l, b)) /\ \A g \in FactsOf(l, b) : g.at # f.at
      BY <1>3 DEF Tallies, FactsOf
    <3> QED
      BY <3>1 DEF Together
  <2>5. Tallies(Update(l.buckets[b], f), FactsOf(l, b) \cup {f}) /\ Update(l.buckets[b], f).last = e
    BY <1>3, <2>3, <2>4, UpdateTallies
  <2> QED
    BY <2>1, <2>2, <2>5, Eras
<1>5. CASE b # f.bucket
  <2>1. FactsOf(m, b) = FactsOf(l, b)
    BY <1>1, <1>5 DEF FactsOf
  <2>2. m.buckets[b] = l.buckets[b]
    BY <1>1, <1>5
  <2> QED
    BY <1>3, <2>1, <2>2
<1> QED
  BY <1>4, <1>5

(***************************************************************************)
(* DropLast and AmendLast.                                                 *)
(***************************************************************************)
\* What DropLast makes of the entries.
LEMMA DropLedger ==
  ASSUME NEW l, Typed(l), l.entries # <<>>
  PROVE  /\ Typed(DropLast(l)) /\ DropLast(l).entries = Front(l.entries)
         /\ Len(DropLast(l).entries) = Len(l.entries) - 1
         /\ Last(l.entries) \in Fact
         /\ Facts(l) = Facts(DropLast(l)) \cup {Last(l.entries)}
         /\ Distinct(l) => Distinct(DropLast(l)) /\ \A g \in Facts(DropLast(l)) : g.at # Last(l.entries).at
         /\ Ordered(l) => Ordered(DropLast(l)) /\ \A g \in Facts(DropLast(l)) : g.era <= Last(l.entries).era
         /\ DropLast(l).buckets = [l.buckets EXCEPT ![Last(l.entries).bucket] =
                                     Unlearn(@, Last(l.entries).net, Last(l.entries).weight)]
<1> DEFINE s == l.entries
           old == Last(s)
           r == Front(s)
           B == [l.buckets EXCEPT ![old.bucket] = Unlearn(@, old.net, old.weight)]
<1>1. s \in Seq(Fact) /\ l.buckets \in [Buckets -> Stats] /\ MaxEntries \in Nat /\ Len(s) <= MaxEntries /\ s # <<>>
  BY LedgerParts, Limits DEF Typed
<1>2. /\ r \in Seq(Fact) /\ Len(r) = Len(s) - 1 /\ old \in Fact /\ ToSet(s) = ToSet(r) \cup {old} /\ Len(s) \in Nat \ {0}
  BY <1>1, FrontLast
<1>3. old.bucket \in Buckets /\ old.net \in Int /\ old.weight \in {1, 2}
  BY <1>2, FactFields
<1>4. B \in [Buckets -> Stats]
  BY <1>1, <1>3, UnlearnOf
<1>5. DropLast(l) = [entries |-> r, buckets |-> B]
  BY DEF DropLast
<1>6. /\ Apart(s) => Apart(r) /\ \A g \in ToSet(r) : g.at # old.at
      /\ InEras(s) => InEras(r) /\ \A g \in ToSet(r) : g.era <= old.era
  BY <1>1, ApartFront
<1> HIDE DEF r, B, s, old
<1>7. DropLast(l) \in Ledgers /\ DropLast(l).entries = r /\ DropLast(l).buckets = B
  BY <1>2, <1>4, <1>5, LedgerMade
<1>8. Facts(l) = ToSet(s) /\ Facts(DropLast(l)) = ToSet(r)
  BY <1>7 DEF Facts, s
<1> QED
  BY <1>1, <1>2, <1>6, <1>7, <1>8 DEF Typed, Distinct, Ordered, s, r, old, B

\* What has just been said can be taken back: the statistics it was the last to touch know nothing of it.
LEMMA DropBacked ==
  ASSUME NEW l, Typed(l), l.entries # <<>>, Distinct(l),
         NEW e \in 0..MaxEra, Backed(l, e), Last(l.entries).era = e
  PROVE  /\ Backed(DropLast(l), e)
         /\ DropLast(l).buckets[Last(l.entries).bucket].last = e
<1> DEFINE m == DropLast(l)
           old == Last(l.entries)
<1>1. /\ Facts(l) = Facts(m) \cup {old} /\ old \in Fact /\ (\A g \in Facts(m) : g.at # old.at)
      /\ m.buckets = [l.buckets EXCEPT ![old.bucket] = Unlearn(@, old.net, old.weight)]
      /\ l.buckets \in [Buckets -> Stats] /\ old.bucket \in Buckets /\ old.net \in Int /\ old.weight \in {1, 2}
  BY DropLedger, LedgerParts, FactFields DEF Typed
<1> HIDE DEF m, old
<1>2. \A b \in Buckets : Tallies(l.buckets[b], FactsOf(l, b)) /\ l.buckets[b].last <= e
  BY DEF Backed
<1>3. FactsOf(l, old.bucket) = FactsOf(m, old.bucket) \cup {old} /\ old \notin FactsOf(m, old.bucket)
  BY <1>1 DEF FactsOf
<1>4. l.buckets[old.bucket].last = e
  <2>1. old.era <= l.buckets[old.bucket].last /\ l.buckets[old.bucket].last \in Nat
    BY <1>1, <1>2, <1>3, StatsFields DEF Tallies, UpTo
  <2> QED
    BY <1>1, <1>2, <2>1, Eras DEF old
<1>5. Tallies(Unlearn(l.buckets[old.bucket], old.net, old.weight), FactsOf(m, old.bucket))
  <2>1. old.era = l.buckets[old.bucket].last
    BY <1>4 DEF old
  <2> DEFINE x == l.buckets[old.bucket]
             H == FactsOf(m, old.bucket)
  <2>2. Tallies(x, H \cup {old})
    BY <1>1, <1>2, <1>3
  <2> HIDE DEF x, H
  <2>3. Tallies(Unlearn(x, old.net, old.weight), H)
    BY <1>3, <2>1, <2>2, UnlearnTallies DEF x, H
  <2> QED
    BY <2>3 DEF x, H
<1>6. m.buckets[old.bucket] = Unlearn(l.buckets[old.bucket], old.net, old.weight) /\ m.buckets[old.bucket].last = e
  <2>1. l.buckets[old.bucket] \in Stats
    BY <1>1
  <2>2. m.buckets[old.bucket] = Unlearn(l.buckets[old.bucket], old.net, old.weight)
    BY <1>1
  <2>3. Unlearn(l.buckets[old.bucket], old.net, old.weight).last = l.buckets[old.bucket].last
    BY <1>1, <2>1, UnlearnOf
  <2> QED
    BY <1>4, <2>2, <2>3
<1>7. ASSUME NEW b \in Buckets, b # old.bucket PROVE m.buckets[b] = l.buckets[b] /\ FactsOf(m, b) = FactsOf(l, b)
  BY <1>1, <1>7 DEF FactsOf
<1>8. Backed(m, e)
  BY <1>2, <1>5, <1>6, <1>7, Eras DEF Backed
<1> QED
  BY <1>6, <1>8 DEF m, old

\* What AmendLast makes of the entries: the same as one entry in the place of another.
LEMMA AmendLedger ==
  ASSUME NEW l, Typed(l), l.entries # <<>>, NEW f \in Fact
  PROVE  /\ Typed(AmendLast(l, f)) /\ AmendLast(l, f).entries = Append(Front(l.entries), f)
         /\ AmendLast(l, f).entries # <<>> /\ Last(AmendLast(l, f).entries) = f
         /\ Front(AmendLast(l, f).entries) = Front(l.entries)
         /\ Facts(AmendLast(l, f)) = Facts(DropLast(l)) \cup {f}
         /\ Distinct(l) /\ f.at = Last(l.entries).at => Distinct(AmendLast(l, f))
         /\ Ordered(l) /\ (\A g \in Facts(l) : g.era <= f.era) => Ordered(AmendLast(l, f))
         /\ AmendLast(l, f).buckets = [DropLast(l).buckets EXCEPT ![f.bucket] =
              IF f.bucket = Last(l.entries).bucket THEN Readd(@, f.net, f.weight) ELSE Update(@, f)]
<1> DEFINE d == DropLast(l)
           r == Append(d.entries, f)
           B == [d.buckets EXCEPT ![f.bucket] =
                   IF f.bucket = Last(l.entries).bucket THEN Readd(@, f.net, f.weight) ELSE Update(@, f)]
<1>1. /\ Typed(d) /\ d.entries = Front(l.entries) /\ Len(d.entries) = Len(l.entries) - 1
      /\ Facts(l) = Facts(d) \cup {Last(l.entries)}
      /\ Distinct(l) => Distinct(d) /\ \A g \in Facts(d) : g.at # Last(l.entries).at
      /\ Ordered(l) => Ordered(d)
  BY DropLedger
<1>2. /\ d.entries \in Seq(Fact) /\ d.buckets \in [Buckets -> Stats] /\ MaxEntries \in Nat /\ Len(l.entries) \in Nat
      /\ Len(l.entries) <= MaxEntries /\ f.bucket \in Buckets /\ f.net \in Int /\ f.weight \in {1, 2}
  BY <1>1, LedgerParts, Limits, FactFields DEF Typed
<1>3. AmendLast(l, f) = [entries |-> r, buckets |-> B]
  BY DEF AmendLast
<1> HIDE DEF d
<1>4. B \in [Buckets -> Stats]
  BY <1>2, ReaddOf, UpdateOf
<1>5. /\ r \in Seq(Fact) /\ Len(r) = Len(d.entries) + 1 /\ r # <<>> /\ ToSet(r) = ToSet(d.entries) \cup {f}
      /\ Last(r) = f /\ Front(r) = d.entries
  BY <1>2, AppendLast
<1>6. /\ Apart(d.entries) /\ (\A g \in ToSet(d.entries) : g.at # f.at) => Apart(r)
      /\ InEras(d.entries) /\ (\A g \in ToSet(d.entries) : g.era <= f.era) => InEras(r)
  BY <1>2, ApartAppend
<1> HIDE DEF r, B
<1>7. AmendLast(l, f) \in Ledgers /\ AmendLast(l, f).entries = r /\ AmendLast(l, f).buckets = B
  BY <1>3, <1>4, <1>5, LedgerMade
<1>8. Facts(d) = ToSet(d.entries) /\ Facts(AmendLast(l, f)) = ToSet(r)
  BY <1>7 DEF Facts
<1>9. Len(r) <= MaxEntries
  BY <1>1, <1>2, <1>5
<1>10. Typed(AmendLast(l, f))
  BY <1>7, <1>9 DEF Typed
<1>11. Distinct(l) /\ f.at = Last(l.entries).at => Distinct(AmendLast(l, f))
  BY <1>1, <1>6, <1>7, <1>8 DEF Distinct
<1>12. Ordered(l) /\ (\A g \in Facts(l) : g.era <= f.era) => Ordered(AmendLast(l, f))
  BY <1>1, <1>6, <1>7, <1>8 DEF Ordered
<1> QED
  BY <1>1, <1>5, <1>7, <1>8, <1>10, <1>11, <1>12 DEF r, B, d

\* Amended statistics are those of the amended entries.
LEMMA AmendBacked ==
  ASSUME NEW l, Typed(l), l.entries # <<>>, Distinct(l),
         NEW e \in 0..MaxEra, Backed(l, e), Last(l.entries).era = e,
         NEW f \in Fact, f.era = e, f.at \in 1..MaxFacts, f.at = Last(l.entries).at
  PROVE  Backed(AmendLast(l, f), e)
<1> DEFINE m == AmendLast(l, f)
           d == DropLast(l)
           old == Last(l.entries)
<1>1. /\ Backed(d, e) /\ d.buckets[old.bucket].last = e
      /\ Typed(d) /\ Facts(m) = Facts(d) \cup {f} /\ (\A g \in Facts(d) : g.at # f.at)
      /\ m.buckets = [d.buckets EXCEPT ![f.bucket] =
                        IF f.bucket = old.bucket THEN Readd(@, f.net, f.weight) ELSE Update(@, f)]
  <2>1. Backed(d, e) /\ d.buckets[old.bucket].last = e
    BY DropBacked
  <2>2. Typed(d) /\ \A g \in Facts(d) : g.at # old.at
    BY DropLedger
  <2>3. /\ Facts(m) = Facts(d) \cup {f}
        /\ m.buckets = [d.buckets EXCEPT ![f.bucket] =
                          IF f.bucket = old.bucket THEN Readd(@, f.net, f.weight) ELSE Update(@, f)]
    BY AmendLedger
  <2> QED
    BY <2>1, <2>2, <2>3
<1> HIDE DEF m, d, old
<1>2. d.buckets \in [Buckets -> Stats] /\ f.bucket \in Buckets /\ f.net \in Int /\ f.weight \in {1, 2}
  BY <1>1, LedgerParts, FactFields DEF Typed
<1>3. \A b \in Buckets : Tallies(d.buckets[b], FactsOf(d, b)) /\ d.buckets[b].last <= e
  BY <1>1 DEF Backed
<1> DEFINE x == d.buckets[f.bucket]
           H == FactsOf(d, f.bucket)
<1>4. Tallies(x, H) /\ x.last <= f.era /\ f \notin H /\ Together(H \cup {f}) /\ x \in Stats
  <2>1. Together(H) /\ \A g \in H : g.at # f.at
    BY <1>1, <1>2, <1>3 DEF Tallies, FactsOf
  <2> QED
    BY <1>2, <1>3, <2>1 DEF Together
<1>5. f.bucket = old.bucket => x.last = f.era
  BY <1>1
<1>6. FactsOf(m, f.bucket) = H \cup {f}
  BY <1>1 DEF FactsOf
<1>7. m.buckets[f.bucket] = IF f.bucket = old.bucket THEN Readd(x, f.net, f.weight) ELSE Update(x, f)
  BY <1>1, <1>2
<1> HIDE DEF x, H
<1>8. Tallies(m.buckets[f.bucket], FactsOf(m, f.bucket)) /\ m.buckets[f.bucket].last = e
  <2>1. CASE f.bucket = old.bucket
    <3>1. Tallies(Readd(x, f.net, f.weight), H \cup {f})
      BY <1>4, <1>5, <2>1, ReaddTallies
    <3>2. Readd(x, f.net, f.weight).last = e
      BY <1>2, <1>4, <1>5, <2>1, ReaddOf
    <3> QED
      BY <1>6, <1>7, <2>1, <3>1, <3>2
  <2>2. CASE f.bucket # old.bucket
    <3>1. Tallies(Update(x, f), H \cup {f}) /\ Update(x, f).last = f.era
      BY <1>4, UpdateTallies
    <3> QED
      BY <1>6, <1>7, <2>2, <3>1
  <2> QED
    BY <2>1, <2>2
<1>9. ASSUME NEW b \in Buckets, b # f.bucket PROVE m.buckets[b] = d.buckets[b] /\ FactsOf(m, b) = FactsOf(d, b)
  BY <1>1, <1>2, <1>9 DEF FactsOf
<1>10. Backed(m, e)
  BY <1>3, <1>8, <1>9, Eras DEF Backed
<1> QED
  BY <1>10 DEF m

(***************************************************************************)
(* ResetBuckets and MergeLedger.                                           *)
(***************************************************************************)
\* A reset takes whole facts, those of its buckets.
LEMMA ResetLedger ==
  ASSUME NEW l, Typed(l), NEW bs \in SUBSET Buckets
  PROVE  /\ Typed(ResetBuckets(l, bs))
         /\ Facts(ResetBuckets(l, bs)) = {f \in Facts(l) : f.bucket \notin bs}
         /\ Distinct(l) => Distinct(ResetBuckets(l, bs))
         /\ Ordered(l) => Ordered(ResetBuckets(l, bs))
         /\ ResetBuckets(l, bs).buckets = [b \in Buckets |-> IF b \in bs THEN NoStats ELSE l.buckets[b]]
<1> DEFINE s == l.entries
           r == Of(s, Buckets \ bs)
           B == [b \in Buckets |-> IF b \in bs THEN NoStats ELSE l.buckets[b]]
<1>1. s \in Seq(Fact) /\ l.buckets \in [Buckets -> Stats] /\ MaxEntries \in Nat /\ Len(s) <= MaxEntries
      /\ ToSet(s) \subseteq Fact /\ Len(s) \in Nat
  BY LedgerParts, Limits, ToSetOf DEF Typed
<1>2. NoStats \in Stats
  BY Eras DEF NoStats, Stats
<1>3. B \in [Buckets -> Stats]
  BY <1>1, <1>2
<1>4. ResetBuckets(l, bs) = [entries |-> r, buckets |-> B]
  BY DEF ResetBuckets
<1>5. /\ r \in Seq(Fact) /\ Len(r) <= Len(s) /\ ToSet(r) = {f \in ToSet(s) : f.bucket \in Buckets \ bs}
      /\ Apart(s) => Apart(r)
      /\ InEras(s) => InEras(r)
  BY <1>1, OfEntries
<1>6. \A f \in ToSet(s) : f.bucket \in Buckets
  BY <1>1, FactFields
<1> HIDE DEF r, B, s
<1>7. /\ ResetBuckets(l, bs) \in Ledgers /\ ResetBuckets(l, bs).entries = r /\ ResetBuckets(l, bs).buckets = B
  BY <1>3, <1>4, <1>5, LedgerMade
<1>8. Facts(l) = ToSet(s) /\ Facts(ResetBuckets(l, bs)) = ToSet(r)
  BY <1>7 DEF Facts, s
<1>9. Len(r) \in Nat
  BY <1>5
<1>10. Typed(ResetBuckets(l, bs))
  BY <1>1, <1>5, <1>7, <1>9 DEF Typed
<1>11. ToSet(r) = {f \in ToSet(s) : f.bucket \notin bs}
  BY <1>5, <1>6
<1> QED
  BY <1>5, <1>7, <1>8, <1>10, <1>11 DEF Distinct, Ordered, s, B

\* What it leaves is backed as before.
LEMMA ResetBacked ==
  ASSUME NEW l, Typed(l), NEW bs \in SUBSET Buckets, NEW e \in Nat, Backed(l, e)
  PROVE  Backed(ResetBuckets(l, bs), e)
<1> DEFINE m == ResetBuckets(l, bs)
<1>1. /\ Facts(m) = {f \in Facts(l) : f.bucket \notin bs}
      /\ m.buckets = [b \in Buckets |-> IF b \in bs THEN NoStats ELSE l.buckets[b]]
  BY ResetLedger
<1> HIDE DEF m
<1>2. ASSUME NEW b \in Buckets PROVE Tallies(m.buckets[b], FactsOf(m, b)) /\ m.buckets[b].last <= e
  <2>1. CASE b \in bs
    <3>1. m.buckets[b] = NoStats /\ FactsOf(m, b) = {}
      BY <1>1, <2>1 DEF FactsOf
    <3>2. NoStats.last = 0
      BY DEF NoStats
    <3> QED
      BY <3>1, <3>2, NoStatsTally
  <2>2. CASE b \notin bs
    <3>1. m.buckets[b] = l.buckets[b] /\ FactsOf(m, b) = FactsOf(l, b)
      BY <1>1, <2>2 DEF FactsOf
    <3> QED
      BY <3>1 DEF Backed
  <2> QED
    BY <2>1, <2>2
<1>3. Backed(m, e)
  BY <1>2 DEF Backed
<1> QED
  BY <1>3 DEF m

\* What an undo brings together.
Both(current, stash, bs) == Facts(current) \cup {f \in Facts(stash) : f.bucket \in bs}

\* The entries of a merge are those of both sides, before the ring is cut.
LEMMA MergedParts ==
  ASSUME NEW current, Typed(current), NEW stash, Typed(stash), NEW bs \in SUBSET Buckets
  PROVE  /\ Merged(current, stash, bs) \in Seq(Fact)
         /\ ToSet(Merged(current, stash, bs)) = Both(current, stash, bs)
         /\ Distinct(current) /\ Distinct(stash)
              /\ (\A f \in Facts(current), g \in Facts(stash) : g.bucket \in bs => f.at # g.at)
            => Apart(Merged(current, stash, bs))
<1> DEFINE c == current.entries
           k == stash.entries
           s == Of(c, Buckets \ bs)
           t == Of(k, bs)
           u == Of(c, bs)
<1>1. c \in Seq(Fact) /\ k \in Seq(Fact) /\ Facts(current) = ToSet(c) /\ Facts(stash) = ToSet(k)
      /\ ToSet(c) \subseteq Fact
  BY LedgerParts DEF Typed, Facts
<1>2. /\ s \in Seq(Fact) /\ t \in Seq(Fact) /\ u \in Seq(Fact)
      /\ ToSet(s) = {f \in ToSet(c) : f.bucket \in Buckets \ bs}
      /\ ToSet(t) = {f \in ToSet(k) : f.bucket \in bs}
      /\ ToSet(u) = {f \in ToSet(c) : f.bucket \in bs}
      /\ Apart(c) => Apart(s) /\ Apart(u)
      /\ Apart(k) => Apart(t)
  BY <1>1, OfEntries
<1>3. Merged(current, stash, bs) = s \o t \o u
  BY DEF Merged
<1>4. \A f \in ToSet(c) : f.bucket \in Buckets
  BY <1>1, FactFields
<1> HIDE DEF s, t, u, c, k
<1>5. s \o t \in Seq(Fact) /\ ToSet(s \o t) = ToSet(s) \cup ToSet(t)
  BY <1>2, ConcatParts
<1> DEFINE st == s \o t
<1>6. st \o u \in Seq(Fact) /\ ToSet(st \o u) = ToSet(s) \cup ToSet(t) \cup ToSet(u)
  <2>1. st \in Seq(Fact) /\ ToSet(st) = ToSet(s) \cup ToSet(t)
    BY <1>5
  <2> HIDE DEF st
  <2>2. st \o u \in Seq(Fact) /\ ToSet(st \o u) = ToSet(st) \cup ToSet(u)
    BY <1>2, <2>1, ConcatParts
  <2> QED
    BY <2>1, <2>2
<1>7. ToSet(s) \cup ToSet(t) \cup ToSet(u) = Both(current, stash, bs)
  BY <1>1, <1>2, <1>4 DEF Both
<1>8. ASSUME Apart(c), Apart(k), \A f \in ToSet(c), g \in ToSet(k) : g.bucket \in bs => f.at # g.at
      PROVE  Apart(st \o u)
  <2>1. \A f \in ToSet(s), g \in ToSet(t) : f.at # g.at
    BY <1>2, <1>8
  <2>2. Apart(s \o t)
    BY <1>2, <1>8, <2>1, ApartConcat
  <2>3. ASSUME NEW f \in ToSet(s), NEW g \in ToSet(u) PROVE f.at # g.at
    <3>1. f \in ToSet(c) /\ g \in ToSet(c) /\ f # g
      BY <1>2
    <3>2. \A i, j \in DOMAIN c : i # j => c[i].at # c[j].at
      BY <1>8 DEF Apart
    <3>3. (\E i \in DOMAIN c : f = c[i]) /\ \E j \in DOMAIN c : g = c[j]
      BY <3>1 DEF ToSet
    <3> QED
      BY <3>1, <3>2, <3>3
  <2>4. \A f \in ToSet(t), g \in ToSet(u) : f.at # g.at
    BY <1>2, <1>8
  <2>5. \A f \in ToSet(st), g \in ToSet(u) : f.at # g.at
    BY <1>5, <2>3, <2>4
  <2>6. st \in Seq(Fact) /\ Apart(st) /\ Apart(u)
    BY <1>2, <1>5, <1>8, <2>2
  <2> HIDE DEF st
  <2> QED
    BY <1>2, <2>5, <2>6, ApartConcat
<1> QED
  BY <1>1, <1>3, <1>6, <1>7, <1>8 DEF Distinct, c, k

\* What an undo makes of ledger and stash: their facts, in the order of the half-lives.
LEMMA MergeTyped ==
  ASSUME NEW current, Typed(current), NEW stash, Typed(stash), NEW bs \in SUBSET Buckets
  PROVE  /\ Typed(MergeLedger(current, stash, bs))
         /\ Facts(MergeLedger(current, stash, bs)) \subseteq Both(current, stash, bs)
         /\ Len(Merged(current, stash, bs)) <= MaxEntries
              => Facts(MergeLedger(current, stash, bs)) = Both(current, stash, bs)
         /\ Apart(Merged(current, stash, bs)) => Distinct(MergeLedger(current, stash, bs))
         /\ (\A f, g \in Both(current, stash, bs) : f.at <= g.at => f.era <= g.era)
              => Ordered(MergeLedger(current, stash, bs))
         /\ \A b \in Buckets : MergeLedger(current, stash, bs).buckets[b] =
              IF b \in bs THEN Replay(stash.buckets[b], Of(current.entries, {b})) ELSE current.buckets[b]
<1> DEFINE s == Merged(current, stash, bs)
           t == ByAge(s)
           r == Newest(t, MaxEntries)
           B == [b \in Buckets |-> IF b \in bs THEN Replay(stash.buckets[b], Of(current.entries, {b}))
                                               ELSE current.buckets[b]]
           m == MergeLedger(current, stash, bs)
<1>1. /\ s \in Seq(Fact) /\ ToSet(s) = Both(current, stash, bs)
      /\ current.buckets \in [Buckets -> Stats] /\ stash.buckets \in [Buckets -> Stats]
      /\ current.entries \in Seq(Fact) /\ MaxEntries \in Nat
  BY MergedParts, LedgerParts, Limits DEF Typed
<1>2. B \in [Buckets -> Stats]
  <2>1. ASSUME NEW b \in Buckets PROVE B[b] \in Stats
    <3>1. stash.buckets[b] \in Stats /\ current.buckets[b] \in Stats /\ Of(current.entries, {b}) \in Seq(Fact)
      BY <1>1, OfEntries
    <3> QED
      BY <3>1, ReplayType
  <2> QED
    BY <2>1
<1>3. m = [entries |-> r, buckets |-> B]
  BY DEF MergeLedger
<1> HIDE DEF s
<1>4. /\ t \in Seq(Fact) /\ Len(t) <= Len(s) /\ ToSet(t) = ToSet(s)
      /\ Apart(s) => Apart(t)
      /\ \A i, j \in DOMAIN t : i <= j => t[i].at <= t[j].at
  BY <1>1, ByAgeEntries
<1> HIDE DEF t
<1>5. (\A f, g \in ToSet(s) : f.at <= g.at => f.era <= g.era) => InEras(t)
  <2>1. \A i \in DOMAIN t : t[i] \in ToSet(s)
    BY <1>4 DEF ToSet
  <2> QED
    BY <1>4, <2>1 DEF InEras
<1>6. /\ r \in Seq(Fact) /\ Len(r) <= MaxEntries /\ ToSet(r) \subseteq ToSet(t)
      /\ Len(t) <= MaxEntries => r = t
      /\ Apart(t) => Apart(r)
      /\ InEras(t) => InEras(r)
  BY <1>1, <1>4, NewestPart, ApartNewest
<1> HIDE DEF r, B, m
<1>7. m \in Ledgers /\ m.entries = r /\ m.buckets = B
  BY <1>2, <1>3, <1>6, LedgerMade
<1>8. Facts(m) = ToSet(r)
  BY <1>7 DEF Facts
<1>9. Len(s) <= MaxEntries => Len(t) <= MaxEntries
  BY <1>1, <1>4
<1>10. \A b \in Buckets : m.buckets[b] = IF b \in bs THEN Replay(stash.buckets[b], Of(current.entries, {b}))
                                                     ELSE current.buckets[b]
  BY <1>7 DEF B
<1> QED
  BY <1>1, <1>4, <1>5, <1>6, <1>7, <1>8, <1>9, <1>10 DEF Typed, Distinct, Ordered, s, m

\* When nothing is dropped, and what was said since is later than the stash, its statistics are those of its facts.
LEMMA MergeBacked ==
  ASSUME NEW current, Typed(current), NEW stash, Typed(stash), NEW bs \in SUBSET Buckets,
         Distinct(current), Ordered(current),
         NEW e \in 0..MaxEra, Backed(current, e), Backed(stash, e), UpTo(Facts(current), e),
         \A f \in Facts(current), g \in Facts(stash) : g.bucket \in bs => f.at # g.at,
         \A f \in Facts(current) : f.bucket \in bs => stash.buckets[f.bucket].last <= f.era,
         Len(Merged(current, stash, bs)) <= MaxEntries
  PROVE  Backed(MergeLedger(current, stash, bs), e)
<1> DEFINE m == MergeLedger(current, stash, bs)
<1>1. /\ Facts(m) = Both(current, stash, bs)
      /\ \A b \in Buckets : m.buckets[b] = IF b \in bs THEN Replay(stash.buckets[b], Of(current.entries, {b}))
                                                       ELSE current.buckets[b]
      /\ current.entries \in Seq(Fact) /\ Facts(current) = ToSet(current.entries) /\ e \in Nat
  <2>1. Len(Merged(current, stash, bs)) <= MaxEntries => Facts(m) = Both(current, stash, bs)
    BY MergeTyped
  <2>3. \A b \in Buckets : m.buckets[b] = IF b \in bs THEN Replay(stash.buckets[b], Of(current.entries, {b}))
                                                      ELSE current.buckets[b]
    BY DEF MergeLedger
  <2>2. current.entries \in Seq(Fact) /\ Facts(current) = ToSet(current.entries)
    BY LedgerParts DEF Typed, Facts
  <2> QED
    BY <2>1, <2>2, <2>3, Eras
<1> HIDE DEF m
<1>2. ASSUME NEW b \in Buckets PROVE Tallies(m.buckets[b], FactsOf(m, b)) /\ m.buckets[b].last <= e
  <2>1. CASE b \notin bs
    <3>1. m.buckets[b] = current.buckets[b] /\ FactsOf(m, b) = FactsOf(current, b)
      BY <1>1, <2>1 DEF FactsOf, Both
    <3> QED
      BY <3>1 DEF Backed
  <2>2. CASE b \in bs
    <3> DEFINE s == stash.buckets[b]
               F == FactsOf(stash, b)
               t == Of(current.entries, {b})
    <3>1. Tallies(s, F) /\ s.last <= e /\ Together(FactsOf(current, b))
      BY DEF Backed, Tallies
    <3>2. /\ t \in Seq(Fact) /\ ToSet(t) = {f \in ToSet(current.entries) : f.bucket \in {b}} /\ Apart(t) /\ InEras(t)
      BY <1>1, OfEntries DEF Distinct, Ordered
    <3>3. ToSet(t) = FactsOf(current, b) /\ ToSet(t) \subseteq Facts(current)
      BY <1>1, <3>2 DEF FactsOf
    <3>4. \A f \in F, g \in ToSet(t) : f.at # g.at
      BY <2>2, <3>3 DEF FactsOf
    <3>5. Together(F \cup ToSet(t))
      <4>1. Together(F) /\ Together(ToSet(t))
        BY <3>1, <3>3 DEF Tallies
      <4> HIDE DEF F, t
      <4> QED
        BY <4>1, <3>4 DEF Together
    <3>6. \A g \in ToSet(t) : s.last <= g.era
      BY <2>2, <3>3 DEF FactsOf
    <3>7. UpTo(ToSet(t), e)
      BY <3>3 DEF UpTo
    <3>8. m.buckets[b] = Replay(s, t)
      BY <1>1, <2>2
    <3>9. FactsOf(m, b) = F \cup ToSet(t)
      BY <1>1, <2>2, <3>3 DEF FactsOf, Both
    <3> HIDE DEF s, F, t
    <3>10. Tallies(Replay(s, t), F \cup ToSet(t)) /\ Replay(s, t).last <= e
      BY <1>1, <3>1, <3>2, <3>4, <3>5, <3>6, <3>7, ReplayTallies
    <3> QED
      BY <3>8, <3>9, <3>10
  <2> QED
    BY <2>1, <2>2
<1>3. Backed(m, e)
  BY <1>2 DEF Backed
<1> QED
  BY <1>3 DEF m

-----------------------------------------------------------------------------
(***************************************************************************)
(* The runs of the warming model.                                          *)
(***************************************************************************)
\* A ring of runs with one more.
LEMMA RunsAppend ==
  ASSUME NEW s \in Seq(Nat), NEW n \in Nat
  PROVE  /\ Newest(Append(s, n), MaxRuns) \in Seq(Nat) /\ Len(Newest(Append(s, n), MaxRuns)) <= MaxRuns
         /\ ToSet(Newest(Append(s, n), MaxRuns)) \subseteq ToSet(s) \cup {n}
<1>1. /\ Append(s, n) \in Seq(Nat) /\ ToSet(Append(s, n)) = ToSet(s) \cup {n}
  BY AppendLast
<1> QED
  BY <1>1, NewestPart, Limits

\* No run counts twice in the newest part of a ring,
LEMMA OnceNewest ==
  ASSUME NEW s \in Seq(Nat), NEW n \in Nat, Once(s)
  PROVE  Once(Newest(s, n))
<1> DEFINE r == Newest(s, n)
<1>1. r \in Seq(Nat) /\ DOMAIN r = 1..Len(r) /\ Len(r) \in Nat /\ DOMAIN s = 1..Len(s)
  BY NewestPart
<1>2. PICK d \in Nat : \A i \in 1..Len(r) : i + d \in 1..Len(s) /\ r[i] = s[i + d]
  BY NewestPart
<1> HIDE DEF r
<1>3. ASSUME NEW i \in 1..Len(r), NEW j \in 1..Len(r), i # j PROVE r[i] # r[j]
  <2>1. i + d # j + d
    BY <1>1, <1>3
  <2> QED
    BY <2>1, <1>1, <1>2 DEF Once
<1> QED
  BY <1>1, <1>3 DEF Once, r

\* in two rings that have nothing in common,
LEMMA OnceConcat ==
  ASSUME NEW s \in Seq(Nat), NEW t \in Seq(Nat), Once(s), Once(t), ToSet(s) \cap ToSet(t) = {}
  PROVE  Once(s \o t)
<1> DEFINE r == s \o t
           n == Len(s)
<1>1. /\ r \in Seq(Nat) /\ Len(r) = n + Len(t) /\ n \in Nat /\ Len(t) \in Nat /\ DOMAIN r = 1..n + Len(t)
      /\ DOMAIN s = 1..n /\ DOMAIN t = 1..Len(t)
      /\ \A i \in 1..n : r[i] = s[i] /\ s[i] \in ToSet(s)
      /\ \A i \in 1..Len(t) : r[n + i] = t[i] /\ t[i] \in ToSet(t)
  BY ConcatParts, ToSetOf
<1> HIDE DEF r, n
<1>2. \A i \in 1..n + Len(t) : i \in 1..n \/ \E k \in 1..Len(t) : i = n + k
  <2>1. ASSUME NEW i \in 1..n + Len(t), i \notin 1..n PROVE i - n \in 1..Len(t) /\ i = n + (i - n)
    BY <1>1, <2>1
  <2> QED
    BY <2>1
<1>3. ASSUME NEW i \in 1..n + Len(t), NEW j \in 1..n + Len(t), i # j PROVE r[i] # r[j]
  <2>1. CASE i \in 1..n /\ j \in 1..n
    BY <2>1, <1>1, <1>3 DEF Once
  <2>2. CASE i \in 1..n /\ j \notin 1..n
    BY <2>2, <1>1, <1>2
  <2>3. CASE i \notin 1..n /\ j \in 1..n
    BY <2>3, <1>1, <1>2
  <2>4. CASE i \notin 1..n /\ j \notin 1..n
    <3>1. PICK k \in 1..Len(t) : i = n + k
      BY <2>4, <1>2
    <3>2. PICK h \in 1..Len(t) : j = n + h
      BY <2>4, <1>2
    <3>3. k # h
      BY <1>3, <3>1, <3>2
    <3>4. t[k] # t[h]
      BY <3>3, <1>1 DEF Once
    <3>5. r[i] = t[k] /\ r[j] = t[h]
      BY <3>1, <3>2, <1>1
    <3> QED
      BY <3>4, <3>5
  <2> QED
    BY <2>1, <2>2, <2>3, <2>4
<1> QED
  BY <1>1, <1>3 DEF Once, r

\* or in one with a new run.
LEMMA OnceAppend ==
  ASSUME NEW s \in Seq(Nat), NEW n \in Nat, Once(s), n \notin ToSet(s)
  PROVE  Once(Newest(Append(s, n), MaxRuns))
<1>1. Append(s, n) = s \o <<n>> /\ <<n>> \in Seq(Nat) /\ Append(s, n) \in Seq(Nat)
  OBVIOUS
<1>2. Once(<<n>>) /\ ToSet(<<n>>) = {n}
  BY DEF Once, ToSet
<1>3. Once(s \o <<n>>)
  BY <1>1, <1>2, OnceConcat
<1> QED
  BY <1>1, <1>3, OnceNewest, Limits

\* The merge of two rings of runs.
LEMMA MergeRunsOf ==
  ASSUME NEW s \in Seq(Nat), NEW t \in Seq(Nat)
  PROVE  /\ MergeRuns(s, t) \in Seq(Nat) /\ Len(MergeRuns(s, t)) <= MaxRuns
         /\ ToSet(MergeRuns(s, t)) \subseteq ToSet(s) \cup ToSet(t)
         /\ Once(s) /\ Once(t) /\ ToSet(s) \cap ToSet(t) = {} => Once(MergeRuns(s, t))
<1>1. t \o s \in Seq(Nat) /\ ToSet(t \o s) = ToSet(t) \cup ToSet(s)
  BY ConcatParts
<1> DEFINE r == t \o s
<1>2. MergeRuns(s, t) = Newest(r, MaxRuns)
  BY DEF MergeRuns
<1>3. Once(s) /\ Once(t) /\ ToSet(s) \cap ToSet(t) = {} => Once(r)
  BY OnceConcat
<1>4. r \in Seq(Nat) /\ ToSet(r) = ToSet(t) \cup ToSet(s)
  BY <1>1
<1> HIDE DEF r
<1>5. Newest(r, MaxRuns) \in Seq(Nat) /\ Len(Newest(r, MaxRuns)) <= MaxRuns /\ ToSet(Newest(r, MaxRuns)) \subseteq ToSet(r)
  BY <1>4, NewestPart, Limits
<1>6. Once(r) => Once(Newest(r, MaxRuns))
  BY <1>4, OnceNewest, Limits
<1> QED
  BY <1>2, <1>3, <1>4, <1>5, <1>6

-----------------------------------------------------------------------------
(***************************************************************************)
(* The types of all there is.                                              *)
(***************************************************************************)
Sound == {l \in Ledgers : Len(l.entries) <= MaxEntries}
RunSeqs == {s \in Seq(Nat) : Len(s) <= MaxRuns}
LedgerStashes == [of : {"ledger"}, buckets : SUBSET Buckets, ledger : Sound, alone : BOOLEAN]
RunStashes == [of : {"warming"}, runs : RunSeqs, alone : BOOLEAN]
Resets == {NoReset} \cup {r \in LedgerStashes : HasContent(r.ledger, r.buckets)} \cup {r \in RunStashes : r.runs # <<>>}
Stores == [ledger : Sound, lastReset : Resets, runs : RunSeqs, heating : Nat]
Folds == [pending : {TRUE}, net : Int, at : Nat, entryAt : Nat, ctx : Contexts \cup {NoContext}, learns : BOOLEAN,
          before : Sound, alone : BOOLEAN]
Changes == {NoChange} \cup {c \in Folds : c.entryAt \in {0, c.at}}
Undos == {NoUndo} \cup [kept : {TRUE}, ledger : Sound, alone : BOOLEAN]

TypeInv ==
  /\ ledger \in Sound /\ runs \in RunSeqs /\ heating \in Nat /\ lastReset \in Resets
  /\ stored \in Stores /\ blob \in [ledger : Sound, runs : RunSeqs]
  /\ change \in Changes /\ undo \in Undos
  /\ clock \in 1..MaxFacts + 1 /\ era \in 0..MaxEra
  /\ gone \in [facts : SUBSET Nat, runs : SUBSET Nat]

\* A sound ledger is one of the right type.
LEMMA SoundTyped == \A l : l \in Sound <=> Typed(l)
BY DEF Sound, Typed

\* A change that is pending is one that is being folded.
LEMMA ChangeParts ==
  ASSUME NEW c \in Changes
  PROVE  /\ c.pending \in BOOLEAN
         /\ ~c.pending => c = NoChange
         /\ c.pending => c \in Folds /\ c.entryAt \in {0, c.at}
<1>1. CASE c = NoChange
  BY <1>1 DEF NoChange
<1>2. CASE c \in Folds /\ c.entryAt \in {0, c.at}
  <2>1. c.pending = TRUE
    BY <1>2 DEF Folds
  <2> QED
    BY <1>2, <2>1
<1> QED
  BY <1>1, <1>2 DEF Changes

\* A disturbed change is the same but for its history.
LEMMA DisturbedParts ==
  ASSUME NEW c \in Changes
  PROVE  /\ Disturbed(c) \in Changes /\ Disturbed(c).pending = c.pending
         /\ c.pending => /\ Disturbed(c).before = c.before /\ Disturbed(c).at = c.at /\ ~Disturbed(c).alone
                         /\ Disturbed(c).net = c.net /\ Disturbed(c).entryAt = c.entryAt
                         /\ Disturbed(c).ctx = c.ctx /\ Disturbed(c).learns = c.learns
<1>1. CASE ~c.pending
  BY <1>1, ChangeParts DEF Disturbed
<1>2. CASE c.pending
  <2>1. c \in Folds /\ c.entryAt \in {0, c.at} /\ Disturbed(c) = [c EXCEPT !.alone = FALSE]
    BY <1>2, ChangeParts DEF Disturbed
  <2>2. [c EXCEPT !.alone = FALSE] \in Folds
    BY <2>1 DEF Folds
  <2>3. /\ [c EXCEPT !.alone = FALSE].pending = c.pending /\ [c EXCEPT !.alone = FALSE].before = c.before
        /\ [c EXCEPT !.alone = FALSE].at = c.at /\ [c EXCEPT !.alone = FALSE].net = c.net
        /\ [c EXCEPT !.alone = FALSE].entryAt = c.entryAt /\ [c EXCEPT !.alone = FALSE].ctx = c.ctx
        /\ [c EXCEPT !.alone = FALSE].learns = c.learns /\ ~[c EXCEPT !.alone = FALSE].alone
    BY <2>1 DEF Folds
  <2> QED
    BY <2>1, <2>2, <2>3 DEF Changes
<1> QED
  BY <1>1, <1>2, ChangeParts

\* An undo that is kept has a ledger, also when it is outdated.
LEMMA UndoParts ==
  ASSUME NEW u \in Undos
  PROVE  /\ u.kept \in BOOLEAN
         /\ ~u.kept => u = NoUndo
         /\ u.kept => u.ledger \in Sound /\ u.alone \in BOOLEAN
         /\ Outdated(u) \in Undos /\ Outdated(u).kept = u.kept
         /\ u.kept => Outdated(u).ledger = u.ledger /\ ~Outdated(u).alone
<1>1. CASE u = NoUndo
  BY <1>1 DEF NoUndo, Outdated, Undos
<1>2. CASE u \in [kept : {TRUE}, ledger : Sound, alone : BOOLEAN]
  <2>1. /\ [u EXCEPT !.alone = FALSE] \in [kept : {TRUE}, ledger : Sound, alone : BOOLEAN]
        /\ [u EXCEPT !.alone = FALSE].ledger = u.ledger /\ ~[u EXCEPT !.alone = FALSE].alone
    BY <1>2
  <2> QED
    BY <1>2, <2>1 DEF Outdated, Undos
<1> QED
  BY <1>1, <1>2 DEF Undos

\* The three kinds of a stash.
LEMMA ResetParts ==
  ASSUME NEW r \in Resets
  PROVE  /\ r.of \in {"nothing", "ledger", "warming"}
         /\ r.of = "nothing" <=> r = NoReset
         /\ r.of = "ledger" => r \in LedgerStashes /\ HasContent(r.ledger, r.buckets)
         /\ r.of = "warming" => r \in RunStashes /\ r.runs # <<>>
BY DEF Resets, NoReset, LedgerStashes, RunStashes

\* The stash as it is when something else has brought back some of what it holds.
LEMMA SpoiltParts ==
  ASSUME NEW r \in Resets
  PROVE  LET q == [r EXCEPT !.alone = FALSE]
         IN /\ r.of = "ledger" => /\ q \in Resets /\ q.of = "ledger" /\ q.ledger = r.ledger /\ q.buckets = r.buckets
                                  /\ ~q.alone
            /\ r.of = "warming" => q \in Resets /\ q.of = "warming" /\ q.runs = r.runs /\ ~q.alone
<1> DEFINE q == [r EXCEPT !.alone = FALSE]
<1>1. CASE r.of = "ledger"
  <2>1. r \in LedgerStashes /\ HasContent(r.ledger, r.buckets)
    BY <1>1, ResetParts
  <2>2. q \in LedgerStashes /\ q.of = "ledger" /\ q.ledger = r.ledger /\ q.buckets = r.buckets /\ ~q.alone
    BY <2>1 DEF LedgerStashes
  <2> QED
    BY <1>1, <2>1, <2>2 DEF Resets
<1>2. CASE r.of = "warming"
  <2>1. r \in RunStashes /\ r.runs # <<>>
    BY <1>2, ResetParts
  <2>2. q \in RunStashes /\ q.of = "warming" /\ q.runs = r.runs /\ ~q.alone
    BY <2>1 DEF RunStashes
  <2> QED
    BY <1>2, <2>1, <2>2 DEF Resets
<1> QED
  BY <1>1, <1>2

\* A spoilt stash is the same but for its history.
LEMMA SpoiltLedger ==
  ASSUME NEW r \in Resets
  PROVE  /\ Spoilt(r) \in Resets /\ Spoilt(r).of = r.of
         /\ r.of = "ledger" => Spoilt(r).ledger = r.ledger /\ Spoilt(r).buckets = r.buckets /\ ~Spoilt(r).alone
         /\ r.of # "ledger" => Spoilt(r) = r
BY SpoiltParts DEF Spoilt

\* The parts of the store.
LEMMA StoreParts ==
  ASSUME NEW d \in Stores
  PROVE  d.ledger \in Sound /\ d.lastReset \in Resets /\ d.runs \in RunSeqs /\ d.heating \in Nat
BY DEF Stores

\* What there is at first.
LEMMA EmptySound == EmptyLedger \in Sound /\ <<>> \in RunSeqs
<1>1. Len(<<>>) = 0 /\ <<>> \in Seq(Nat)
  OBVIOUS
<1> QED
  BY <1>1, EmptyTyped, SoundTyped, Limits DEF RunSeqs

\* What a step of a change makes of the ledger.
LEMMA AmendedType ==
  ASSUME NEW l \in Sound, NEW c \in Changes, c.pending, NEW net \in Int, era \in 0..MaxEra
  PROVE  /\ Amended(l, c, net) \in Sound /\ Entry(c.at, era, net, c.ctx) \in Fact
         /\ EntryAtAfter(l, c, net) \in {0, c.at}
<1>1. c \in Folds /\ c.entryAt \in {0, c.at} /\ c.at \in Nat
  BY ChangeParts DEF Folds
<1> DEFINE f == Entry(c.at, era, net, c.ctx)
<1>2. f \in Fact
  BY <1>1, EntryFact
<1> HIDE DEF f
<1>3. Typed(l)
  BY SoundTyped
<1>4. Typed(Add(l, f))
  BY <1>2, <1>3, AddLedger
<1>5. l.entries # <<>> => Typed(DropLast(l)) /\ Typed(AmendLast(l, f))
  BY <1>2, <1>3, DropLedger, AmendLedger
<1>6. Amended(l, c, net) \in {l, Add(l, f)} \/ (l.entries # <<>> /\ Amended(l, c, net) \in {DropLast(l), AmendLast(l, f)})
  BY DEF Amended, Present, f
<1>7. Amended(l, c, net) \in Sound
  BY <1>4, <1>5, <1>6, SoundTyped
<1> QED
  BY <1>1, <1>2, <1>7 DEF EntryAtAfter, f

\* How far a person moves a target is a number.
LEMMA NetsInt == \A net \in Nets : net \in Int
BY LearningAssumption

\* A reset is of one bucket or of all, which are sets of buckets.
LEMMA BothKinds == Buckets \in SUBSET Buckets /\ \A b \in Buckets : {b} \in SUBSET Buckets
OBVIOUS

\* A ledger with one more entry is sound.
LEMMA AddedSound ==
  ASSUME NEW l \in Sound, NEW at \in Nat, NEW e \in 0..MaxEra, NEW net \in Int, NEW ctx
  PROVE  Add(l, Entry(at, e, net, ctx)) \in Sound
<1> DEFINE f == Entry(at, e, net, ctx)
<1>1. f \in Fact /\ Typed(l)
  BY EntryFact, SoundTyped
<1> HIDE DEF f
<1>2. Typed(Add(l, f))
  BY <1>1, AddLedger
<1> QED
  BY <1>2, SoundTyped DEF f

Folded(c, net, x) == [c EXCEPT !.net = net, !.entryAt = x]

\* A change after a step.
LEMMA FoldsWith ==
  ASSUME NEW c \in Folds, NEW net \in Int, NEW x \in Nat
  PROVE  /\ Folded(c, net, x) \in Folds /\ Folded(c, net, x).net = net /\ Folded(c, net, x).entryAt = x
         /\ Folded(c, net, x).pending /\ Folded(c, net, x).at = c.at /\ Folded(c, net, x).ctx = c.ctx
         /\ Folded(c, net, x).learns = c.learns /\ Folded(c, net, x).before = c.before
         /\ Folded(c, net, x).alone = c.alone
<1> DEFINE p == [c EXCEPT !.net = net]
           q == [p EXCEPT !.entryAt = x]
<1>1. p \in Folds /\ p.net = net /\ p.at = c.at /\ p.ctx = c.ctx /\ p.learns = c.learns /\ p.before = c.before
      /\ p.alone = c.alone
  BY DEF Folds
<1> HIDE DEF p
<1>2. q \in Folds /\ q.net = p.net /\ q.entryAt = x /\ q.at = p.at /\ q.ctx = p.ctx /\ q.learns = p.learns
      /\ q.before = p.before /\ q.alone = p.alone /\ q.pending
  BY <1>1 DEF Folds
<1>3. Folded(c, net, x) = q
  BY DEF p, Folded
<1> QED
  BY <1>1, <1>2, <1>3

\* Types hold at first,
LEMMA TypeStarts == Init => TypeInv
<1> SUFFICES ASSUME Init PROVE TypeInv
  OBVIOUS
<1>1. NoReset \in Resets /\ NoChange \in Changes /\ NoUndo \in Undos
  BY DEF Resets, Changes, Undos
<1>2. Data \in Stores
  BY <1>1, EmptySound DEF Init, Data, Stores
<1>3. NoBlob \in [ledger : Sound, runs : RunSeqs]
  BY EmptySound DEF NoBlob
<1> QED
  BY <1>1, <1>2, <1>3, EmptySound, Limits DEF Init, TypeInv

\* and every step keeps them.
LEMMA TypeKept == TypeInv /\ [Next]_vars => TypeInv'
<1> SUFFICES ASSUME TypeInv, [Next]_vars PROVE TypeInv'
  OBVIOUS
<1> USE DEF TypeInv
<1>1. /\ clock \in Nat /\ era \in 0..MaxEra /\ MaxFacts \in Nat /\ MaxEra \in Nat
      /\ (clock <= MaxFacts => clock + 1 \in 1..MaxFacts + 1)
  BY Limits
<1>2. Data \in Stores
  BY DEF Data, Stores
<1>3. ledger' \in Sound /\ lastReset' \in Resets /\ runs' \in RunSeqs /\ heating' \in Nat => Data' \in Stores
  BY DEF Data, Stores
<1>4. /\ Disturbed(change) \in Changes /\ Outdated(undo) \in Undos /\ Spoilt(lastReset) \in Resets
      /\ NoChange \in Changes /\ NoUndo \in Undos /\ NoReset \in Resets
  BY DisturbedParts, UndoParts, SpoiltLedger DEF Resets, Changes, Undos
<1>5. \A net \in Nets : \A ctx : Add(ledger, Entry(clock, era, net, ctx)) \in Sound
  BY <1>1, NetsInt, AddedSound
<1>6. ASSUME NEW net \in Nets, NEW ctx \in Contexts \cup {NoContext}, NEW learns \in BOOLEAN, FirstStep(net, ctx, learns)
      PROVE  TypeInv'
  <2>1. change' \in Changes
    <3> DEFINE learnt == learns /\ ~Storm
    <3>1. change' = [pending |-> TRUE, net |-> net, at |-> clock, entryAt |-> IF learnt THEN clock ELSE 0,
                     ctx |-> ctx, learns |-> learnt, before |-> ledger, alone |-> TRUE]
      BY <1>6 DEF FirstStep
    <3>2. learnt \in BOOLEAN
      BY DEF Storm
    <3> HIDE DEF learnt
    <3>3. change' \in Folds /\ change'.entryAt \in {0, change'.at}
      BY <1>1, <3>1, <3>2, NetsInt DEF Folds
    <3> QED
      BY <3>3 DEF Changes
  <2>2. undo' \in Undos
    BY <1>6 DEF FirstStep, Capture, Undos
  <2>3. ledger' \in Sound
    BY <1>5, <1>6 DEF FirstStep
  <2> QED
    BY <1>1, <1>6, <2>1, <2>2, <2>3 DEF FirstStep, Tick
<1>7. ASSUME NEW net \in Nets, NEW ctx \in Contexts \cup {NoContext}, NEW learns \in BOOLEAN, Tap(net, ctx, learns)
      PROVE  TypeInv'
  <2>1. undo' \in Undos
    BY <1>7 DEF Tap, Capture, Undos
  <2>2. ledger' \in Sound
    BY <1>5, <1>7 DEF Tap
  <2> QED
    BY <1>1, <1>4, <1>7, <2>1, <2>2 DEF Tap, Tick
<1>8. ASSUME NEW net \in Nets, NEW ctx \in Contexts, Boost(net, ctx)
      PROVE  TypeInv'
  <2>1. ledger' \in Sound
    BY <1>5, <1>8 DEF Boost
  <2> QED
    BY <1>1, <1>4, <1>8, <2>1 DEF Boost, Tick
<1>9. ASSUME NEW net \in Nets, Step(net) PROVE TypeInv'
  <2>1. change.pending /\ net \in Int
    BY <1>9, NetsInt DEF Step
  <2>2. ledger' \in Sound /\ EntryAtAfter(ledger, change, net) \in {0, change.at}
    BY <1>9, <2>1, AmendedType DEF Step
  <2>3. change' \in Changes
    <3>1. change \in Folds
      BY <2>1, ChangeParts
    <3> DEFINE x == EntryAtAfter(ledger, change, net)
    <3>2. change' = [change EXCEPT !.net = net, !.entryAt = x] /\ x \in {0, change.at}
      BY <1>9, <2>2 DEF Step
    <3> HIDE DEF x
    <3> DEFINE q == Folded(change, net, x)
    <3>3. x \in Nat
      BY <3>1, <3>2 DEF Folds
    <3>4. q \in Folds /\ q.entryAt = x /\ q.at = change.at
      BY <2>1, <3>1, <3>3, FoldsWith
    <3>5. change' = q
      BY <3>2 DEF Folded
    <3> QED
      BY <3>2, <3>4, <3>5 DEF Changes
  <2>4. gone' \in [facts : SUBSET Nat, runs : SUBSET Nat]
    <3>1. gone' = gone \/ gone' = [gone EXCEPT !.facts = @ \ {change.at}]
      BY <1>9 DEF Step
    <3> QED
      BY <3>1
  <2>5. lastReset' \in Resets
    BY <1>4, <1>9 DEF Step
  <2> QED
    BY <1>9, <2>2, <2>3, <2>4, <2>5 DEF Step
<1>10. ASSUME Settles \/ GraceEnds \/ StormEnds \/ Save \/ Export PROVE TypeInv'
  <2>1. CASE Settles
    BY <1>4, <2>1 DEF Settles
  <2>2. CASE GraceEnds
    BY <1>4, <2>2 DEF GraceEnds
  <2>3. CASE StormEnds
    BY <2>3 DEF StormEnds
  <2>4. CASE Save
    BY <1>2, <2>4 DEF Save
  <2>5. CASE Export
    BY <2>5 DEF Export
  <2> QED
    BY <1>10, <2>1, <2>2, <2>3, <2>4, <2>5
<1>11. ASSUME SchedulerCausedIt PROVE TypeInv'
  <2>1. ledger' \in Sound
    BY <1>11, UndoParts DEF SchedulerCausedIt
  <2> QED
    BY <1>4, <1>11, <2>1 DEF SchedulerCausedIt
<1>12. ASSUME HalfLife PROVE TypeInv'
  BY <1>1, <1>12 DEF HalfLife
<1>13. ASSUME RunStarts PROVE TypeInv'
  BY <1>1, <1>13 DEF RunStarts, Tick
<1>14. ASSUME NEW clean \in BOOLEAN, RunEnds(clean) PROVE TypeInv'
  <2>1. runs' \in RunSeqs
    BY <1>14, RunsAppend DEF RunEnds, RunSeqs
  <2> QED
    BY <1>14, <2>1 DEF RunEnds
<1>15. ASSUME NEW bs \in SUBSET Buckets, Reset(bs) PROVE TypeInv'
  <2>1. ledger' \in Sound
    BY <1>15, SoundTyped, ResetLedger DEF Reset
  <2>2. lastReset' \in Resets
    <3> DEFINE q == [of |-> "ledger", buckets |-> bs, ledger |-> ledger, alone |-> TRUE]
    <3>1. q \in LedgerStashes /\ q.ledger = ledger /\ q.buckets = bs
      BY DEF LedgerStashes
    <3>2. lastReset' = IF HasContent(ledger, bs) THEN q ELSE lastReset
      BY <1>15 DEF Reset
    <3> HIDE DEF q
    <3> QED
      BY <3>1, <3>2 DEF Resets
  <2>3. gone' \in [facts : SUBSET Nat, runs : SUBSET Nat]
    <3>1. Ats(ledger, bs) \subseteq Nat
      <4>1. Facts(ledger) \subseteq Fact
        BY SoundTyped, LedgerParts DEF Typed
      <4> QED
        BY <4>1, AtsOfLedger, FactFields
    <3> QED
      BY <1>15, <3>1 DEF Reset
  <2>4. stored' \in Stores
    BY <1>3, <1>15, <2>1, <2>2 DEF Reset, Commit
  <2> QED
    BY <1>4, <1>15, <2>1, <2>2, <2>3, <2>4 DEF Reset
<1>16. ASSUME ResetWarming PROVE TypeInv'
  <2>1. runs' \in RunSeqs /\ heating' \in Nat
    BY <1>16, EmptySound DEF ResetWarming
  <2>2. lastReset' \in Resets
    <3> DEFINE q == [of |-> "warming", runs |-> runs, alone |-> TRUE]
    <3>1. q \in RunStashes /\ q.runs = runs
      BY DEF RunStashes
    <3>2. lastReset' = IF runs # <<>> THEN q ELSE lastReset
      BY <1>16 DEF ResetWarming
    <3> HIDE DEF q
    <3> QED
      BY <3>1, <3>2 DEF Resets
  <2>3. gone' \in [facts : SUBSET Nat, runs : SUBSET Nat]
    <3>1. ToSet(runs) \subseteq Nat
      BY ToSetOf DEF RunSeqs
    <3> QED
      BY <1>16, <3>1 DEF ResetWarming
  <2>4. stored' \in Stores
    BY <1>3, <1>16, <2>1, <2>2 DEF ResetWarming, Commit
  <2> QED
    BY <1>4, <1>16, <2>1, <2>2, <2>3, <2>4 DEF ResetWarming
<1>17. StillGone \in [facts : SUBSET Nat, runs : SUBSET Nat]
  BY DEF StillGone
<1>18. ASSUME UndoReset PROVE TypeInv'
  <2>1. ledger' \in Sound
    <3>1. CASE lastReset.of = "ledger"
      <4>1. lastReset.ledger \in Sound /\ lastReset.buckets \in SUBSET Buckets
        BY <3>1, ResetParts DEF LedgerStashes
      <4> QED
        BY <1>18, <3>1, <4>1, SoundTyped, MergeTyped DEF UndoReset
    <3> QED
      BY <1>18, <3>1 DEF UndoReset
  <2>2. runs' \in RunSeqs /\ heating' \in Nat
    <3>1. CASE lastReset.of = "warming"
      <4>1. lastReset.runs \in Seq(Nat) /\ runs \in Seq(Nat)
        BY <3>1, ResetParts DEF RunStashes, RunSeqs
      <4> QED
        BY <1>18, <3>1, <4>1, MergeRunsOf DEF UndoReset, RunSeqs
    <3> QED
      BY <1>18, <3>1 DEF UndoReset
  <2>3. lastReset' \in Resets
    BY <1>4, <1>18 DEF UndoReset
  <2>4. stored' \in Stores
    BY <1>3, <1>18, <2>1, <2>2, <2>3 DEF UndoReset, Commit
  <2> QED
    BY <1>4, <1>17, <1>18, <2>1, <2>2, <2>3, <2>4 DEF UndoReset
<1>19. ASSUME NEW parts \in SUBSET {"ledger", "warming_rate"}, Import(parts) PROVE TypeInv'
  <2>1. ledger' \in Sound
    BY <1>19 DEF Import
  <2>2. runs' \in RunSeqs /\ heating' \in Nat
    <3>1. Newest(blob.runs, MaxRuns) \in RunSeqs
      BY NewestPart, Limits DEF RunSeqs
    <3> QED
      BY <1>19, <3>1 DEF Import
  <2>3. lastReset' \in Resets
    BY <1>19, SpoiltParts DEF Import
  <2>4. stored' \in Stores
    BY <1>3, <1>19, <2>1, <2>2, <2>3 DEF Import, Commit
  <2>5. change' \in Changes /\ undo' \in Undos
    BY <1>4, <1>19 DEF Import
  <2> QED
    BY <1>17, <1>19, <2>1, <2>2, <2>3, <2>4, <2>5 DEF Import
<1>20. ASSUME Reload \/ Crash PROVE TypeInv'
  <2>1. PICK d \in {Data, stored} : Loaded(d) /\ stored' = d
    BY <1>20 DEF Reload, Crash
  <2>2. d \in Stores
    BY <1>2, <2>1
  <2>3. ledger' \in Sound /\ lastReset' \in Resets /\ runs' \in RunSeqs /\ heating' \in Nat
    BY <2>1, <2>2, StoreParts DEF Loaded
  <2> QED
    BY <1>4, <2>1, <2>2, <2>3 DEF Loaded
<1>21. CASE UNCHANGED vars
  BY <1>21 DEF vars
<1>22. NoContext \in Contexts \cup {NoContext} /\ TRUE \in BOOLEAN /\ FALSE \in BOOLEAN
  OBVIOUS
<1> HIDE DEF TypeInv
<1> QED
  BY <1>6, <1>7, <1>8, <1>9, <1>10, <1>11, <1>12, <1>13, <1>14, <1>15, <1>16, <1>18, <1>19, <1>20, <1>21, <1>22,
     BothKinds DEF Next

(* The variables keep their types, no ring grows past its limit and no     *)
(* stash is of nothing, through every merge, import and reload.            *)
THEOREM TypesHold == Spec => []TypeOK
<1>1. TypeInv => TypeOK
  <2> SUFFICES ASSUME TypeInv PROVE TypeOK
    OBVIOUS
  <2>1. ASSUME NEW r \in Resets PROVE ResetOf(r)
    BY DEF Resets, ResetOf, LedgerStashes, RunStashes, Sound, RunSeqs
  <2>2. change.pending => change.entryAt \in {0, change.at}
    BY ChangeParts DEF TypeInv
  <2>3. stored.ledger \in Sound /\ stored.lastReset \in Resets
    BY StoreParts DEF TypeInv
  <2> QED
    BY <2>1, <2>2, <2>3 DEF TypeInv, TypeOK, Sound, RunSeqs
<1> QED
  BY <1>1, TypeStarts, TypeKept, PTL DEF Spec

-----------------------------------------------------------------------------
(***************************************************************************)
(* All the ledgers that are held anywhere, and the facts in them.          *)
(***************************************************************************)
OfChange(c) == IF c.pending THEN {c.before} ELSE {}
OfUndo(u) == IF u.kept THEN {u.ledger} ELSE {}
OfReset(r) == IF r.of = "ledger" THEN {r.ledger} ELSE {}
Held == {ledger, blob.ledger, stored.ledger} \cup OfChange(change) \cup OfUndo(undo)
          \cup OfReset(lastReset) \cup OfReset(stored.lastReset)
Known == {f \in Fact : \E l \in Held : f \in Facts(l)}

\* All that is held is sound.
LEMMA HeldTyped ==
  ASSUME TypeInv
  PROVE  /\ \A l \in Held : Typed(l) /\ l \in Sound
         /\ \A l \in Held : Facts(l) \subseteq Known
<1>1. \A l \in OfChange(change) : l \in Sound
  BY ChangeParts DEF OfChange, TypeInv, Folds
<1>2. \A l \in OfUndo(undo) : l \in Sound
  BY UndoParts DEF OfUndo, TypeInv
<1>3. ASSUME NEW r \in Resets PROVE \A l \in OfReset(r) : l \in Sound
  BY ResetParts DEF OfReset, LedgerStashes
<1>4. blob.ledger \in Sound /\ stored.ledger \in Sound /\ stored.lastReset \in Resets
  BY StoreParts DEF TypeInv
<1>5. \A l \in Held : l \in Sound
  BY <1>1, <1>2, <1>3, <1>4 DEF Held, TypeInv
<1>6. \A l \in Sound : Facts(l) \subseteq Fact
  BY SoundTyped, LedgerParts DEF Typed
<1> QED
  BY <1>5, <1>6, SoundTyped DEF Known

\* Whatever else happens to it, what a part of the state holds it has from the ledger or from another part.
LEMMA PartsHeld ==
  ASSUME TypeInv
  PROVE  /\ OfChange(Disturbed(change)) = OfChange(change) /\ OfChange(NoChange) = {}
         /\ OfUndo(Outdated(undo)) = OfUndo(undo) /\ OfUndo(NoUndo) = {}
         /\ OfReset(Spoilt(lastReset)) = OfReset(lastReset) /\ OfReset(NoReset) = {}
<1>1. change \in Changes /\ undo \in Undos /\ lastReset \in Resets
  BY DEF TypeInv
<1>2. OfChange(NoChange) = {} /\ OfUndo(NoUndo) = {} /\ OfReset(NoReset) = {}
  BY DEF OfChange, OfUndo, OfReset, NoChange, NoUndo, NoReset
<1>3. OfChange(Disturbed(change)) = OfChange(change)
  BY <1>1, DisturbedParts DEF OfChange
<1>4. OfUndo(Outdated(undo)) = OfUndo(undo)
  BY <1>1, UndoParts DEF OfUndo
<1>5. OfReset(Spoilt(lastReset)) = OfReset(lastReset)
  BY <1>1, SpoiltLedger DEF OfReset
<1> QED
  BY <1>2, <1>3, <1>4, <1>5

\* What the other parts of the state hold after a step, the ledger or another part held before it.
LEMMA HeldFrame ==
  ASSUME TypeInv, [Next]_vars
  PROVE  /\ blob'.ledger \in {blob.ledger, ledger}
         /\ stored' \in {stored, Data, Data'}
         /\ OfChange(change') \subseteq OfChange(change) \cup {ledger}
         /\ OfUndo(undo') \subseteq OfUndo(undo) \cup {ledger}
         /\ OfReset(lastReset') \subseteq OfReset(lastReset) \cup OfReset(stored.lastReset) \cup {ledger}
<1> DEFINE Goal == /\ blob'.ledger \in {blob.ledger, ledger}
                   /\ stored' \in {stored, Data, Data'}
                   /\ OfChange(change') \subseteq OfChange(change) \cup {ledger}
                   /\ OfUndo(undo') \subseteq OfUndo(undo) \cup {ledger}
                   /\ OfReset(lastReset') \subseteq OfReset(lastReset) \cup OfReset(stored.lastReset) \cup {ledger}
<1>1. ASSUME NEW net, NEW ctx, NEW learns, FirstStep(net, ctx, learns) PROVE Goal
  <2>1. change'.before = ledger /\ undo'.ledger = ledger
    BY <1>1 DEF FirstStep, Capture
  <2> QED
    BY <1>1, <2>1 DEF FirstStep, OfChange, OfUndo
<1>2. ASSUME NEW net, NEW ctx, NEW learns, Tap(net, ctx, learns) PROVE Goal
  <2>1. undo'.ledger = ledger
    BY <1>2 DEF Tap, Capture
  <2> QED
    BY <1>2, <2>1, PartsHeld DEF Tap, OfUndo
<1>3. ASSUME NEW net, NEW ctx, Boost(net, ctx) PROVE Goal
  BY <1>3, PartsHeld DEF Boost
<1>4. ASSUME NEW net \in Nets, Step(net) PROVE Goal
  <2>1. change \in Folds /\ change.pending /\ net \in Int
    BY <1>4, NetsInt, ChangeParts DEF Step, TypeInv
  <2> DEFINE x == EntryAtAfter(ledger, change, net)
  <2>2. x \in Nat
    BY <2>1 DEF EntryAtAfter, Folds
  <2>3. change' = Folded(change, net, x)
    BY <1>4 DEF Step, Folded
  <2> HIDE DEF x
  <2>4. change'.before = change.before
    BY <2>1, <2>2, <2>3, FoldsWith
  <2> QED
    BY <1>4, <2>1, <2>4, PartsHeld DEF Step, OfChange
<1>5. ASSUME Settles \/ GraceEnds \/ StormEnds \/ HalfLife \/ RunStarts \/ Save PROVE Goal
  BY <1>5, PartsHeld DEF Settles, GraceEnds, StormEnds, HalfLife, RunStarts, Save
<1>6. ASSUME SchedulerCausedIt PROVE Goal
  BY <1>6, PartsHeld DEF SchedulerCausedIt
<1>7. ASSUME NEW clean, RunEnds(clean) PROVE Goal
  BY <1>7, PartsHeld DEF RunEnds
<1>8. ASSUME NEW bs, Reset(bs) PROVE Goal
  <2>1. OfReset(lastReset') \subseteq OfReset(lastReset) \cup {ledger}
    BY <1>8 DEF Reset, OfReset
  <2> QED
    BY <1>8, <2>1, PartsHeld DEF Reset, Commit
<1>9. ASSUME ResetWarming PROVE Goal
  <2>1. OfReset(lastReset') \subseteq OfReset(lastReset)
    BY <1>9 DEF ResetWarming, OfReset
  <2> QED
    BY <1>9, <2>1, PartsHeld DEF ResetWarming, Commit
<1>10. ASSUME UndoReset PROVE Goal
  BY <1>10, PartsHeld DEF UndoReset, Commit
<1>11. ASSUME Export PROVE Goal
  BY <1>11 DEF Export
<1>12. ASSUME NEW parts, Import(parts) PROVE Goal
  <2>1. OfReset(lastReset') = OfReset(lastReset)
    BY <1>12, SpoiltParts DEF Import, TypeInv, OfReset
  <2> QED
    BY <1>12, <2>1, PartsHeld DEF Import, Commit
<1>13. ASSUME Reload \/ Crash PROVE Goal
  <2>1. PICK d \in {Data, stored} : Loaded(d) /\ stored' = d
    BY <1>13 DEF Reload, Crash
  <2>2. lastReset' \in {lastReset, stored.lastReset}
    BY <2>1 DEF Loaded, Data
  <2> QED
    BY <2>1, <2>2, PartsHeld DEF Loaded
<1>14. ASSUME UNCHANGED vars PROVE Goal
  BY <1>14 DEF vars
<1> HIDE DEF Goal
<1>15. Goal
  <2>1. CASE Next
    BY <2>1, <1>1, <1>2, <1>3, <1>4, <1>5, <1>6, <1>7, <1>8, <1>9, <1>10, <1>11, <1>12, <1>13 DEF Next
  <2> QED
    BY <2>1, <1>14
<1> QED
  BY <1>15 DEF Goal

\* So the only ledger that a step can make is the ledger.
LEMMA HeldKept ==
  ASSUME TypeInv, [Next]_vars
  PROVE  Held' \subseteq Held \cup {ledger'}
<1>1. /\ blob'.ledger \in {blob.ledger, ledger}
      /\ stored' \in {stored, Data, Data'}
      /\ OfChange(change') \subseteq OfChange(change) \cup {ledger}
      /\ OfUndo(undo') \subseteq OfUndo(undo) \cup {ledger}
      /\ OfReset(lastReset') \subseteq OfReset(lastReset) \cup OfReset(stored.lastReset) \cup {ledger}
  BY HeldFrame
<1>2. /\ Data.ledger = ledger /\ Data.lastReset = lastReset
      /\ (Data').ledger = ledger' /\ (Data').lastReset = lastReset'
  BY DEF Data
<1>3. stored'.ledger \in {stored.ledger, ledger, ledger'}
      /\ OfReset(stored'.lastReset) \subseteq OfReset(stored.lastReset) \cup OfReset(lastReset) \cup OfReset(lastReset')
  BY <1>1, <1>2
<1> QED
  BY <1>1, <1>3 DEF Held

\* Something new is said: the one kind of step that makes an entry with a time of its own.
Adds == \E net \in Nets, ctx \in Contexts \cup {NoContext} :
          /\ ledger' = Add(ledger, Entry(clock, era, net, ctx))
          /\ clock <= MaxFacts /\ clock' = clock + 1 /\ era' = era
          /\ slip' = slip \cup Dropping(Full(ledger))

\* How the ledger moves: to one that is held, by what is said or said differently, by a reset or its undo.
LEMMA LedgerMoves ==
  ASSUME TypeInv, [Next]_vars
  PROVE  \/ ledger' \in Held
         \/ Adds
         \/ \E net \in Nets : Step(net)
         \/ \E bs \in SUBSET Buckets : Reset(bs)
         \/ UndoReset /\ lastReset.of = "ledger"
<1> DEFINE Goal == \/ ledger' \in Held
                   \/ Adds
                   \/ \E net \in Nets : Step(net)
                   \/ \E bs \in SUBSET Buckets : Reset(bs)
                   \/ UndoReset /\ lastReset.of = "ledger"
<1>0. ledger \in Held /\ blob.ledger \in Held /\ stored.ledger \in Held /\ (undo.kept => undo.ledger \in Held)
  BY DEF Held, OfUndo
<1>1. ASSUME NEW net \in Nets, NEW ctx \in Contexts \cup {NoContext}, NEW learns, FirstStep(net, ctx, learns) PROVE Goal
  BY <1>0, <1>1 DEF FirstStep, Tick, Adds, Dropping
<1>2. ASSUME NEW net \in Nets, NEW ctx \in Contexts \cup {NoContext}, NEW learns, Tap(net, ctx, learns) PROVE Goal
  BY <1>0, <1>2 DEF Tap, Tick, Adds, Dropping
<1>3. ASSUME NEW net \in Nets, NEW ctx \in Contexts, Boost(net, ctx) PROVE Goal
  BY <1>3 DEF Boost, Tick, Adds
<1>4. ASSUME Settles \/ GraceEnds \/ StormEnds \/ HalfLife \/ RunStarts \/ Save \/ ResetWarming \/ Export PROVE Goal
  BY <1>0, <1>4 DEF Settles, GraceEnds, StormEnds, HalfLife, RunStarts, Save, ResetWarming, Export
<1>5. ASSUME SchedulerCausedIt PROVE Goal
  BY <1>0, <1>5 DEF SchedulerCausedIt
<1>6. ASSUME NEW clean, RunEnds(clean) PROVE Goal
  BY <1>0, <1>6 DEF RunEnds
<1>7. ASSUME NEW parts, Import(parts) PROVE Goal
  BY <1>0, <1>7 DEF Import
<1>8. ASSUME Reload \/ Crash PROVE Goal
  <2>1. PICK d \in {Data, stored} : Loaded(d)
    BY <1>8 DEF Reload, Crash
  <2> QED
    BY <1>0, <2>1 DEF Loaded, Data
<1>9. ASSUME UndoReset PROVE Goal
  BY <1>0, <1>9 DEF UndoReset
<1>10. ASSUME NEW net \in Nets, Step(net) PROVE Goal
  BY <1>10
<1>11. ASSUME NEW bs \in SUBSET Buckets, Reset(bs) PROVE Goal
  BY <1>11
<1>12. ASSUME UNCHANGED vars PROVE Goal
  BY <1>0, <1>12 DEF vars
<1> HIDE DEF Goal
<1>13. Goal
  <2>1. CASE Next
    <3>1. NoContext \in Contexts \cup {NoContext} /\ \A ctx \in Contexts : ctx \in Contexts \cup {NoContext}
      OBVIOUS
    <3> QED
      BY <2>1, <3>1, <1>1, <1>2, <1>3, <1>4, <1>5, <1>6, <1>7, <1>8, <1>9, <1>10, <1>11, BothKinds DEF Next
  <2> QED
    BY <2>1, <1>12
<1> QED
  BY <1>13 DEF Goal

\* How the clock, the half-lives and the change that is being folded go on together.
LEMMA ClockMoves ==
  ASSUME TypeInv, [Next]_vars
  PROVE  /\ clock' = clock \/ (clock <= MaxFacts /\ clock' = clock + 1)
         /\ era' = era \/ (era' = era + 1 /\ clock' = clock /\ ~change.pending /\ ledger' = ledger)
         /\ change'.pending => /\ era' = era
                               /\ \/ change.pending /\ change'.at = change.at
                                  \/ ~change.pending /\ change'.at = clock /\ clock' = clock + 1
<1> DEFINE Goal == /\ clock' = clock \/ (clock <= MaxFacts /\ clock' = clock + 1)
                   /\ era' = era \/ (era' = era + 1 /\ clock' = clock /\ ~change.pending /\ ledger' = ledger)
                   /\ change'.pending => /\ era' = era
                                         /\ \/ change.pending /\ change'.at = change.at
                                            \/ ~change.pending /\ change'.at = clock /\ clock' = clock + 1
<1>0. /\ Disturbed(change).pending = change.pending
      /\ change.pending => Disturbed(change).at = change.at
      /\ ~NoChange.pending
  BY DisturbedParts DEF TypeInv, NoChange
<1>1. ASSUME NEW net, NEW ctx, NEW learns, FirstStep(net, ctx, learns) PROVE Goal
  <2>1. change'.at = clock
    BY <1>1 DEF FirstStep
  <2> QED
    BY <1>1, <2>1 DEF FirstStep, Tick
<1>2. ASSUME NEW net, NEW ctx, NEW learns, Tap(net, ctx, learns) PROVE Goal
  BY <1>0, <1>2 DEF Tap, Tick
<1>3. ASSUME NEW net, NEW ctx, Boost(net, ctx) PROVE Goal
  BY <1>0, <1>3 DEF Boost, Tick
<1>4. ASSUME NEW net \in Nets, Step(net) PROVE Goal
  <2>1. change \in Folds /\ change.pending /\ net \in Int
    BY <1>4, NetsInt, ChangeParts DEF Step, TypeInv
  <2> DEFINE x == EntryAtAfter(ledger, change, net)
  <2>2. x \in Nat
    BY <2>1 DEF EntryAtAfter, Folds
  <2>3. change' = Folded(change, net, x)
    BY <1>4 DEF Step, Folded
  <2> HIDE DEF x
  <2>4. change'.at = change.at
    BY <2>1, <2>2, <2>3, FoldsWith
  <2> QED
    BY <1>4, <2>1, <2>4 DEF Step
<1>5. ASSUME Settles \/ GraceEnds \/ StormEnds \/ Save PROVE Goal
  BY <1>0, <1>5 DEF Settles, GraceEnds, StormEnds, Save
<1>6. ASSUME HalfLife PROVE Goal
  BY <1>0, <1>6 DEF HalfLife, Quiet
<1>7. ASSUME RunStarts PROVE Goal
  BY <1>0, <1>7 DEF RunStarts, Tick
<1>8. ASSUME SchedulerCausedIt PROVE Goal
  BY <1>0, <1>8 DEF SchedulerCausedIt
<1>9. ASSUME NEW clean, RunEnds(clean) PROVE Goal
  BY <1>9 DEF RunEnds
<1>10. ASSUME NEW bs, Reset(bs) PROVE Goal
  BY <1>0, <1>10 DEF Reset
<1>11. ASSUME ResetWarming \/ Export PROVE Goal
  BY <1>11 DEF ResetWarming, Export
<1>12. ASSUME UndoReset PROVE Goal
  BY <1>0, <1>12 DEF UndoReset
<1>13. ASSUME NEW parts, Import(parts) PROVE Goal
  BY <1>0, <1>13 DEF Import
<1>14. ASSUME Reload \/ Crash PROVE Goal
  BY <1>0, <1>14 DEF Reload, Crash, Loaded
<1>15. ASSUME UNCHANGED vars PROVE Goal
  BY <1>15 DEF vars
<1> HIDE DEF Goal
<1>16. Goal
  <2>1. CASE Next
    BY <2>1, <1>1, <1>2, <1>3, <1>4, <1>5, <1>6, <1>7, <1>8, <1>9, <1>10, <1>11, <1>12, <1>13, <1>14 DEF Next
  <2> QED
    BY <2>1, <1>15
<1> QED
  BY <1>16 DEF Goal

\* The facts a step can bring: of now, or of the change that is being folded.
LEMMA NewFacts ==
  ASSUME TypeInv, [Next]_vars
  PROVE  \A f \in Facts(ledger') :
           \/ f \in Known
           \/ f.at = clock /\ f.era = era /\ clock' = clock + 1 /\ clock <= MaxFacts /\ era' = era
           \/ change.pending /\ f.at = change.at /\ f.era = era /\ era' = era
<1>0. /\ ledger \in Held /\ Typed(ledger) /\ Facts(ledger) \subseteq Known
      /\ clock \in Nat /\ era \in 0..MaxEra
  BY HeldTyped DEF Held, TypeInv
<1>1. CASE ledger' \in Held
  BY <1>1, HeldTyped
<1>2. CASE Adds
  <2>1. PICK net \in Nets, ctx \in Contexts \cup {NoContext} :
          /\ ledger' = Add(ledger, Entry(clock, era, net, ctx))
          /\ clock <= MaxFacts /\ clock' = clock + 1 /\ era' = era
    BY <1>2 DEF Adds
  <2> DEFINE f == Entry(clock, era, net, ctx)
  <2>2. f \in Fact /\ f.at = clock /\ f.era = era
    BY <1>0, NetsInt, EntryFact
  <2>3. ledger' = Add(ledger, f)
    BY <2>1
  <2> HIDE DEF f
  <2>4. Facts(ledger') \subseteq Facts(ledger) \cup {f}
    BY <1>0, <2>2, <2>3, AddLedger
  <2> QED
    BY <1>0, <2>1, <2>2, <2>4
<1>3. CASE \E net \in Nets : Step(net)
  <2>1. PICK net \in Nets : Step(net)
    BY <1>3
  <2>2. change.pending /\ net \in Int /\ change.at \in Nat /\ ledger' = Amended(ledger, change, net) /\ era' = era
    BY <2>1, NetsInt, ChangeParts DEF Step, TypeInv, Folds
  <2> DEFINE f == Entry(change.at, era, net, change.ctx)
  <2>3. f \in Fact /\ f.at = change.at /\ f.era = era
    BY <1>0, <2>2, EntryFact
  <2>4. \/ ledger' = ledger \/ ledger' = Add(ledger, f)
        \/ ledger.entries # <<>> /\ ledger' \in {DropLast(ledger), AmendLast(ledger, f)}
    BY <2>2 DEF Amended, Present
  <2> HIDE DEF f
  <2>5. Facts(Add(ledger, f)) \subseteq Facts(ledger) \cup {f}
    BY <1>0, <2>3, AddLedger
  <2>6. ledger.entries # <<>> => Facts(DropLast(ledger)) \subseteq Facts(ledger)
    BY <1>0, DropLedger
  <2>7. ledger.entries # <<>> => Facts(AmendLast(ledger, f)) \subseteq Facts(ledger) \cup {f}
    <3>1. ledger.entries # <<>> => Facts(AmendLast(ledger, f)) = Facts(DropLast(ledger)) \cup {f}
      BY <1>0, <2>3, AmendLedger
    <3> QED
      BY <2>6, <3>1
  <2>8. Facts(ledger') \subseteq Facts(ledger) \cup {f}
    BY <2>4, <2>5, <2>6, <2>7
  <2> QED
    BY <1>0, <2>2, <2>3, <2>8
<1>4. CASE \E bs \in SUBSET Buckets : Reset(bs)
  <2>1. PICK bs \in SUBSET Buckets : ledger' = ResetBuckets(ledger, bs)
    BY <1>4 DEF Reset
  <2>2. Facts(ledger') = {f \in Facts(ledger) : f.bucket \notin bs}
    BY <1>0, <2>1, ResetLedger
  <2> QED
    BY <1>0, <2>2
<1>5. CASE UndoReset /\ lastReset.of = "ledger"
  <2>1. ledger' = MergeLedger(ledger, lastReset.ledger, lastReset.buckets)
    BY <1>5 DEF UndoReset
  <2>2. lastReset.ledger \in Held /\ lastReset.buckets \in SUBSET Buckets
    BY <1>5, ResetParts DEF Held, OfReset, TypeInv, LedgerStashes
  <2>3. Typed(lastReset.ledger) /\ Facts(lastReset.ledger) \subseteq Known
    BY <2>2, HeldTyped
  <2>4. Facts(ledger') \subseteq Both(ledger, lastReset.ledger, lastReset.buckets)
    BY <1>0, <2>1, <2>2, <2>3, MergeTyped
  <2> QED
    BY <1>0, <2>3, <2>4 DEF Both
<1> QED
  BY <1>1, <1>2, <1>3, <1>4, <1>5, LedgerMoves

-----------------------------------------------------------------------------
(***************************************************************************)
(* When what is known was said.                                            *)
(***************************************************************************)
TimeInv ==
  /\ \A f \in Known : f.at >= 1 /\ f.at < clock /\ f.era <= era
  /\ \A f, g \in Known : f.at <= g.at => f.era <= g.era
  /\ change.pending => /\ change.at >= 1 /\ change.at < clock
                       /\ \A f \in Known : f.at >= change.at => f.era = era
  /\ \A l \in Held : Ordered(l)

\* Nothing is known at first.
LEMMA TimeStarts == Init => TimeInv
<1> SUFFICES ASSUME Init PROVE TimeInv
  OBVIOUS
<1>1. \A l \in Held : l = EmptyLedger
  BY DEF Init, Held, OfChange, OfUndo, OfReset, Data, NoChange, NoUndo, NoReset, NoBlob
<1>2. Facts(EmptyLedger) = {} /\ Ordered(EmptyLedger)
  BY EmptyTyped
<1>3. Known = {}
  BY <1>1, <1>2 DEF Known
<1> QED
  BY <1>1, <1>2, <1>3 DEF Init, TimeInv, NoChange

\* A ledger that is made by a step is in the order of the half-lives like those it is made from.
LEMMA OrderKept ==
  ASSUME TypeInv, TimeInv, [Next]_vars
  PROVE  Ordered(ledger')
<1>0. /\ ledger \in Held /\ Typed(ledger) /\ Facts(ledger) \subseteq Known /\ Ordered(ledger)
      /\ clock \in Nat /\ era \in 0..MaxEra /\ \A g \in Facts(ledger) : g.era <= era
  BY HeldTyped DEF Held, TypeInv, TimeInv
<1>1. CASE ledger' \in Held
  BY <1>1 DEF TimeInv
<1>2. CASE Adds
  <2>1. PICK net \in Nets, ctx \in Contexts \cup {NoContext} : ledger' = Add(ledger, Entry(clock, era, net, ctx))
    BY <1>2 DEF Adds
  <2> DEFINE f == Entry(clock, era, net, ctx)
  <2>2. f \in Fact /\ f.era = era /\ ledger' = Add(ledger, f)
    BY <1>0, <2>1, NetsInt, EntryFact
  <2> HIDE DEF f
  <2> QED
    BY <1>0, <2>2, AddLedger
<1>3. CASE \E net \in Nets : Step(net)
  <2>1. PICK net \in Nets : Step(net)
    BY <1>3
  <2>2. change.pending /\ net \in Int /\ change.at \in Nat /\ ledger' = Amended(ledger, change, net)
    BY <2>1, NetsInt, ChangeParts DEF Step, TypeInv, Folds
  <2> DEFINE f == Entry(change.at, era, net, change.ctx)
  <2>3. f \in Fact /\ f.era = era
    BY <1>0, <2>2, EntryFact
  <2>4. \/ ledger' = ledger \/ ledger' = Add(ledger, f)
        \/ ledger.entries # <<>> /\ ledger' \in {DropLast(ledger), AmendLast(ledger, f)}
    BY <2>2 DEF Amended, Present
  <2> HIDE DEF f
  <2>5. Ordered(Add(ledger, f))
    BY <1>0, <2>3, AddLedger
  <2>6. ledger.entries # <<>> => Ordered(DropLast(ledger))
    BY <1>0, DropLedger
  <2>7. ledger.entries # <<>> => Ordered(AmendLast(ledger, f))
    BY <1>0, <2>3, AmendLedger
  <2> QED
    BY <1>0, <2>4, <2>5, <2>6, <2>7
<1>4. CASE \E bs \in SUBSET Buckets : Reset(bs)
  <2>1. PICK bs \in SUBSET Buckets : ledger' = ResetBuckets(ledger, bs)
    BY <1>4 DEF Reset
  <2> QED
    BY <1>0, <2>1, ResetLedger
<1>5. CASE UndoReset /\ lastReset.of = "ledger"
  <2>1. ledger' = MergeLedger(ledger, lastReset.ledger, lastReset.buckets)
    BY <1>5 DEF UndoReset
  <2>2. lastReset.ledger \in Held /\ lastReset.buckets \in SUBSET Buckets
    BY <1>5, ResetParts DEF Held, OfReset, TypeInv, LedgerStashes
  <2>3. Typed(lastReset.ledger) /\ Facts(lastReset.ledger) \subseteq Known
    BY <2>2, HeldTyped
  <2>4. \A f, g \in Both(ledger, lastReset.ledger, lastReset.buckets) : f.at <= g.at => f.era <= g.era
    BY <1>0, <2>3 DEF Both, TimeInv
  <2> QED
    BY <1>0, <2>1, <2>2, <2>3, <2>4, MergeTyped
<1> QED
  BY <1>1, <1>2, <1>3, <1>4, <1>5, LedgerMoves

\* What is known after a step was known before, or is of now, or of the change being folded.
LEMMA KnownKept ==
  ASSUME TypeInv, [Next]_vars
  PROVE  \A f \in Known' :
           /\ f.at \in Nat /\ f.era \in Nat
           /\ \/ f \in Known
              \/ f.at = clock /\ f.era = era /\ clock' = clock + 1 /\ clock <= MaxFacts /\ era' = era
              \/ change.pending /\ f.at = change.at /\ f.era = era /\ era' = era
<1>1. SUFFICES ASSUME NEW f \in Known'
               PROVE  /\ f.at \in Nat /\ f.era \in Nat
                      /\ \/ f \in Known
                         \/ f.at = clock /\ f.era = era /\ clock' = clock + 1 /\ clock <= MaxFacts /\ era' = era
                         \/ change.pending /\ f.at = change.at /\ f.era = era /\ era' = era
  OBVIOUS
<1>2. f \in Fact /\ \E l \in Held' : f \in Facts(l)
  BY DEF Known
<1>3. PICK l \in Held' : f \in Facts(l)
  BY <1>2
<1>4. l \in Held \/ l = ledger'
  BY HeldKept
<1>5. f.at \in Nat /\ f.era \in Nat
  BY <1>2, FactFields, Eras
<1>6. CASE l \in Held
  BY <1>3, <1>5, <1>6, HeldTyped
<1>7. CASE l = ledger'
  BY <1>3, <1>5, <1>7, NewFacts
<1> QED
  BY <1>4, <1>6, <1>7

\* Every step keeps the order of what is known.
LEMMA TimeKept == TypeInv /\ TimeInv /\ [Next]_vars => TimeInv'
<1> SUFFICES ASSUME TypeInv, TimeInv, [Next]_vars PROVE TimeInv'
  OBVIOUS
<1>0. clock \in Nat /\ clock >= 1 /\ era \in Nat
  BY Eras DEF TypeInv
<1>1. /\ clock' = clock \/ clock' = clock + 1
      /\ era' = era \/ (era' = era + 1 /\ clock' = clock /\ ~change.pending /\ ledger' = ledger)
      /\ change'.pending => /\ era' = era
                            /\ \/ change.pending /\ change'.at = change.at
                               \/ ~change.pending /\ change'.at = clock /\ clock' = clock + 1
  BY ClockMoves
<1>2. change.pending => change.at \in Nat
  BY ChangeParts DEF TypeInv, Folds
<1>3. /\ \A f \in Known : f.at >= 1 /\ f.at < clock /\ f.era <= era
      /\ \A f, g \in Known : f.at <= g.at => f.era <= g.era
      /\ change.pending => /\ change.at >= 1 /\ change.at < clock
                           /\ \A f \in Known : f.at >= change.at => f.era = era
  BY DEF TimeInv
<1> DEFINE New(f) == \/ f \in Known
                     \/ f.at = clock /\ f.era = era /\ clock' = clock + 1 /\ era' = era
                     \/ change.pending /\ f.at = change.at /\ f.era = era /\ era' = era
<1>4. \A f \in Known' : f.at \in Nat /\ f.era \in Nat /\ New(f)
  BY KnownKept
<1>5. ASSUME NEW f \in Known' PROVE f.at >= 1 /\ f.at < clock' /\ f.era <= era'
  <2>1. f.at \in Nat /\ f.era \in Nat /\ New(f)
    BY <1>4
  <2> QED
    BY <2>1, <1>0, <1>1, <1>2, <1>3
<1>6. ASSUME NEW f \in Known', NEW g \in Known', f.at <= g.at PROVE f.era <= g.era
  <2>1. f.at \in Nat /\ f.era \in Nat /\ New(f) /\ g.at \in Nat /\ g.era \in Nat /\ New(g)
    BY <1>4
  <2> QED
    BY <2>1, <1>0, <1>2, <1>3, <1>6
<1>7. ASSUME change'.pending PROVE change'.at >= 1 /\ change'.at < clock'
  BY <1>0, <1>1, <1>2, <1>3, <1>7
<1>8. ASSUME change'.pending, NEW f \in Known', f.at >= change'.at PROVE f.era = era'
  <2>1. f.at \in Nat /\ f.era \in Nat /\ New(f)
    BY <1>4
  <2> QED
    BY <2>1, <1>0, <1>1, <1>2, <1>3, <1>8
<1>9. \A l \in Held' : Ordered(l)
  BY HeldKept, OrderKept DEF TimeInv
<1> HIDE DEF New
<1> QED
  BY <1>5, <1>6, <1>7, <1>8, <1>9 DEF TimeInv

-----------------------------------------------------------------------------
(***************************************************************************)
(* What a step of a change does, case by case.                             *)
(***************************************************************************)
\* The entry as the step says it.
Stepped(net) == Entry(change.at, era, net, change.ctx)

Aside == slip' = slip /\ gone' = gone /\ lastReset' = lastReset

\* Nothing is there to be changed; it is taken back; it is amended; it is said again.
StepsBy(net) == /\ ledger' = ledger /\ Aside
                /\ change.learns => ~Present(ledger, change) /\ change'.entryAt = change.entryAt
                /\ change.learns /\ net # 0 => change.entryAt # 0
StepsBack(net) == /\ ledger' = DropLast(ledger) /\ Aside
                  /\ change.learns /\ net = 0 /\ Present(ledger, change) /\ change'.entryAt = 0
StepsOn(net) == /\ ledger' = AmendLast(ledger, Stepped(net)) /\ Aside
                /\ change.learns /\ net # 0 /\ Present(ledger, change) /\ change'.entryAt = change.at
StepsAgain(net) == /\ ledger' = Add(ledger, Stepped(net))
                   /\ change.learns /\ net # 0 /\ change.entryAt = 0 /\ change'.entryAt = change.at
                   /\ slip' = slip \cup (IF change.at \in Ats(ledger, Buckets) THEN {"doubled"} ELSE {})
                                   \cup Dropping(Full(ledger))
                   /\ gone' = [gone EXCEPT !.facts = @ \ {change.at}]
                   /\ lastReset' = IF change.at \in Stashed(lastReset) THEN Spoilt(lastReset) ELSE lastReset

\* Each step is one of the four.
LEMMA StepParts ==
  ASSUME TypeInv, TimeInv, NEW net \in Nets, Step(net)
  PROVE  /\ net \in Int /\ change.pending /\ change \in Folds /\ change.at \in Nat /\ change.entryAt \in {0, change.at}
         /\ Stepped(net) \in Fact /\ Stepped(net).at = change.at /\ Stepped(net).era = era
         /\ change'.pending /\ change'.net = net /\ change'.at = change.at /\ change'.ctx = change.ctx
         /\ change'.learns = change.learns /\ change'.before = change.before /\ change'.alone = change.alone
         /\ UNCHANGED <<undo, blob, runs, heating, stored, clock, era, stormFrom>>
         /\ Present(ledger, change) => /\ ledger.entries # <<>> /\ Last(ledger.entries).at = change.at
                                       /\ change.entryAt = change.at
         /\ StepsBy(net) \/ StepsBack(net) \/ StepsOn(net) \/ StepsAgain(net)
<1>1. /\ net \in Int /\ change.pending /\ change \in Folds /\ change.at \in Nat /\ change.entryAt \in {0, change.at}
      /\ change.at >= 1 /\ era \in 0..MaxEra
  BY NetsInt, ChangeParts DEF Step, TypeInv, TimeInv, Folds
<1>2. Stepped(net) \in Fact /\ Stepped(net).at = change.at /\ Stepped(net).era = era
  BY <1>1, EntryFact DEF Stepped
<1> DEFINE x == EntryAtAfter(ledger, change, net)
<1>3. x \in Nat
  BY <1>1 DEF EntryAtAfter
<1>4. change' = Folded(change, net, x)
  BY DEF Step, Folded
<1>5. /\ change'.pending /\ change'.net = net /\ change'.at = change.at /\ change'.ctx = change.ctx
      /\ change'.learns = change.learns /\ change'.before = change.before /\ change'.alone = change.alone
      /\ change'.entryAt = x
  <2> HIDE DEF x
  <2> QED
    BY <1>1, <1>3, <1>4, FoldsWith
<1>6. Present(ledger, change) => /\ ledger.entries # <<>> /\ Last(ledger.entries).at = change.at
                                 /\ change.entryAt = change.at
  BY <1>1 DEF Present
<1>7. /\ ledger' = Amended(ledger, change, net)
      /\ UNCHANGED <<undo, blob, runs, heating, stored, clock, era, stormFrom>>
  BY DEF Step
<1> DEFINE again == change.entryAt = 0 /\ change'.entryAt # 0
<1>8. ~again => Aside
  BY DEF Step, Dropping, Aside
<1>9. again => /\ slip' = slip \cup (IF change.at \in Ats(ledger, Buckets) THEN {"doubled"} ELSE {})
                               \cup Dropping(Full(ledger))
               /\ gone' = [gone EXCEPT !.facts = @ \ {change.at}]
               /\ lastReset' = IF change.at \in Stashed(lastReset) THEN Spoilt(lastReset) ELSE lastReset
  BY DEF Step, Dropping
<1>10. CASE ~change.learns
  <2>1. ledger' = ledger /\ x = 0
    BY <1>7, <1>10 DEF Amended, EntryAtAfter
  <2>2. StepsBy(net)
    BY <1>5, <1>8, <1>10, <2>1 DEF StepsBy
  <2> QED
    BY <1>1, <1>2, <1>5, <1>6, <1>7, <2>2
<1>11. CASE change.learns /\ net = 0 /\ Present(ledger, change)
  <2>1. ledger' = DropLast(ledger) /\ x = 0
    BY <1>7, <1>11 DEF Amended, EntryAtAfter
  <2>2. StepsBack(net)
    BY <1>5, <1>8, <1>11, <2>1 DEF StepsBack
  <2> QED
    BY <1>1, <1>2, <1>5, <1>6, <1>7, <2>2
<1>12. CASE change.learns /\ net = 0 /\ ~Present(ledger, change)
  <2>1. ledger' = ledger /\ x = change.entryAt
    BY <1>7, <1>12 DEF Amended, EntryAtAfter
  <2>2. StepsBy(net)
    BY <1>5, <1>8, <1>12, <2>1 DEF StepsBy
  <2> QED
    BY <1>1, <1>2, <1>5, <1>6, <1>7, <2>2
<1>13. CASE change.learns /\ net # 0 /\ Present(ledger, change)
  <2>1. ledger' = AmendLast(ledger, Stepped(net)) /\ x = change.at
    BY <1>1, <1>6, <1>7, <1>13 DEF Amended, EntryAtAfter, Stepped
  <2>2. StepsOn(net)
    BY <1>1, <1>5, <1>6, <1>8, <1>13, <2>1 DEF StepsOn
  <2> QED
    BY <1>1, <1>2, <1>5, <1>6, <1>7, <2>2
<1>14. CASE change.learns /\ net # 0 /\ ~Present(ledger, change) /\ change.entryAt = 0
  <2>1. ledger' = Add(ledger, Stepped(net)) /\ x = change.at
    BY <1>7, <1>14 DEF Amended, EntryAtAfter, Stepped
  <2>2. StepsAgain(net)
    BY <1>1, <1>5, <1>9, <1>14, <2>1 DEF StepsAgain
  <2> QED
    BY <1>1, <1>2, <1>5, <1>6, <1>7, <2>2
<1>15. CASE change.learns /\ net # 0 /\ ~Present(ledger, change) /\ change.entryAt # 0
  <2>1. ledger' = ledger /\ x = change.entryAt
    BY <1>7, <1>15 DEF Amended, EntryAtAfter
  <2>2. StepsBy(net)
    BY <1>5, <1>8, <1>15, <2>1 DEF StepsBy
  <2> QED
    BY <1>1, <1>2, <1>5, <1>6, <1>7, <2>2
<1> QED
  BY <1>10, <1>11, <1>12, <1>13, <1>14, <1>15

\* Nothing is forgotten of what has slipped.
LEMMA SlipGrows ==
  ASSUME [Next]_vars
  PROVE  slip \subseteq slip'
<1> DEFINE Goal == slip \subseteq slip'
<1>1. ASSUME NEW net, NEW ctx, NEW learns, FirstStep(net, ctx, learns) \/ Tap(net, ctx, learns) PROVE Goal
  BY <1>1 DEF FirstStep, Tap
<1>2. ASSUME NEW net, NEW ctx, Boost(net, ctx) PROVE Goal
  BY <1>2 DEF Boost
<1>3. ASSUME NEW net, Step(net) PROVE Goal
  BY <1>3 DEF Step
<1>4. ASSUME Settles \/ GraceEnds \/ StormEnds \/ HalfLife \/ RunStarts \/ Save \/ SchedulerCausedIt PROVE Goal
  BY <1>4 DEF Settles, GraceEnds, StormEnds, HalfLife, RunStarts, Save, SchedulerCausedIt
<1>5. ASSUME NEW clean, RunEnds(clean) PROVE Goal
  BY <1>5 DEF RunEnds
<1>6. ASSUME NEW bs, Reset(bs) PROVE Goal
  BY <1>6 DEF Reset
<1>7. ASSUME ResetWarming \/ UndoReset \/ Export PROVE Goal
  BY <1>7 DEF ResetWarming, UndoReset, Export
<1>8. ASSUME NEW parts, Import(parts) PROVE Goal
  BY <1>8 DEF Import
<1>9. ASSUME Reload \/ Crash PROVE Goal
  BY <1>9 DEF Reload, Crash, Loaded
<1>10. ASSUME UNCHANGED vars PROVE Goal
  BY <1>10 DEF vars
<1> HIDE DEF Goal
<1>11. Goal
  <2>1. CASE Next
    BY <2>1, <1>1, <1>2, <1>3, <1>4, <1>5, <1>6, <1>7, <1>8, <1>9 DEF Next
  <2> QED
    BY <2>1, <1>10
<1> QED
  BY <1>11 DEF Goal

-----------------------------------------------------------------------------
(***************************************************************************)
(* Nothing counts twice.                                                   *)
(***************************************************************************)
\* A stash and a ledger that have nothing in common.
Beside(r, l) ==
  r.of = "ledger" /\ r.alone => \A f \in Facts(l), g \in Facts(r.ledger) : g.bucket \in r.buckets => f.at # g.at

OnceInv == "doubled" \notin slip =>
  /\ \A l \in Held : Distinct(l)
  /\ Beside(lastReset, ledger) /\ Beside(stored.lastReset, stored.ledger)
  /\ undo.kept /\ undo.alone => Beside(lastReset, undo.ledger)

\* Nothing is said twice at first.
LEMMA OnceStarts == Init => OnceInv
<1> SUFFICES ASSUME Init PROVE OnceInv
  OBVIOUS
<1>1. \A l \in Held : l = EmptyLedger
  BY DEF Init, Held, OfChange, OfUndo, OfReset, Data, NoChange, NoUndo, NoReset, NoBlob
<1>2. Distinct(EmptyLedger)
  BY EmptyTyped
<1>3. lastReset.of # "ledger" /\ stored.lastReset.of # "ledger" /\ ~undo.kept
  BY DEF Init, Data, NoReset, NoUndo
<1> QED
  BY <1>1, <1>2, <1>3 DEF OnceInv, Beside

\* The ledger says nothing twice after a step if no slip of that kind has happened.
LEMMA DistinctKept ==
  ASSUME TypeInv, TimeInv, OnceInv, [Next]_vars, "doubled" \notin slip'
  PROVE  Distinct(ledger')
<1>0. /\ ledger \in Held /\ Typed(ledger) /\ Facts(ledger) \subseteq Known /\ Distinct(ledger) /\ "doubled" \notin slip
      /\ clock \in Nat /\ era \in 0..MaxEra /\ \A g \in Facts(ledger) : g.at < clock
  BY HeldTyped, SlipGrows DEF Held, TypeInv, TimeInv, OnceInv
<1>1. CASE ledger' \in Held
  BY <1>0, <1>1 DEF OnceInv
<1>2. CASE Adds
  <2>1. PICK net \in Nets, ctx \in Contexts \cup {NoContext} : ledger' = Add(ledger, Entry(clock, era, net, ctx))
    BY <1>2 DEF Adds
  <2> DEFINE f == Entry(clock, era, net, ctx)
  <2>2. f \in Fact /\ f.at = clock /\ ledger' = Add(ledger, f)
    BY <1>0, <2>1, NetsInt, EntryFact
  <2> HIDE DEF f
  <2>3. \A g \in Facts(ledger) : g.at # f.at
    BY <1>0, <2>2, FactFields DEF Known
  <2> QED
    BY <1>0, <2>2, <2>3, AddLedger
<1>3. CASE \E net \in Nets : Step(net)
  <2>1. PICK net \in Nets : Step(net)
    BY <1>3
  <2> DEFINE f == Stepped(net)
  <2>2. /\ f \in Fact /\ f.at = change.at
        /\ Present(ledger, change) => ledger.entries # <<>> /\ Last(ledger.entries).at = change.at
        /\ StepsBy(net) \/ StepsBack(net) \/ StepsOn(net) \/ StepsAgain(net)
    BY <2>1, StepParts
  <2>3. CASE StepsBy(net)
    BY <1>0, <2>3 DEF StepsBy
  <2>4. CASE StepsBack(net)
    BY <1>0, <2>2, <2>4, DropLedger DEF StepsBack
  <2>5. CASE StepsOn(net)
    <3>1. ledger' = AmendLast(ledger, f) /\ ledger.entries # <<>> /\ f.at = Last(ledger.entries).at
      BY <2>2, <2>5 DEF StepsOn
    <3> HIDE DEF f
    <3> QED
      BY <1>0, <2>2, <3>1, AmendLedger
  <2>6. CASE StepsAgain(net)
    <3>1. ledger' = Add(ledger, f) /\ change.at \notin Ats(ledger, Buckets)
      BY <2>6 DEF StepsAgain
    <3> HIDE DEF f
    <3>2. \A g \in Facts(ledger) : g.at # f.at
      BY <1>0, <2>2, <3>1, AtsAll DEF Typed
    <3> QED
      BY <1>0, <2>2, <3>1, <3>2, AddLedger
  <2> QED
    BY <2>2, <2>3, <2>4, <2>5, <2>6
<1>4. CASE \E bs \in SUBSET Buckets : Reset(bs)
  <2>1. PICK bs \in SUBSET Buckets : ledger' = ResetBuckets(ledger, bs)
    BY <1>4 DEF Reset
  <2> QED
    BY <1>0, <2>1, ResetLedger
<1>5. CASE UndoReset /\ lastReset.of = "ledger"
  <2> DEFINE k == lastReset.ledger
             bs == lastReset.buckets
  <2>1. ledger' = MergeLedger(ledger, k, bs)
    BY <1>5 DEF UndoReset
  <2>2. k \in Held /\ bs \in SUBSET Buckets
    BY <1>5, ResetParts DEF Held, OfReset, TypeInv, LedgerStashes
  <2>3. Typed(k) /\ Distinct(k)
    BY <1>0, <2>2, HeldTyped DEF OnceInv
  <2>4. lastReset.alone
    BY <1>5 DEF UndoReset, AlreadyBack
  <2>5. \A f \in Facts(ledger), g \in Facts(k) : g.bucket \in bs => f.at # g.at
    BY <1>0, <1>5, <2>4 DEF OnceInv, Beside
  <2> HIDE DEF k, bs
  <2>6. Apart(Merged(ledger, k, bs))
    BY <1>0, <2>2, <2>3, <2>5, MergedParts
  <2> QED
    BY <1>0, <2>1, <2>2, <2>3, <2>6, MergeTyped
<1> QED
  BY <1>1, <1>2, <1>3, <1>4, <1>5, LedgerMoves

\* A ledger all of whose facts are of a time that another has a fact of.
LEMMA BesideAlso ==
  ASSUME NEW r, NEW l, NEW m, Beside(r, l), \A f \in Facts(m) : \E h \in Facts(l) : h.at = f.at
  PROVE  Beside(r, m)
BY DEF Beside

\* One entry more, of a time the stash does not know.
LEMMA BesideAdded ==
  ASSUME NEW r, NEW l, NEW m, Beside(r, l), NEW f, Facts(m) \subseteq Facts(l) \cup {f},
         r.of = "ledger" => \A g \in Facts(r.ledger) : g.bucket \in r.buckets => g.at # f.at
  PROVE  Beside(r, m)
BY DEF Beside

\* What is said now is not in any stash.
LEMMA BesideNow ==
  ASSUME TypeInv, TimeInv, Beside(lastReset, ledger), NEW net \in Nets, NEW ctx
  PROVE  Beside(lastReset, Add(ledger, Entry(clock, era, net, ctx)))
<1> DEFINE f == Entry(clock, era, net, ctx)
<1>1. f \in Fact /\ f.at = clock /\ Typed(ledger) /\ clock \in Nat
  BY NetsInt, EntryFact, HeldTyped DEF Held, TypeInv
<1>2. ASSUME lastReset.of = "ledger" PROVE \A g \in Facts(lastReset.ledger) : g.at # f.at
  <2>1. lastReset.ledger \in Held
    BY <1>2 DEF Held, OfReset
  <2>2. Facts(lastReset.ledger) \subseteq Known /\ \A g \in Known : g.at < clock
    BY <2>1, HeldTyped DEF TimeInv
  <2>3. \A g \in Known : g.at \in Nat
    BY FactFields DEF Known
  <2> HIDE DEF f
  <2> QED
    BY <1>1, <2>2, <2>3
<1> HIDE DEF f
<1>3. Facts(Add(ledger, f)) \subseteq Facts(ledger) \cup {f}
  BY <1>1, AddLedger
<1> QED
  BY <1>2, <1>3, BesideAdded DEF f

\* A spoilt stash promises nothing.
LEMMA BesideSpoilt ==
  ASSUME NEW r \in Resets, NEW l
  PROVE  /\ r.of = "ledger" => Beside(Spoilt(r), l) /\ Beside([r EXCEPT !.alone = FALSE], l)
         /\ r.of = "warming" => Beside([r EXCEPT !.alone = FALSE], l)
         /\ Beside(r, l) => Beside(Spoilt(r), l)
<1>1. r.of = "ledger" => Spoilt(r) = [r EXCEPT !.alone = FALSE] /\ ~[r EXCEPT !.alone = FALSE].alone
  BY SpoiltParts DEF Spoilt
<1>2. r.of = "warming" => [r EXCEPT !.alone = FALSE].of = "warming"
  BY SpoiltParts
<1>3. r.of # "ledger" => Spoilt(r) = r
  BY DEF Spoilt
<1> QED
  BY <1>1, <1>2, <1>3 DEF Beside

\* The stash and the ledgers it may be put back into stay apart, unless it is spoilt.
LEMMA BesideKept ==
  ASSUME TypeInv, TimeInv, OnceInv, [Next]_vars, "doubled" \notin slip'
  PROVE  /\ Beside(lastReset', ledger')
         /\ undo'.kept /\ undo'.alone => Beside(lastReset', undo'.ledger)
<1> DEFINE Goal == /\ Beside(lastReset', ledger')
                   /\ undo'.kept /\ undo'.alone => Beside(lastReset', undo'.ledger)
<1>0. /\ Beside(lastReset, ledger) /\ Beside(stored.lastReset, stored.ledger)
      /\ undo.kept /\ undo.alone => Beside(lastReset, undo.ledger)
      /\ Distinct(ledger)
  BY SlipGrows DEF OnceInv, Held
<1>a. /\ ~NoUndo.kept /\ ~(Outdated(undo).kept /\ Outdated(undo).alone) /\ lastReset \in Resets
      /\ Typed(ledger) /\ ledger \in Held
  BY UndoParts, HeldTyped DEF NoUndo, TypeInv, Held
<1>b. \A net \in Nets : \A ctx : Beside(lastReset, Add(ledger, Entry(clock, era, net, ctx)))
  BY <1>0, BesideNow
<1>1. ASSUME NEW net \in Nets, NEW ctx, NEW learns, FirstStep(net, ctx, learns) \/ Tap(net, ctx, learns) PROVE Goal
  <2>1. lastReset' = lastReset /\ undo'.ledger = ledger
    BY <1>1 DEF FirstStep, Tap, Capture
  <2>2. ledger' = ledger \/ ledger' = Add(ledger, Entry(clock, era, net, ctx))
    BY <1>1 DEF FirstStep, Tap
  <2> QED
    BY <1>0, <1>b, <2>1, <2>2
<1>2. ASSUME NEW net \in Nets, NEW ctx, Boost(net, ctx) PROVE Goal
  BY <1>a, <1>b, <1>2 DEF Boost
<1>3. ASSUME NEW net \in Nets, Step(net) PROVE Goal
  <2> DEFINE f == Stepped(net)
  <2>1. /\ undo' = undo /\ f \in Fact /\ f.at = change.at
        /\ Present(ledger, change) => ledger.entries # <<>> /\ Last(ledger.entries).at = change.at
        /\ StepsBy(net) \/ StepsBack(net) \/ StepsOn(net) \/ StepsAgain(net)
    BY <1>3, StepParts
  <2>2. CASE StepsBy(net)
    BY <1>0, <2>1, <2>2 DEF StepsBy, Aside
  <2>3. CASE StepsBack(net) \/ StepsOn(net)
    <3>1. ledger.entries # <<>> /\ lastReset' = lastReset /\ Last(ledger.entries).at = f.at
          /\ ledger' \in {DropLast(ledger), AmendLast(ledger, f)}
      BY <2>1, <2>3 DEF StepsBack, StepsOn, Aside
    <3> HIDE DEF f
    <3>2. Facts(ledger) = Facts(DropLast(ledger)) \cup {Last(ledger.entries)}
      BY <1>a, <3>1, DropLedger
    <3>3. Facts(AmendLast(ledger, f)) = Facts(DropLast(ledger)) \cup {f}
      BY <1>a, <2>1, <3>1, AmendLedger
    <3>4. \A g \in Facts(ledger') : \E h \in Facts(ledger) : h.at = g.at
      BY <3>1, <3>2, <3>3
    <3> QED
      BY <1>0, <2>1, <3>1, <3>4, BesideAlso
  <2>4. CASE StepsAgain(net)
    <3>1. ledger' = Add(ledger, f)
          /\ lastReset' = IF change.at \in Stashed(lastReset) THEN Spoilt(lastReset) ELSE lastReset
      BY <2>4 DEF StepsAgain
    <3> HIDE DEF f
    <3>2. Facts(ledger') \subseteq Facts(ledger) \cup {f}
      BY <1>a, <2>1, <3>1, AddLedger
    <3>3. CASE change.at \in Stashed(lastReset)
      <4>1. lastReset.of = "ledger"
        BY <3>3 DEF Stashed
      <4> QED
        BY <1>a, <3>1, <3>3, <4>1, BesideSpoilt
    <3>4. CASE change.at \notin Stashed(lastReset)
      <4>1. lastReset.of = "ledger" => \A g \in Facts(lastReset.ledger) : g.bucket \in lastReset.buckets => g.at # f.at
        BY <2>1, <3>4, AtsOfLedger DEF Stashed
      <4> QED
        BY <1>0, <2>1, <3>1, <3>2, <3>4, <4>1, BesideAdded
    <3> QED
      BY <3>3, <3>4
  <2> QED
    BY <2>1, <2>2, <2>3, <2>4
<1>4. ASSUME Settles \/ GraceEnds \/ StormEnds \/ HalfLife \/ RunStarts \/ Save \/ Export PROVE Goal
  BY <1>0, <1>a, <1>4 DEF Settles, GraceEnds, StormEnds, HalfLife, RunStarts, Save, Export
<1>5. ASSUME SchedulerCausedIt PROVE Goal
  <2>1. undo.kept /\ ledger' = undo.ledger /\ undo' = NoUndo
        /\ lastReset' = IF undo.alone THEN lastReset ELSE Spoilt(lastReset)
    BY <1>5 DEF SchedulerCausedIt
  <2>2. Beside(Spoilt(lastReset), undo.ledger)
    <3>1. lastReset.of # "ledger" => Spoilt(lastReset) = lastReset /\ Beside(lastReset, undo.ledger)
      BY DEF Spoilt, Beside
    <3> QED
      BY <1>a, <3>1, BesideSpoilt
  <2> QED
    BY <1>0, <1>a, <2>1, <2>2
<1>6. ASSUME NEW clean, RunEnds(clean) PROVE Goal
  BY <1>0, <1>6 DEF RunEnds
<1>7. ASSUME NEW bs \in SUBSET Buckets, Reset(bs) PROVE Goal
  <2>1. ledger' = ResetBuckets(ledger, bs) /\ undo' = Outdated(undo)
    BY <1>7 DEF Reset
  <2>2. Facts(ledger') = {f \in Facts(ledger) : f.bucket \notin bs}
    BY <1>a, <2>1, ResetLedger
  <2>3. CASE HasContent(ledger, bs)
    <3>1. lastReset'.ledger = ledger /\ lastReset'.buckets = bs
      BY <1>7, <2>3 DEF Reset
    <3>2. \A f, g \in Facts(ledger) : f # g => f.at # g.at
      <4>1. \A i, j \in DOMAIN ledger.entries : i # j => ledger.entries[i].at # ledger.entries[j].at
        BY <1>0 DEF Distinct, Apart
      <4>2. \A f \in Facts(ledger) : \E i \in DOMAIN ledger.entries : f = ledger.entries[i]
        BY DEF Facts, ToSet
      <4> QED
        BY <4>1, <4>2
    <3>3. \A f \in Facts(ledger'), g \in Facts(ledger) : g.bucket \in bs => f.at # g.at
      BY <2>2, <3>2
    <3>4. Beside(lastReset', ledger')
      BY <3>1, <3>3 DEF Beside
    <3> QED
      BY <1>a, <2>1, <3>4
  <2>4. CASE ~HasContent(ledger, bs)
    <3>1. lastReset' = lastReset
      BY <1>7, <2>4 DEF Reset
    <3>2. \A g \in Facts(ledger') : \E h \in Facts(ledger) : h.at = g.at
      BY <2>2
    <3>3. Beside(lastReset, ledger')
      BY <1>0, <3>2, BesideAlso
    <3> QED
      BY <1>a, <2>1, <3>1, <3>3
  <2> QED
    BY <2>3, <2>4
<1>8. ASSUME ResetWarming PROVE Goal
  <2>1. lastReset' = lastReset \/ lastReset'.of = "warming"
    BY <1>8 DEF ResetWarming
  <2>2. ledger' = ledger /\ undo' = undo
    BY <1>8 DEF ResetWarming
  <2>3. lastReset'.of = "warming" => \A l : Beside(lastReset', l)
    BY DEF Beside
  <2> QED
    BY <1>0, <2>1, <2>2, <2>3
<1>9. ASSUME UndoReset PROVE Goal
  <2>1. lastReset' = NoReset /\ undo' = Outdated(undo)
    BY <1>9 DEF UndoReset
  <2>2. \A l : Beside(NoReset, l)
    BY DEF Beside, NoReset
  <2> QED
    BY <1>a, <2>1, <2>2
<1>10. ASSUME NEW parts, Import(parts) PROVE Goal
  <2>1. CASE "ledger" \in parts
    <3>1. undo' = Outdated(undo)
      BY <1>10, <2>1 DEF Import
    <3>2. CASE lastReset.of = "ledger"
      <4>1. lastReset' = [lastReset EXCEPT !.alone = FALSE]
        BY <1>10, <2>1, <3>2 DEF Import
      <4>2. Beside(lastReset', ledger')
        BY <1>a, <3>2, <4>1, BesideSpoilt
      <4> QED
        BY <1>a, <3>1, <4>2
    <3>3. CASE lastReset.of # "ledger"
      <4>1. \/ lastReset' = lastReset
            \/ lastReset' = [lastReset EXCEPT !.alone = FALSE] /\ lastReset.of = "warming"
        BY <1>10, <3>3 DEF Import
      <4>2. lastReset'.of # "ledger"
        BY <1>a, <3>3, <4>1, SpoiltParts
      <4>3. Beside(lastReset', ledger')
        BY <4>2 DEF Beside
      <4> QED
        BY <1>a, <3>1, <4>3
    <3> QED
      BY <3>2, <3>3
  <2>2. CASE "ledger" \notin parts
    <3>1. ledger' = ledger /\ undo' = undo
      BY <1>10, <2>2 DEF Import
    <3>2. CASE lastReset' = lastReset
      BY <1>0, <3>1, <3>2
    <3>3. CASE lastReset' # lastReset
      <4>1. lastReset.of = "warming" /\ lastReset' = [lastReset EXCEPT !.alone = FALSE]
        BY <1>10, <2>2, <3>3 DEF Import
      <4>2. lastReset'.of = "warming"
        BY <1>a, <4>1, SpoiltParts
      <4>3. \A l : Beside(lastReset', l)
        BY <4>2 DEF Beside
      <4> QED
        BY <4>3
    <3> QED
      BY <3>2, <3>3
  <2> QED
    BY <2>1, <2>2
<1>11. ASSUME Reload \/ Crash PROVE Goal
  <2>1. PICK d \in {Data, stored} : Loaded(d)
    BY <1>11 DEF Reload, Crash
  <2>2. Beside(d.lastReset, d.ledger)
    BY <1>0, <2>1 DEF Data
  <2> QED
    BY <1>a, <2>1, <2>2 DEF Loaded
<1>12. ASSUME UNCHANGED vars PROVE Goal
  BY <1>0, <1>12 DEF vars
<1> HIDE DEF Goal
<1>13. Goal
  <2>1. CASE Next
    BY <2>1, <1>1, <1>2, <1>3, <1>4, <1>5, <1>6, <1>7, <1>8, <1>9, <1>10, <1>11, BothKinds DEF Next
  <2> QED
    BY <2>1, <1>12
<1> QED
  BY <1>13 DEF Goal

\* Every step keeps all ledgers from saying a thing twice.
LEMMA OnceKept == TypeInv /\ TimeInv /\ OnceInv /\ [Next]_vars => OnceInv'
<1> SUFFICES ASSUME TypeInv, TimeInv, OnceInv, [Next]_vars, "doubled" \notin slip'
             PROVE  /\ \A l \in Held' : Distinct(l)
                    /\ Beside(lastReset', ledger') /\ Beside(stored'.lastReset, stored'.ledger)
                    /\ undo'.kept /\ undo'.alone => Beside(lastReset', undo'.ledger)
  BY DEF OnceInv
<1>1. Distinct(ledger')
  BY DistinctKept
<1>2. /\ (\A l \in Held : Distinct(l)) /\ Beside(lastReset, ledger) /\ Beside(stored.lastReset, stored.ledger)
  BY SlipGrows DEF OnceInv
<1>3. \A l \in Held' : Distinct(l)
  BY <1>1, <1>2, HeldKept
<1>4. /\ Beside(lastReset', ledger')
      /\ undo'.kept /\ undo'.alone => Beside(lastReset', undo'.ledger)
  BY BesideKept
<1>5. stored' \in {stored, Data, Data'}
  BY HeldFrame
<1>6. /\ Data.ledger = ledger /\ Data.lastReset = lastReset
      /\ (Data').ledger = ledger' /\ (Data').lastReset = lastReset'
  BY DEF Data
<1>7. Beside(stored'.lastReset, stored'.ledger)
  BY <1>2, <1>4, <1>5, <1>6
<1> QED
  BY <1>3, <1>4, <1>7

-----------------------------------------------------------------------------
(***************************************************************************)
(* The heating runs: when they began, and that none counts twice.          *)
(***************************************************************************)
OfWarming(r) == IF r.of = "warming" THEN ToSet(r.runs) ELSE {}
RunIds(rs, h, r) == {h} \cup ToSet(rs) \cup OfWarming(r)
RunsBeside(rs, h, r) ==
  /\ Once(rs) /\ (h # 0 => h \notin ToSet(rs))
  /\ r.of = "warming" => Once(r.runs)
  /\ r.of = "warming" /\ r.alone => /\ ToSet(rs) \cap ToSet(r.runs) = {}
                                    /\ h # 0 => h \notin ToSet(r.runs)

RunInv ==
  /\ \A n \in RunIds(runs, heating, lastReset) \cup RunIds(stored.runs, stored.heating, stored.lastReset)
                \cup ToSet(blob.runs) : n < clock
  /\ "doubled" \notin slip => /\ RunsBeside(runs, heating, lastReset)
                              /\ RunsBeside(stored.runs, stored.heating, stored.lastReset)
                              /\ Once(blob.runs)

\* There are no runs at first.
LEMMA RunsStart == Init => RunInv
<1> SUFFICES ASSUME Init PROVE RunInv
  OBVIOUS
<1>1. ToSet(<<>>) = {} /\ Once(<<>>)
  BY DEF ToSet, Once
<1>2. NoReset.of = "nothing"
  BY DEF NoReset
<1>3. /\ runs = <<>> /\ heating = 0 /\ lastReset = NoReset /\ blob.runs = <<>> /\ clock = 1
      /\ stored.runs = <<>> /\ stored.heating = 0 /\ stored.lastReset = NoReset
  BY DEF Init, Data, NoBlob
<1> QED
  BY <1>1, <1>2, <1>3 DEF RunInv, RunIds, OfWarming, RunsBeside

\* What a run is known by does not change when its stash is spoilt.
LEMMA SpoiltRuns ==
  ASSUME NEW r \in Resets
  PROVE  /\ OfWarming(Spoilt(r)) = OfWarming(r) /\ OfWarming(NoReset) = {}
         /\ r.of # "nothing" => OfWarming([r EXCEPT !.alone = FALSE]) = OfWarming(r)
         /\ \A rs, h : RunsBeside(rs, h, r) => RunsBeside(rs, h, Spoilt(r))
         /\ r.of # "nothing" => \A rs, h : RunsBeside(rs, h, r) => RunsBeside(rs, h, [r EXCEPT !.alone = FALSE])
<1>1. r.of = "ledger" => Spoilt(r).of = "ledger" /\ [r EXCEPT !.alone = FALSE].of = "ledger"
  BY SpoiltParts, SpoiltLedger
<1>2. r.of = "warming" => /\ Spoilt(r) = r /\ [r EXCEPT !.alone = FALSE].of = "warming"
                          /\ [r EXCEPT !.alone = FALSE].runs = r.runs /\ ~[r EXCEPT !.alone = FALSE].alone
  BY SpoiltParts, SpoiltLedger
<1>3. r.of = "nothing" => Spoilt(r) = r
  BY SpoiltLedger
<1>4. r.of \in {"nothing", "ledger", "warming"} /\ NoReset.of = "nothing"
  BY ResetParts DEF NoReset
<1> QED
  BY <1>1, <1>2, <1>3, <1>4 DEF OfWarming, RunsBeside

\* What the parts of the state that know runs know after a step.
LEMMA RunsFrame ==
  ASSUME TypeInv, RunInv, [Next]_vars
  PROVE  /\ \A n \in RunIds(runs', heating', lastReset') : n < clock'
         /\ blob'.runs \in {blob.runs, runs}
<1> DEFINE Goal == /\ \A n \in RunIds(runs', heating', lastReset') : n < clock'
                   /\ blob'.runs \in {blob.runs, runs}
<1>0. /\ \A n \in RunIds(runs, heating, lastReset) : n < clock
      /\ \A n \in RunIds(stored.runs, stored.heating, stored.lastReset) : n < clock
      /\ \A n \in ToSet(blob.runs) : n < clock
  BY DEF RunInv
<1>a. /\ clock \in Nat /\ clock >= 1 /\ runs \in Seq(Nat) /\ heating \in Nat /\ lastReset \in Resets
      /\ blob.runs \in Seq(Nat) /\ ToSet(runs) \subseteq Nat
  BY ToSetOf DEF TypeInv, RunSeqs
<1>b. /\ OfWarming(Spoilt(lastReset)) = OfWarming(lastReset) /\ OfWarming(NoReset) = {}
      /\ lastReset.of # "nothing" => OfWarming([lastReset EXCEPT !.alone = FALSE]) = OfWarming(lastReset)
      /\ OfWarming(lastReset) \subseteq Nat
  <2>1. lastReset.of = "warming" => ToSet(lastReset.runs) \subseteq Nat
    <3>1. lastReset.of = "warming" => lastReset.runs \in Seq(Nat)
      BY <1>a, ResetParts DEF RunStashes, RunSeqs
    <3> QED
      BY <3>1, ToSetOf
  <2> QED
    BY <1>a, <2>1, SpoiltRuns DEF OfWarming
<1>c. ToSet(<<>>) = {}
  BY DEF ToSet
<1>d. \A n \in RunIds(runs, heating, lastReset) : n < clock + 1
  <2>1. RunIds(runs, heating, lastReset) \subseteq Nat
    BY <1>a, <1>b DEF RunIds
  <2> QED
    BY <1>0, <1>a, <2>1
<1>1. ASSUME NEW net, NEW ctx, NEW learns, FirstStep(net, ctx, learns) \/ Tap(net, ctx, learns) PROVE Goal
  <2>1. UNCHANGED <<runs, heating, lastReset, blob>> /\ clock' = clock + 1
    BY <1>1 DEF FirstStep, Tap, Tick
  <2> QED
    BY <1>d, <2>1
<1>2. ASSUME NEW net, NEW ctx, Boost(net, ctx) PROVE Goal
  <2>1. UNCHANGED <<runs, heating, lastReset, blob>> /\ clock' = clock + 1
    BY <1>2 DEF Boost, Tick
  <2> QED
    BY <1>d, <2>1
<1>3. ASSUME NEW net, Step(net) PROVE Goal
  <2>1. OfWarming(lastReset') = OfWarming(lastReset)
    BY <1>b, <1>3 DEF Step
  <2> QED
    BY <1>0, <1>3, <2>1 DEF Step, RunIds
<1>4. ASSUME Settles \/ GraceEnds \/ StormEnds \/ HalfLife \/ Save PROVE Goal
  BY <1>0, <1>4 DEF Settles, GraceEnds, StormEnds, HalfLife, Save
<1>5. ASSUME RunStarts PROVE Goal
  BY <1>0, <1>a, <1>b, <1>5 DEF RunStarts, Tick, RunIds
<1>6. ASSUME SchedulerCausedIt PROVE Goal
  <2>1. OfWarming(lastReset') = OfWarming(lastReset)
    BY <1>b, <1>6 DEF SchedulerCausedIt
  <2> QED
    BY <1>0, <1>6, <2>1 DEF SchedulerCausedIt, RunIds
<1>7. ASSUME NEW clean, RunEnds(clean) PROVE Goal
  <2>1. ToSet(runs') \subseteq ToSet(runs) \cup {heating}
    BY <1>a, <1>7, RunsAppend DEF RunEnds
  <2> QED
    BY <1>0, <1>a, <1>7, <2>1 DEF RunEnds, RunIds
<1>8. ASSUME NEW bs, Reset(bs) PROVE Goal
  <2>1. OfWarming(lastReset') \subseteq OfWarming(lastReset)
    BY <1>8 DEF Reset, OfWarming
  <2> QED
    BY <1>0, <1>8, <2>1 DEF Reset, RunIds
<1>9. ASSUME ResetWarming PROVE Goal
  <2>1. OfWarming(lastReset') \subseteq OfWarming(lastReset) \cup ToSet(runs)
    BY <1>9 DEF ResetWarming, OfWarming
  <2>2. runs' = <<>> /\ heating' = 0 /\ clock' = clock /\ blob' = blob
    BY <1>9 DEF ResetWarming
  <2>3. RunIds(runs', heating', lastReset') \subseteq {0} \cup OfWarming(lastReset) \cup ToSet(runs)
    BY <1>c, <2>1, <2>2 DEF RunIds
  <2>4. \A n \in OfWarming(lastReset) \cup ToSet(runs) : n < clock
    BY <1>0 DEF RunIds
  <2> QED
    BY <1>a, <2>2, <2>3, <2>4
<1>10. ASSUME UndoReset PROVE Goal
  <2>1. ToSet(runs') \subseteq ToSet(runs) \cup OfWarming(lastReset) /\ heating' \in {0, heating}
    <3>1. CASE lastReset.of = "warming"
      <4>1. lastReset.runs \in Seq(Nat) /\ OfWarming(lastReset) = ToSet(lastReset.runs)
        BY <1>a, <3>1, ResetParts DEF RunStashes, RunSeqs, OfWarming
      <4> QED
        BY <1>a, <1>10, <3>1, <4>1, MergeRunsOf DEF UndoReset
    <3> QED
      BY <1>10, <3>1 DEF UndoReset
  <2> QED
    BY <1>0, <1>a, <1>b, <1>10, <2>1 DEF UndoReset, RunIds
<1>11. ASSUME Export PROVE Goal
  BY <1>0, <1>11 DEF Export
<1>12. ASSUME NEW parts, Import(parts) PROVE Goal
  <2>1. ToSet(Newest(blob.runs, MaxRuns)) \subseteq ToSet(blob.runs)
    BY <1>a, Limits, NewestPart
  <2>2. ToSet(runs') \subseteq ToSet(runs) \cup ToSet(blob.runs) /\ heating' \in {0, heating}
    BY <1>12, <2>1 DEF Import
  <2>3. OfWarming(lastReset') = OfWarming(lastReset)
    BY <1>b, <1>12 DEF Import
  <2> QED
    BY <1>0, <1>a, <1>12, <2>2, <2>3 DEF Import, RunIds
<1>13. ASSUME Reload \/ Crash PROVE Goal
  <2>1. PICK d \in {Data, stored} : Loaded(d)
    BY <1>13 DEF Reload, Crash
  <2>2. \A n \in RunIds(d.runs, d.heating, d.lastReset) : n < clock
    BY <1>0, <2>1 DEF Data
  <2> QED
    BY <2>1, <2>2 DEF Loaded
<1>14. ASSUME UNCHANGED vars PROVE Goal
  BY <1>0, <1>14 DEF vars
<1> HIDE DEF Goal
<1>15. Goal
  <2>1. CASE Next
    BY <2>1, <1>1, <1>2, <1>3, <1>4, <1>5, <1>6, <1>7, <1>8, <1>9, <1>10, <1>11, <1>12, <1>13 DEF Next
  <2> QED
    BY <2>1, <1>14
<1> QED
  BY <1>15 DEF Goal

\* The runs, the run under way and a stash of runs stay apart.
LEMMA RunsOnce ==
  ASSUME TypeInv, RunInv, [Next]_vars, "doubled" \notin slip'
  PROVE  RunsBeside(runs', heating', lastReset')
<1> DEFINE Goal == RunsBeside(runs', heating', lastReset')
<1>0. /\ RunsBeside(runs, heating, lastReset) /\ RunsBeside(stored.runs, stored.heating, stored.lastReset)
      /\ Once(blob.runs)
      /\ \A n \in RunIds(runs, heating, lastReset) : n < clock
  BY SlipGrows DEF RunInv
<1>a. /\ clock \in Nat /\ clock >= 1 /\ runs \in Seq(Nat) /\ heating \in Nat /\ lastReset \in Resets
      /\ blob.runs \in Seq(Nat)
  BY DEF TypeInv, RunSeqs
<1>b. /\ RunsBeside(runs, heating, Spoilt(lastReset))
      /\ lastReset.of # "nothing" => RunsBeside(runs, heating, [lastReset EXCEPT !.alone = FALSE])
  BY <1>0, <1>a, SpoiltRuns
<1>c. ToSet(<<>>) = {} /\ Once(<<>>) /\ NoReset.of = "nothing"
  BY DEF ToSet, Once, NoReset
<1>1. ASSUME NEW net, NEW ctx, NEW learns, FirstStep(net, ctx, learns) \/ Tap(net, ctx, learns) PROVE Goal
  BY <1>0, <1>1 DEF FirstStep, Tap
<1>2. ASSUME NEW net, NEW ctx, Boost(net, ctx) PROVE Goal
  BY <1>0, <1>2 DEF Boost
<1>3. ASSUME NEW net, Step(net) PROVE Goal
  BY <1>0, <1>b, <1>3 DEF Step
<1>4. ASSUME Settles \/ GraceEnds \/ StormEnds \/ HalfLife \/ Save \/ Export PROVE Goal
  BY <1>0, <1>4 DEF Settles, GraceEnds, StormEnds, HalfLife, Save, Export
<1>5. ASSUME RunStarts PROVE Goal
  <2>1. clock \notin ToSet(runs) /\ clock \notin OfWarming(lastReset)
    BY <1>0, <1>a DEF RunIds
  <2> QED
    BY <1>0, <1>5, <2>1 DEF RunStarts, RunsBeside, OfWarming
<1>6. ASSUME SchedulerCausedIt PROVE Goal
  BY <1>0, <1>b, <1>6 DEF SchedulerCausedIt
<1>7. ASSUME NEW clean, RunEnds(clean) PROVE Goal
  <2>1. ToSet(Newest(Append(runs, heating), MaxRuns)) \subseteq ToSet(runs) \cup {heating}
    BY <1>a, RunsAppend
  <2>2. Once(Newest(Append(runs, heating), MaxRuns))
    BY <1>0, <1>a, <1>7, OnceAppend DEF RunEnds, RunsBeside
  <2> QED
    BY <1>0, <1>7, <2>1, <2>2 DEF RunEnds, RunsBeside
<1>8. ASSUME NEW bs, Reset(bs) PROVE Goal
  <2>1. lastReset' = lastReset \/ lastReset'.of = "ledger"
    BY <1>8 DEF Reset
  <2> QED
    BY <1>0, <1>8, <2>1 DEF Reset, RunsBeside
<1>9. ASSUME ResetWarming PROVE Goal
  <2>1. lastReset' = lastReset \/ (lastReset'.of = "warming" /\ lastReset'.runs = runs)
    BY <1>9 DEF ResetWarming
  <2> QED
    BY <1>0, <1>c, <1>9, <2>1 DEF ResetWarming, RunsBeside
<1>10. ASSUME UndoReset PROVE Goal
  <2>1. CASE lastReset.of = "warming"
    <3>1. lastReset.runs \in Seq(Nat)
      BY <1>a, <2>1, ResetParts DEF RunStashes, RunSeqs
    <3>2. lastReset.alone
      BY <1>10, <2>1 DEF UndoReset, AlreadyBack
    <3>3. Once(MergeRuns(runs, lastReset.runs))
      BY <1>0, <1>a, <2>1, <3>1, <3>2, MergeRunsOf DEF RunsBeside
    <3> QED
      BY <1>c, <1>10, <2>1, <3>3 DEF UndoReset, RunsBeside
  <2>2. CASE lastReset.of # "warming"
    BY <1>0, <1>c, <1>10, <2>2 DEF UndoReset, RunsBeside
  <2> QED
    BY <2>1, <2>2
<1>11. ASSUME NEW parts, Import(parts) PROVE Goal
  <2>1. CASE "warming_rate" \in parts
    <3>1. runs' = Newest(blob.runs, MaxRuns) /\ heating' = 0
      BY <1>11, <2>1 DEF Import
    <3>2. Once(runs')
      BY <1>0, <1>a, <3>1, Limits, OnceNewest
    <3>3. lastReset'.of = "warming" => lastReset'.runs = lastReset.runs /\ ~lastReset'.alone /\ lastReset.of = "warming"
      <4>1. CASE lastReset.of = "warming"
        <5>1. lastReset' = [lastReset EXCEPT !.alone = FALSE]
          BY <1>11, <2>1, <4>1 DEF Import
        <5> QED
          BY <1>a, <4>1, <5>1, SpoiltParts
      <4>2. CASE lastReset.of # "warming"
        <5>1. lastReset' = lastReset \/ (lastReset.of = "ledger" /\ lastReset' = [lastReset EXCEPT !.alone = FALSE])
          BY <1>11, <4>2 DEF Import
        <5> QED
          BY <1>a, <4>2, <5>1, SpoiltParts
      <4> QED
        BY <4>1, <4>2
    <3> QED
      BY <1>0, <3>1, <3>2, <3>3 DEF RunsBeside
  <2>2. CASE "warming_rate" \notin parts
    <3>1. runs' = runs /\ heating' = heating
      BY <1>11, <2>2 DEF Import
    <3>2. lastReset' = lastReset \/ (lastReset.of # "nothing" /\ lastReset' = [lastReset EXCEPT !.alone = FALSE])
      BY <1>11 DEF Import
    <3> QED
      BY <1>0, <1>b, <3>1, <3>2
  <2> QED
    BY <2>1, <2>2
<1>12. ASSUME Reload \/ Crash PROVE Goal
  <2>1. PICK d \in {Data, stored} : Loaded(d)
    BY <1>12 DEF Reload, Crash
  <2>2. RunsBeside(d.runs, d.heating, d.lastReset)
    BY <1>0, <2>1 DEF Data
  <2> QED
    BY <2>1, <2>2 DEF Loaded
<1>13. ASSUME UNCHANGED vars PROVE Goal
  BY <1>0, <1>13 DEF vars
<1> HIDE DEF Goal
<1>14. Goal
  <2>1. CASE Next
    BY <2>1, <1>1, <1>2, <1>3, <1>4, <1>5, <1>6, <1>7, <1>8, <1>9, <1>10, <1>11, <1>12 DEF Next
  <2> QED
    BY <2>1, <1>13
<1> QED
  BY <1>14 DEF Goal

\* Every step keeps the runs from counting twice.
LEMMA RunsKept == TypeInv /\ RunInv /\ [Next]_vars => RunInv'
<1> SUFFICES ASSUME TypeInv, RunInv, [Next]_vars PROVE RunInv'
  OBVIOUS
<1>1. stored' \in {stored, Data, Data'}
  BY HeldFrame
<1>2. /\ Data.runs = runs /\ Data.heating = heating /\ Data.lastReset = lastReset
      /\ (Data').runs = runs' /\ (Data').heating = heating' /\ (Data').lastReset = lastReset'
  BY DEF Data
<1>3. /\ \A n \in RunIds(runs', heating', lastReset') : n < clock'
      /\ blob'.runs \in {blob.runs, runs}
  BY RunsFrame
<1>4. ASSUME NEW n \in Nat, n < clock PROVE n < clock'
  <2>1. clock \in Nat /\ (clock' = clock \/ clock' = clock + 1)
    BY ClockMoves DEF TypeInv
  <2> QED
    BY <1>4, <2>1
<1>5. /\ RunIds(runs, heating, lastReset) \subseteq Nat
      /\ RunIds(stored.runs, stored.heating, stored.lastReset) \subseteq Nat
      /\ ToSet(blob.runs) \subseteq Nat
  <2>1. ASSUME NEW rs \in RunSeqs, NEW h \in Nat, NEW r \in Resets PROVE RunIds(rs, h, r) \subseteq Nat /\ ToSet(rs) \subseteq Nat
    <3>1. ToSet(rs) \subseteq Nat
      BY ToSetOf DEF RunSeqs
    <3>2. r.of = "warming" => r.runs \in Seq(Nat)
      BY ResetParts DEF RunStashes, RunSeqs
    <3>3. OfWarming(r) \subseteq Nat
      BY <3>2, ToSetOf DEF OfWarming
    <3> QED
      BY <3>1, <3>3 DEF RunIds
  <2> QED
    BY <2>1, StoreParts DEF TypeInv
<1>6. \A n \in RunIds(stored'.runs, stored'.heating, stored'.lastReset) : n < clock'
  <2>1. CASE stored' = stored
    BY <1>4, <1>5, <2>1 DEF RunInv
  <2>2. CASE stored' = Data
    BY <1>2, <1>4, <1>5, <2>2 DEF RunInv
  <2>3. CASE stored' = Data'
    BY <1>2, <1>3, <2>3
  <2> QED
    BY <1>1, <2>1, <2>2, <2>3
<1>7. \A n \in ToSet(blob'.runs) : n < clock'
  BY <1>3, <1>4, <1>5 DEF RunInv, RunIds
<1>8. ASSUME "doubled" \notin slip'
      PROVE  /\ RunsBeside(runs', heating', lastReset')
             /\ RunsBeside(stored'.runs, stored'.heating, stored'.lastReset)
             /\ Once(blob'.runs)
  <2>1. /\ RunsBeside(runs, heating, lastReset) /\ RunsBeside(stored.runs, stored.heating, stored.lastReset)
        /\ Once(blob.runs) /\ Once(runs)
    BY <1>8, SlipGrows DEF RunInv, RunsBeside
  <2>2. RunsBeside(runs', heating', lastReset')
    BY <1>8, RunsOnce
  <2> QED
    BY <1>1, <1>2, <1>3, <2>1, <2>2
<1> QED
  BY <1>3, <1>6, <1>7, <1>8 DEF RunInv

(* Whatever is reset, put back, exported, imported, rolled back and lost,  *)
(* no fact and no heating run counts twice, unless a stash or an entry was *)
(* put back beside what was back already (mech_transfer.py, learning_io.py). *)
THEOREM EveryFactOnce == Spec => []CountsOnce
<1>1. TypeInv /\ OnceInv /\ RunInv => CountsOnce
  <2> SUFFICES ASSUME OnceInv, RunInv, "doubled" \notin slip
               PROVE  /\ \A i, j \in DOMAIN ledger.entries : i # j => ledger.entries[i].at # ledger.entries[j].at
                      /\ \A i, j \in DOMAIN runs : i # j => runs[i] # runs[j]
    BY DEF CountsOnce
  <2>1. Distinct(ledger)
    BY DEF OnceInv, Held
  <2>2. Once(runs)
    BY DEF RunInv, RunsBeside
  <2> QED
    BY <2>1, <2>2 DEF Distinct, Apart, Once
<1>2. Init => TypeInv /\ TimeInv /\ OnceInv /\ RunInv
  BY TypeStarts, TimeStarts, OnceStarts, RunsStart
<1>3. TypeInv /\ TimeInv /\ OnceInv /\ RunInv /\ [Next]_vars => (TypeInv /\ TimeInv /\ OnceInv /\ RunInv)'
  BY TypeKept, TimeKept, OnceKept, RunsKept
<1> QED
  BY <1>1, <1>2, <1>3, PTL DEF Spec

-----------------------------------------------------------------------------
(***************************************************************************)
(* What a reset has cleared.                                               *)
(***************************************************************************)
\* Nothing that is gone is in a ledger, nor among heating runs.
FactsClear(g, l) == \A f \in Facts(l) : f.at \notin g.facts
RunsClear(g, rs, h) == g.runs \cap ToSet(rs) = {} /\ (h # 0 => h \notin g.runs)

GoneInv ==
  /\ \A n \in gone.facts \cup gone.runs : n < clock
  /\ slip \cap {"doubled", "rolled"} = {} =>
       /\ FactsClear(gone, ledger) /\ RunsClear(gone, runs, heating)
       /\ FactsClear(gone, stored.ledger) /\ RunsClear(gone, stored.runs, stored.heating)
       /\ undo.kept /\ undo.alone => FactsClear(gone, undo.ledger)

\* Nothing is gone at first.
LEMMA GoneStarts == Init => GoneInv
<1> SUFFICES ASSUME Init PROVE GoneInv
  OBVIOUS
<1>1. gone.facts = {} /\ gone.runs = {}
  BY DEF Init
<1> QED
  BY <1>1 DEF GoneInv, FactsClear, RunsClear

\* How what is gone changes.
LEMMA GoneMoves ==
  ASSUME TypeInv, TimeInv, RunInv, [Next]_vars
  PROVE  /\ \/ gone'.facts \subseteq gone.facts /\ gone'.runs \subseteq gone.runs
            \/ stored' = Data'
         /\ gone'.facts \subseteq gone.facts \cup Ats(ledger, Buckets)
         /\ gone'.runs \subseteq gone.runs \cup ToSet(runs) \cup ({heating} \ {0})
<1> DEFINE Goal == /\ \/ gone'.facts \subseteq gone.facts /\ gone'.runs \subseteq gone.runs
                      \/ stored' = Data'
                   /\ gone'.facts \subseteq gone.facts \cup Ats(ledger, Buckets)
                   /\ gone'.runs \subseteq gone.runs \cup ToSet(runs) \cup ({heating} \ {0})
<1>0. gone \in [facts : SUBSET Nat, runs : SUBSET Nat] /\ Typed(ledger)
  BY HeldTyped DEF TypeInv, Held
<1>1. ASSUME NEW net, NEW ctx, NEW learns, FirstStep(net, ctx, learns) \/ Tap(net, ctx, learns) PROVE Goal
  BY <1>1 DEF FirstStep, Tap
<1>2. ASSUME NEW net, NEW ctx, Boost(net, ctx) PROVE Goal
  BY <1>2 DEF Boost
<1>3. ASSUME NEW net, Step(net) PROVE Goal
  <2>1. gone' = gone \/ gone' = [gone EXCEPT !.facts = @ \ {change.at}]
    BY <1>3 DEF Step
  <2> QED
    BY <1>0, <2>1
<1>4. ASSUME Settles \/ GraceEnds \/ StormEnds \/ HalfLife \/ RunStarts \/ Save \/ SchedulerCausedIt PROVE Goal
  BY <1>4 DEF Settles, GraceEnds, StormEnds, HalfLife, RunStarts, Save, SchedulerCausedIt
<1>5. ASSUME NEW clean, RunEnds(clean) PROVE Goal
  BY <1>5 DEF RunEnds
<1>6. ASSUME NEW bs \in SUBSET Buckets, Reset(bs) PROVE Goal
  <2>1. Ats(ledger, bs) \subseteq Ats(ledger, Buckets)
    BY AtsOfLedger
  <2>2. gone'.facts = gone.facts \cup Ats(ledger, bs) /\ gone'.runs = gone.runs /\ stored' = Data'
    BY <1>0, <1>6 DEF Reset, Commit
  <2> QED
    BY <2>1, <2>2
<1>7. ASSUME ResetWarming PROVE Goal
  BY <1>0, <1>7 DEF ResetWarming, Commit
<1>8. ASSUME NEW parts, UndoReset \/ Import(parts) PROVE Goal
  <2>1. gone' = StillGone
    BY <1>8 DEF UndoReset, Import
  <2> QED
    BY <2>1 DEF StillGone
<1>9. ASSUME Export PROVE Goal
  BY <1>9 DEF Export
<1>10. ASSUME Reload \/ Crash PROVE Goal
  BY <1>10 DEF Reload, Crash, Loaded
<1>11. ASSUME UNCHANGED vars PROVE Goal
  BY <1>11 DEF vars
<1> HIDE DEF Goal
<1>12. Goal
  <2>1. CASE Next
    BY <2>1, <1>1, <1>2, <1>3, <1>4, <1>5, <1>6, <1>7, <1>8, <1>9, <1>10, BothKinds DEF Next
  <2> QED
    BY <2>1, <1>11
<1> QED
  BY <1>12 DEF Goal

\* What is gone was said, or begun, before now.
LEMMA GoneBefore ==
  ASSUME TypeInv, TimeInv, RunInv, GoneInv, [Next]_vars
  PROVE  \A n \in gone'.facts \cup gone'.runs : n < clock'
<1>1. /\ gone'.facts \subseteq gone.facts \cup Ats(ledger, Buckets)
      /\ gone'.runs \subseteq gone.runs \cup ToSet(runs) \cup ({heating} \ {0})
  BY GoneMoves
<1>2. clock \in Nat /\ (clock' = clock \/ clock' = clock + 1)
  BY ClockMoves DEF TypeInv
<1>3. \A n \in Ats(ledger, Buckets) : n \in Nat /\ n < clock
  <2>1. Facts(ledger) \subseteq Known
    BY HeldTyped DEF Held
  <2> QED
    BY <2>1, AtsOfLedger, FactFields DEF TimeInv, Known
<1>4. \A n \in ToSet(runs) \cup {heating} : n \in Nat /\ n < clock
  <2>1. ToSet(runs) \subseteq Nat /\ heating \in Nat
    BY ToSetOf DEF TypeInv, RunSeqs
  <2> QED
    BY <2>1 DEF RunInv, RunIds
<1>5. \A n \in gone.facts \cup gone.runs : n \in Nat /\ n < clock
  BY DEF GoneInv, TypeInv
<1>6. \A n \in gone'.facts \cup gone'.runs : n \in Nat /\ n < clock
  BY <1>1, <1>3, <1>4, <1>5
<1> QED
  BY <1>2, <1>6

\* What is clear of much is clear of less.
LEMMA ClearLess ==
  ASSUME NEW g, NEW h, h.facts \subseteq g.facts, h.runs \subseteq g.runs
  PROVE  /\ \A l : FactsClear(g, l) => FactsClear(h, l)
         /\ \A rs, n : RunsClear(g, rs, n) => RunsClear(h, rs, n)
BY DEF FactsClear, RunsClear

\* What is said now is not gone.
LEMMA ClearNow ==
  ASSUME TypeInv, TimeInv, GoneInv, FactsClear(gone, ledger), NEW net \in Nets, NEW ctx
  PROVE  FactsClear(gone, Add(ledger, Entry(clock, era, net, ctx)))
<1> DEFINE f == Entry(clock, era, net, ctx)
<1>1. f \in Fact /\ f.at = clock /\ Typed(ledger) /\ clock \in Nat
  BY NetsInt, EntryFact, HeldTyped DEF Held, TypeInv
<1> HIDE DEF f
<1>2. Facts(Add(ledger, f)) \subseteq Facts(ledger) \cup {f}
  BY <1>1, AddLedger
<1>3. clock \notin gone.facts
  BY <1>1 DEF GoneInv
<1> QED
  BY <1>1, <1>2, <1>3 DEF FactsClear, f

\* What the ledger says and the runs that count are clear of what is gone after a step.
LEMMA ClearKept ==
  ASSUME TypeInv, TimeInv, OnceInv, RunInv, GoneInv, [Next]_vars, slip' \cap {"doubled", "rolled"} = {}
  PROVE  /\ FactsClear(gone', ledger') /\ RunsClear(gone', runs', heating')
         /\ undo'.kept /\ undo'.alone => FactsClear(gone', undo'.ledger)
<1> DEFINE Goal == /\ FactsClear(gone', ledger') /\ RunsClear(gone', runs', heating')
                   /\ undo'.kept /\ undo'.alone => FactsClear(gone', undo'.ledger)
<1>0. /\ FactsClear(gone, ledger) /\ RunsClear(gone, runs, heating)
      /\ FactsClear(gone, stored.ledger) /\ RunsClear(gone, stored.runs, stored.heating)
      /\ undo.kept /\ undo.alone => FactsClear(gone, undo.ledger)
      /\ \A n \in gone.facts \cup gone.runs : n < clock
      /\ Distinct(ledger)
  BY SlipGrows DEF GoneInv, OnceInv, Held
<1>a. /\ ~NoUndo.kept /\ ~(Outdated(undo).kept /\ Outdated(undo).alone) /\ lastReset \in Resets
      /\ Typed(ledger) /\ ledger \in Held /\ runs \in Seq(Nat) /\ clock \in Nat
      /\ gone \in [facts : SUBSET Nat, runs : SUBSET Nat]
  BY UndoParts, HeldTyped DEF NoUndo, TypeInv, Held, RunSeqs
<1>b. \A net \in Nets : \A ctx : FactsClear(gone, Add(ledger, Entry(clock, era, net, ctx)))
  BY <1>0, ClearNow
<1>1. ASSUME NEW net \in Nets, NEW ctx, NEW learns, FirstStep(net, ctx, learns) \/ Tap(net, ctx, learns) PROVE Goal
  <2>1. gone' = gone /\ undo'.ledger = ledger /\ runs' = runs /\ heating' = heating
    BY <1>1 DEF FirstStep, Tap, Capture
  <2>2. ledger' = ledger \/ ledger' = Add(ledger, Entry(clock, era, net, ctx))
    BY <1>1 DEF FirstStep, Tap
  <2> QED
    BY <1>0, <1>b, <2>1, <2>2
<1>2. ASSUME NEW net \in Nets, NEW ctx, Boost(net, ctx) PROVE Goal
  BY <1>0, <1>a, <1>b, <1>2 DEF Boost
<1>3. ASSUME NEW net \in Nets, Step(net) PROVE Goal
  <2> DEFINE f == Stepped(net)
  <2>1. /\ UNCHANGED <<undo, runs, heating>> /\ f \in Fact /\ f.at = change.at
        /\ Present(ledger, change) => ledger.entries # <<>> /\ Last(ledger.entries).at = change.at
        /\ StepsBy(net) \/ StepsBack(net) \/ StepsOn(net) \/ StepsAgain(net)
    BY <1>3, StepParts
  <2>2. CASE StepsBy(net)
    BY <1>0, <2>1, <2>2 DEF StepsBy, Aside
  <2>3. CASE StepsBack(net) \/ StepsOn(net)
    <3>1. ledger.entries # <<>> /\ gone' = gone /\ Last(ledger.entries).at = f.at
          /\ ledger' \in {DropLast(ledger), AmendLast(ledger, f)}
      BY <2>1, <2>3 DEF StepsBack, StepsOn, Aside
    <3> HIDE DEF f
    <3>2. Facts(ledger) = Facts(DropLast(ledger)) \cup {Last(ledger.entries)}
      BY <1>a, <3>1, DropLedger
    <3>3. Facts(AmendLast(ledger, f)) = Facts(DropLast(ledger)) \cup {f}
      BY <1>a, <2>1, <3>1, AmendLedger
    <3>4. \A g \in Facts(ledger') : \E h \in Facts(ledger) : h.at = g.at
      BY <3>1, <3>2, <3>3
    <3> QED
      BY <1>0, <2>1, <3>1, <3>4 DEF FactsClear
  <2>4. CASE StepsAgain(net)
    <3>1. ledger' = Add(ledger, f) /\ gone' = [gone EXCEPT !.facts = @ \ {change.at}]
      BY <2>4 DEF StepsAgain
    <3>2. gone'.facts = gone.facts \ {f.at} /\ gone'.runs = gone.runs
      BY <1>a, <2>1, <3>1
    <3> HIDE DEF f
    <3>3. Facts(ledger') \subseteq Facts(ledger) \cup {f}
      BY <1>a, <2>1, <3>1, AddLedger
    <3> QED
      BY <1>0, <2>1, <3>2, <3>3 DEF FactsClear, RunsClear
  <2> QED
    BY <2>1, <2>2, <2>3, <2>4
<1>4. ASSUME Settles \/ GraceEnds \/ StormEnds \/ HalfLife \/ Save \/ Export PROVE Goal
  BY <1>0, <1>a, <1>4 DEF Settles, GraceEnds, StormEnds, HalfLife, Save, Export
<1>5. ASSUME RunStarts PROVE Goal
  <2>1. clock \notin gone.runs
    BY <1>0, <1>a
  <2> QED
    BY <1>0, <1>5, <2>1 DEF RunStarts, RunsClear
<1>6. ASSUME SchedulerCausedIt PROVE Goal
  <2>1. undo.alone
    BY <1>6 DEF SchedulerCausedIt
  <2> QED
    BY <1>0, <1>a, <1>6, <2>1 DEF SchedulerCausedIt
<1>7. ASSUME NEW clean, RunEnds(clean) PROVE Goal
  <2>1. ToSet(Newest(Append(runs, heating), MaxRuns)) \subseteq ToSet(runs) \cup {heating}
    BY <1>a, RunsAppend DEF TypeInv
  <2> QED
    BY <1>0, <1>7, <2>1 DEF RunEnds, RunsClear
<1>8. ASSUME NEW bs \in SUBSET Buckets, Reset(bs) PROVE Goal
  <2>1. ledger' = ResetBuckets(ledger, bs) /\ undo' = Outdated(undo) /\ runs' = runs /\ heating' = heating
        /\ gone' = [gone EXCEPT !.facts = @ \cup Ats(ledger, bs)]
    BY <1>8 DEF Reset
  <2>2. gone'.facts = gone.facts \cup Ats(ledger, bs) /\ gone'.runs = gone.runs
    BY <1>a, <2>1
  <2>3. Facts(ledger') = {f \in Facts(ledger) : f.bucket \notin bs}
    BY <1>a, <2>1, ResetLedger
  <2>4. \A f, g \in Facts(ledger) : f # g => f.at # g.at
    <3>1. \A i, j \in DOMAIN ledger.entries : i # j => ledger.entries[i].at # ledger.entries[j].at
      BY <1>0 DEF Distinct, Apart
    <3>2. \A f \in Facts(ledger) : \E i \in DOMAIN ledger.entries : f = ledger.entries[i]
      BY DEF Facts, ToSet
    <3> QED
      BY <3>1, <3>2
  <2>5. \A f \in Facts(ledger') : f.at \notin Ats(ledger, bs)
    <3>1. ASSUME NEW f \in Facts(ledger'), f.at \in Ats(ledger, bs) PROVE FALSE
      <4>1. PICK g \in Facts(ledger) : g.bucket \in bs /\ g.at = f.at
        BY <3>1, AtsOfLedger
      <4> QED
        BY <2>3, <2>4, <4>1
    <3> QED
      BY <3>1
  <2> QED
    BY <1>0, <1>a, <2>1, <2>2, <2>3, <2>5 DEF FactsClear, RunsClear
<1>9. ASSUME ResetWarming PROVE Goal
  <2>1. gone'.facts = gone.facts
    BY <1>a, <1>9 DEF ResetWarming
  <2>2. ToSet(<<>>) = {}
    BY DEF ToSet
  <2>3. ledger' = ledger /\ undo' = undo /\ runs' = <<>> /\ heating' = 0
    BY <1>9 DEF ResetWarming
  <2> QED
    BY <1>0, <2>1, <2>2, <2>3 DEF FactsClear, RunsClear
<1>c. ASSUME gone' = StillGone, Typed(ledger')
      PROVE  /\ FactsClear(gone', ledger') /\ gone'.runs \cap ToSet(runs') = {}
             /\ gone'.facts \subseteq gone.facts /\ gone'.runs \subseteq gone.runs
  <2>1. gone'.facts = gone.facts \ Ats(ledger', Buckets) /\ gone'.runs = gone.runs \ ToSet(runs')
    BY <1>c DEF StillGone
  <2>2. \A f \in Facts(ledger') : f.at \in Ats(ledger', Buckets)
    BY <1>c, AtsAll DEF Typed
  <2> QED
    BY <2>1, <2>2 DEF FactsClear
<1>d. Typed(ledger')
  BY TypeKept, SoundTyped DEF TypeInv
<1>10. ASSUME UndoReset PROVE Goal
  <2>1. gone' = StillGone /\ undo' = Outdated(undo) /\ heating' \in {0, heating}
    BY <1>10 DEF UndoReset
  <2> QED
    BY <1>0, <1>a, <1>c, <1>d, <2>1 DEF RunsClear
<1>11. ASSUME NEW parts, Import(parts) PROVE Goal
  <2>1. gone' = StillGone /\ undo' \in {undo, Outdated(undo)} /\ heating' \in {0, heating}
    BY <1>11 DEF Import
  <2> QED
    BY <1>0, <1>a, <1>c, <1>d, <2>1 DEF RunsClear, FactsClear
<1>12. ASSUME Reload \/ Crash PROVE Goal
  <2>1. PICK d \in {Data, stored} : Loaded(d)
    BY <1>12 DEF Reload, Crash
  <2>2. FactsClear(gone, d.ledger) /\ RunsClear(gone, d.runs, d.heating)
    BY <1>0, <2>1 DEF Data
  <2> QED
    BY <1>a, <2>1, <2>2 DEF Loaded
<1>13. ASSUME UNCHANGED vars PROVE Goal
  BY <1>0, <1>13 DEF vars
<1> HIDE DEF Goal
<1>14. Goal
  <2>1. CASE Next
    BY <2>1, <1>1, <1>2, <1>3, <1>4, <1>5, <1>6, <1>7, <1>8, <1>9, <1>10, <1>11, <1>12, BothKinds DEF Next
  <2> QED
    BY <2>1, <1>13
<1> QED
  BY <1>14 DEF Goal

\* Every step keeps all of them clear, the store and the undo included.
LEMMA GoneKept == TypeInv /\ TimeInv /\ OnceInv /\ RunInv /\ GoneInv /\ [Next]_vars => GoneInv'
<1> SUFFICES ASSUME TypeInv, TimeInv, OnceInv, RunInv, GoneInv, [Next]_vars PROVE GoneInv'
  OBVIOUS
<1>1. \A n \in gone'.facts \cup gone'.runs : n < clock'
  BY GoneBefore
<1>2. ASSUME slip' \cap {"doubled", "rolled"} = {}
      PROVE  /\ FactsClear(gone', ledger') /\ RunsClear(gone', runs', heating')
             /\ FactsClear(gone', stored'.ledger) /\ RunsClear(gone', stored'.runs, stored'.heating)
             /\ undo'.kept /\ undo'.alone => FactsClear(gone', undo'.ledger)
  <2>1. /\ FactsClear(gone', ledger') /\ RunsClear(gone', runs', heating')
        /\ undo'.kept /\ undo'.alone => FactsClear(gone', undo'.ledger)
    BY <1>2, ClearKept
  <2>2. /\ Data.ledger = ledger /\ Data.runs = runs /\ Data.heating = heating
        /\ (Data').ledger = ledger' /\ (Data').runs = runs' /\ (Data').heating = heating'
    BY DEF Data
  <2>3. stored' \in {stored, Data, Data'}
    BY HeldFrame
  <2>4. /\ FactsClear(gone, ledger) /\ RunsClear(gone, runs, heating)
        /\ FactsClear(gone, stored.ledger) /\ RunsClear(gone, stored.runs, stored.heating)
    BY <1>2, SlipGrows DEF GoneInv
  <2>5. CASE gone'.facts \subseteq gone.facts /\ gone'.runs \subseteq gone.runs
    <3>1. FactsClear(gone', stored'.ledger)
      BY <2>1, <2>2, <2>3, <2>4, <2>5, ClearLess
    <3>2. RunsClear(gone', stored'.runs, stored'.heating)
      BY <2>1, <2>2, <2>3, <2>4, <2>5, ClearLess
    <3> QED
      BY <2>1, <3>1, <3>2
  <2>6. CASE stored' = Data'
    BY <2>1, <2>2, <2>6
  <2> QED
    BY <2>5, <2>6, GoneMoves
<1> QED
  BY <1>1, <1>2 DEF GoneInv

(* What a reset cleared does not come back by itself: not with a crash, a  *)
(* reload, a step of a change or a late Scheduler, unless the undo of an   *)
(* override rolls the reset back (_async_commit_learning, D42).            *)
THEOREM ResetsStand == Spec => []ResetStands
<1>1. TypeInv /\ GoneInv => ResetStands
  <2> SUFFICES ASSUME TypeInv, GoneInv, slip \cap {"doubled", "rolled"} = {}
               PROVE  /\ gone.facts \cap Ats(ledger, Buckets) = {} /\ gone.runs \cap ToSet(runs) = {}
    BY DEF ResetStands
  <2>1. FactsClear(gone, ledger) /\ RunsClear(gone, runs, heating)
    BY DEF GoneInv
  <2> QED
    BY <2>1, AtsOfLedger DEF FactsClear, RunsClear
<1>2. Init => TypeInv /\ TimeInv /\ OnceInv /\ RunInv /\ GoneInv
  BY TypeStarts, TimeStarts, OnceStarts, RunsStart, GoneStarts
<1>3. TypeInv /\ TimeInv /\ OnceInv /\ RunInv /\ GoneInv /\ [Next]_vars => (TypeInv /\ TimeInv /\ OnceInv /\ RunInv /\ GoneInv)'
  BY TypeKept, TimeKept, OnceKept, RunsKept, GoneKept
<1> QED
  BY <1>1, <1>2, <1>3, PTL DEF Spec

-----------------------------------------------------------------------------
(***************************************************************************)
(* The statistics are those of the entries.                                *)
(***************************************************************************)
\* What was said since a reset was said after all that the stash knows of.
Later(r, l) ==
  r.of = "ledger" /\ r.alone => \A f \in Facts(l) : f.bucket \in r.buckets => r.ledger.buckets[f.bucket].last <= f.era

Even == slip \cap {"doubled", "dropped"} = {}

SumInv == Even => /\ \A l \in Held : Backed(l, era)
                  /\ Later(lastReset, ledger) /\ Later(stored.lastReset, stored.ledger)
                  /\ undo.kept /\ undo.alone => Later(lastReset, undo.ledger)

\* No statistics at first.
LEMMA SumsStart == Init => SumInv
<1> SUFFICES ASSUME Init PROVE SumInv
  OBVIOUS
<1>1. \A l \in Held : l = EmptyLedger
  BY DEF Init, Held, OfChange, OfUndo, OfReset, Data, NoChange, NoUndo, NoReset, NoBlob
<1>2. Backed(EmptyLedger, era)
  BY EmptyTyped DEF Init
<1>3. lastReset.of # "ledger" /\ stored.lastReset.of # "ledger" /\ ~undo.kept
  BY DEF Init, Data, NoReset, NoUndo
<1> QED
  BY <1>1, <1>2, <1>3 DEF SumInv, Later

\* Statistics of the same facts hold on through the half-lives.
LEMMA BackedLater ==
  ASSUME NEW l, Typed(l), NEW e \in 0..MaxEra, Backed(l, e), NEW d \in 0..MaxEra, e <= d
  PROVE  Backed(l, d)
<1>1. \A b \in Buckets : l.buckets[b].last \in Nat
  BY LedgerParts, StatsFields DEF Typed
<1> QED
  BY <1>1, Eras DEF Backed

\* The statistics of the ledger are those of its entries after a step.
LEMMA BackedKept ==
  ASSUME TypeInv, TimeInv, OnceInv, SumInv, [Next]_vars, Even'
  PROVE  Backed(ledger', era)
<1>0. /\ ledger \in Held /\ Typed(ledger) /\ Facts(ledger) \subseteq Known /\ Backed(ledger, era) /\ Distinct(ledger)
      /\ Ordered(ledger) /\ \A l \in Held : Backed(l, era)
  BY HeldTyped, SlipGrows DEF Held, TimeInv, OnceInv, SumInv, Even
<1>a. /\ clock \in 1..MaxFacts + 1 /\ era \in 0..MaxEra /\ MaxFacts \in Nat
      /\ \A g \in Known : g.at \in Nat /\ g.at < clock /\ g.era <= era
  BY Limits, FactFields DEF TypeInv, TimeInv, Known
<1>1. CASE ledger' \in Held
  BY <1>0, <1>1
<1>2. CASE Adds
  <2>1. PICK net \in Nets, ctx \in Contexts \cup {NoContext} :
          /\ ledger' = Add(ledger, Entry(clock, era, net, ctx)) /\ clock <= MaxFacts
          /\ slip' = slip \cup Dropping(Full(ledger))
    BY <1>2 DEF Adds
  <2> DEFINE f == Entry(clock, era, net, ctx)
  <2>2. f \in Fact /\ f.at = clock /\ f.era = era /\ ledger' = Add(ledger, f)
    BY <1>a, <2>1, NetsInt, EntryFact
  <2>3. ~Full(ledger)
    BY <2>1 DEF Dropping, Even
  <2> HIDE DEF f
  <2>4. (\A g \in Facts(ledger) : g.at # f.at) /\ f.at \in 1..MaxFacts
    BY <1>0, <1>a, <2>1, <2>2
  <2> QED
    BY <1>0, <1>a, <2>2, <2>3, <2>4, AddBacked
<1>3. CASE \E net \in Nets : Step(net)
  <2>1. PICK net \in Nets : Step(net)
    BY <1>3
  <2> DEFINE f == Stepped(net)
  <2>2. /\ f \in Fact /\ f.at = change.at /\ f.era = era /\ change.at \in Nat /\ change.pending
        /\ Present(ledger, change) => ledger.entries # <<>> /\ Last(ledger.entries).at = change.at
        /\ StepsBy(net) \/ StepsBack(net) \/ StepsOn(net) \/ StepsAgain(net)
    BY <2>1, StepParts
  <2>3. f.at \in 1..MaxFacts
    BY <1>a, <2>2 DEF TimeInv
  <2>4. Present(ledger, change) => Last(ledger.entries).era = era
    <3>1. Present(ledger, change) => Last(ledger.entries) \in Known
      BY <1>0, <2>2, DropLedger
    <3> QED
      BY <1>a, <2>2, <3>1 DEF TimeInv
  <2>5. CASE StepsBy(net)
    BY <1>0, <2>5 DEF StepsBy
  <2>6. CASE StepsBack(net)
    BY <1>0, <1>a, <2>2, <2>4, <2>6, DropBacked DEF StepsBack
  <2>7. CASE StepsOn(net)
    <3>1. ledger' = AmendLast(ledger, f) /\ ledger.entries # <<>> /\ f.at = Last(ledger.entries).at
          /\ Last(ledger.entries).era = era
      BY <2>2, <2>4, <2>7 DEF StepsOn
    <3> HIDE DEF f
    <3> QED
      BY <1>0, <1>a, <2>2, <2>3, <3>1, AmendBacked
  <2>8. CASE StepsAgain(net)
    <3>1. /\ ledger' = Add(ledger, f) /\ change.at \notin Ats(ledger, Buckets)
          /\ ~Full(ledger)
      BY <2>8 DEF StepsAgain, Dropping, Even
    <3> HIDE DEF f
    <3>2. \A g \in Facts(ledger) : g.at # f.at
      BY <1>0, <2>2, <3>1, AtsAll DEF Typed
    <3> QED
      BY <1>0, <1>a, <2>2, <2>3, <3>1, <3>2, AddBacked
  <2> QED
    BY <2>2, <2>5, <2>6, <2>7, <2>8
<1>4. CASE \E bs \in SUBSET Buckets : Reset(bs)
  <2>1. PICK bs \in SUBSET Buckets : ledger' = ResetBuckets(ledger, bs)
    BY <1>4 DEF Reset
  <2> QED
    BY <1>0, <1>a, <2>1, Eras, ResetBacked
<1>5. CASE UndoReset /\ lastReset.of = "ledger"
  <2> DEFINE k == lastReset.ledger
             bs == lastReset.buckets
  <2>1. ledger' = MergeLedger(ledger, k, bs) /\ slip' \cap {"doubled", "dropped"} = {}
    BY <1>5 DEF UndoReset, Even
  <2>2. k \in Held /\ bs \in SUBSET Buckets
    BY <1>5, ResetParts DEF Held, OfReset, TypeInv, LedgerStashes
  <2>3. Typed(k) /\ Backed(k, era)
    BY <1>0, <2>2, HeldTyped
  <2>4. lastReset.alone /\ "doubled" \notin slip /\ Even
    BY <1>5, <2>1, SlipGrows DEF UndoReset, AlreadyBack, Even
  <2>5. \A f \in Facts(ledger), g \in Facts(k) : g.bucket \in bs => f.at # g.at
    BY <1>5, <2>4 DEF OnceInv, Beside
  <2>6. \A f \in Facts(ledger) : f.bucket \in bs => k.buckets[f.bucket].last <= f.era
    BY <1>5, <2>4 DEF SumInv, Later
  <2>7. Len(Merged(ledger, k, bs)) <= MaxEntries
    <3>1. ~(Len(Merged(ledger, k, bs)) > MaxEntries)
      BY <1>5, <2>1 DEF UndoReset, Dropping
    <3> DEFINE n == Len(Merged(ledger, k, bs))
    <3>2. n \in Nat /\ MaxEntries \in Nat
      BY <1>0, <2>2, <2>3, MergedParts, Limits
    <3> QED
      BY <3>1, <3>2
  <2>8. UpTo(Facts(ledger), era)
    BY <1>0, <1>a DEF UpTo
  <2> HIDE DEF k, bs
  <2> QED
    BY <1>0, <1>a, <2>1, <2>2, <2>3, <2>5, <2>6, <2>7, <2>8, MergeBacked
<1> QED
  BY <1>1, <1>2, <1>3, <1>4, <1>5, LedgerMoves

\* A stash that is older than some facts is older than fewer.
LEMMA LaterLess ==
  ASSUME NEW r, NEW l, NEW m, Later(r, l), Facts(m) \subseteq Facts(l)
  PROVE  Later(r, m)
BY DEF Later

\* It is older than what is said now.
LEMMA LaterAdded ==
  ASSUME NEW r, NEW l, NEW m, Later(r, l), NEW f, Facts(m) \subseteq Facts(l) \cup {f}, f \in Fact, f.era = era,
         r.of = "ledger" => Backed(r.ledger, era)
  PROVE  Later(r, m)
<1>1. f.bucket \in Buckets
  BY FactFields
<1>2. r.of = "ledger" => r.ledger.buckets[f.bucket].last <= f.era
  BY <1>1 DEF Backed
<1> QED
  BY <1>2 DEF Later

\* A spoilt stash promises nothing.
LEMMA LaterSpoilt ==
  ASSUME NEW r \in Resets, NEW l
  PROVE  /\ r.of = "ledger" => Later(Spoilt(r), l) /\ Later([r EXCEPT !.alone = FALSE], l)
         /\ r.of = "warming" => Later([r EXCEPT !.alone = FALSE], l)
         /\ Later(r, l) => Later(Spoilt(r), l)
<1>1. r.of = "ledger" => Spoilt(r) = [r EXCEPT !.alone = FALSE] /\ ~[r EXCEPT !.alone = FALSE].alone
  BY SpoiltParts DEF Spoilt
<1>2. r.of = "warming" => [r EXCEPT !.alone = FALSE].of = "warming"
  BY SpoiltParts
<1>3. r.of # "ledger" => Spoilt(r) = r
  BY DEF Spoilt
<1> QED
  BY <1>1, <1>2, <1>3 DEF Later

\* A stash that is alone stays older than what is said since.
LEMMA LaterKept ==
  ASSUME TypeInv, TimeInv, SumInv, [Next]_vars, Even'
  PROVE  /\ Later(lastReset', ledger')
         /\ undo'.kept /\ undo'.alone => Later(lastReset', undo'.ledger)
<1> DEFINE Goal == /\ Later(lastReset', ledger')
                   /\ undo'.kept /\ undo'.alone => Later(lastReset', undo'.ledger)
<1>0. /\ Later(lastReset, ledger) /\ Later(stored.lastReset, stored.ledger)
      /\ undo.kept /\ undo.alone => Later(lastReset, undo.ledger)
      /\ lastReset.of = "ledger" => Backed(lastReset.ledger, era)
  BY SlipGrows DEF SumInv, Held, Even, OfReset
<1>a. /\ ~NoUndo.kept /\ ~(Outdated(undo).kept /\ Outdated(undo).alone) /\ lastReset \in Resets
      /\ Typed(ledger) /\ ledger \in Held /\ clock \in Nat /\ era \in 0..MaxEra
  BY UndoParts, HeldTyped DEF NoUndo, TypeInv, Held
<1>b. \A net \in Nets : \A ctx : Later(lastReset, Add(ledger, Entry(clock, era, net, ctx)))
  <2> SUFFICES ASSUME NEW net \in Nets, NEW ctx PROVE Later(lastReset, Add(ledger, Entry(clock, era, net, ctx)))
    OBVIOUS
  <2> DEFINE f == Entry(clock, era, net, ctx)
  <2>1. f \in Fact /\ f.era = era
    BY <1>a, NetsInt, EntryFact
  <2> HIDE DEF f
  <2>2. Facts(Add(ledger, f)) \subseteq Facts(ledger) \cup {f}
    BY <1>a, <2>1, AddLedger
  <2>3. Later(lastReset, Add(ledger, f))
    BY <1>0, <2>1, <2>2, LaterAdded
  <2> QED
    BY <2>3 DEF f
<1>1. ASSUME NEW net \in Nets, NEW ctx, NEW learns, FirstStep(net, ctx, learns) \/ Tap(net, ctx, learns) PROVE Goal
  <2>1. lastReset' = lastReset /\ undo'.ledger = ledger
    BY <1>1 DEF FirstStep, Tap, Capture
  <2>2. ledger' = ledger \/ ledger' = Add(ledger, Entry(clock, era, net, ctx))
    BY <1>1 DEF FirstStep, Tap
  <2> QED
    BY <1>0, <1>b, <2>1, <2>2
<1>2. ASSUME NEW net \in Nets, NEW ctx, Boost(net, ctx) PROVE Goal
  BY <1>a, <1>b, <1>2 DEF Boost
<1>3. ASSUME NEW net \in Nets, Step(net) PROVE Goal
  <2> DEFINE f == Stepped(net)
  <2>1. /\ undo' = undo /\ f \in Fact /\ f.era = era
        /\ Present(ledger, change) => ledger.entries # <<>>
        /\ StepsBy(net) \/ StepsBack(net) \/ StepsOn(net) \/ StepsAgain(net)
    BY <1>3, StepParts
  <2>2. lastReset' \in {lastReset, Spoilt(lastReset)}
    BY <1>3 DEF Step
  <2>3. Facts(ledger') \subseteq Facts(ledger) \cup {f}
    <3>1. CASE StepsBy(net)
      BY <3>1 DEF StepsBy
    <3>2. CASE StepsBack(net) \/ StepsOn(net)
      <4>1. ledger.entries # <<>> /\ ledger' \in {DropLast(ledger), AmendLast(ledger, f)}
        BY <2>1, <3>2 DEF StepsBack, StepsOn
      <4> HIDE DEF f
      <4>2. Facts(ledger) = Facts(DropLast(ledger)) \cup {Last(ledger.entries)}
        BY <1>a, <4>1, DropLedger
      <4>3. Facts(AmendLast(ledger, f)) = Facts(DropLast(ledger)) \cup {f}
        BY <1>a, <2>1, <4>1, AmendLedger
      <4> QED
        BY <4>1, <4>2, <4>3
    <3>3. CASE StepsAgain(net)
      <4>1. ledger' = Add(ledger, f)
        BY <3>3 DEF StepsAgain
      <4> HIDE DEF f
      <4> QED
        BY <1>a, <2>1, <4>1, AddLedger
    <3> QED
      BY <2>1, <3>1, <3>2, <3>3
  <2> HIDE DEF f
  <2>4. Later(lastReset, ledger')
    BY <1>0, <2>1, <2>3, LaterAdded
  <2> QED
    BY <1>0, <1>a, <2>1, <2>2, <2>4, LaterSpoilt
<1>4. ASSUME Settles \/ GraceEnds \/ StormEnds \/ HalfLife \/ RunStarts \/ Save \/ Export PROVE Goal
  BY <1>0, <1>a, <1>4 DEF Settles, GraceEnds, StormEnds, HalfLife, RunStarts, Save, Export
<1>5. ASSUME SchedulerCausedIt PROVE Goal
  <2>1. undo.kept /\ ledger' = undo.ledger /\ undo' = NoUndo
        /\ lastReset' = IF undo.alone THEN lastReset ELSE Spoilt(lastReset)
    BY <1>5 DEF SchedulerCausedIt
  <2>2. Later(Spoilt(lastReset), undo.ledger)
    <3>1. lastReset.of # "ledger" => Spoilt(lastReset) = lastReset /\ Later(lastReset, undo.ledger)
      BY DEF Spoilt, Later
    <3> QED
      BY <1>a, <3>1, LaterSpoilt
  <2> QED
    BY <1>0, <1>a, <2>1, <2>2
<1>6. ASSUME NEW clean, RunEnds(clean) PROVE Goal
  BY <1>0, <1>6 DEF RunEnds
<1>7. ASSUME NEW bs \in SUBSET Buckets, Reset(bs) PROVE Goal
  <2>1. ledger' = ResetBuckets(ledger, bs) /\ undo' = Outdated(undo)
    BY <1>7 DEF Reset
  <2>2. Facts(ledger') = {f \in Facts(ledger) : f.bucket \notin bs}
    BY <1>a, <2>1, ResetLedger
  <2>3. CASE HasContent(ledger, bs)
    <3>1. lastReset'.buckets = bs
      BY <1>7, <2>3 DEF Reset
    <3>2. Later(lastReset', ledger')
      BY <2>2, <3>1 DEF Later
    <3> QED
      BY <1>a, <2>1, <3>2
  <2>4. CASE ~HasContent(ledger, bs)
    <3>1. lastReset' = lastReset
      BY <1>7, <2>4 DEF Reset
    <3>2. Later(lastReset, ledger')
      BY <1>0, <2>2, LaterLess
    <3> QED
      BY <1>a, <2>1, <3>1, <3>2
  <2> QED
    BY <2>3, <2>4
<1>8. ASSUME ResetWarming PROVE Goal
  <2>1. lastReset' = lastReset \/ lastReset'.of = "warming"
    BY <1>8 DEF ResetWarming
  <2>2. ledger' = ledger /\ undo' = undo
    BY <1>8 DEF ResetWarming
  <2>3. lastReset'.of = "warming" => \A l : Later(lastReset', l)
    BY DEF Later
  <2> QED
    BY <1>0, <2>1, <2>2, <2>3
<1>9. ASSUME UndoReset PROVE Goal
  <2>1. lastReset' = NoReset /\ undo' = Outdated(undo)
    BY <1>9 DEF UndoReset
  <2>2. \A l : Later(NoReset, l)
    BY DEF Later, NoReset
  <2> QED
    BY <1>a, <2>1, <2>2
<1>10. ASSUME NEW parts, Import(parts) PROVE Goal
  <2>1. CASE "ledger" \in parts
    <3>1. undo' = Outdated(undo)
      BY <1>10, <2>1 DEF Import
    <3>2. CASE lastReset.of = "ledger"
      <4>1. lastReset' = [lastReset EXCEPT !.alone = FALSE]
        BY <1>10, <2>1, <3>2 DEF Import
      <4>2. Later(lastReset', ledger')
        BY <1>a, <3>2, <4>1, LaterSpoilt
      <4> QED
        BY <1>a, <3>1, <4>2
    <3>3. CASE lastReset.of # "ledger"
      <4>1. \/ lastReset' = lastReset
            \/ lastReset' = [lastReset EXCEPT !.alone = FALSE] /\ lastReset.of = "warming"
        BY <1>10, <3>3 DEF Import
      <4>2. lastReset'.of # "ledger"
        BY <1>a, <3>3, <4>1, SpoiltParts
      <4>3. Later(lastReset', ledger')
        BY <4>2 DEF Later
      <4> QED
        BY <1>a, <3>1, <4>3
    <3> QED
      BY <3>2, <3>3
  <2>2. CASE "ledger" \notin parts
    <3>1. ledger' = ledger /\ undo' = undo
      BY <1>10, <2>2 DEF Import
    <3>2. CASE lastReset' = lastReset
      BY <1>0, <3>1, <3>2
    <3>3. CASE lastReset' # lastReset
      <4>1. lastReset.of = "warming" /\ lastReset' = [lastReset EXCEPT !.alone = FALSE]
        BY <1>10, <2>2, <3>3 DEF Import
      <4>2. lastReset'.of = "warming"
        BY <1>a, <4>1, SpoiltParts
      <4>3. \A l : Later(lastReset', l)
        BY <4>2 DEF Later
      <4> QED
        BY <4>3
    <3> QED
      BY <3>2, <3>3
  <2> QED
    BY <2>1, <2>2
<1>11. ASSUME Reload \/ Crash PROVE Goal
  <2>1. PICK d \in {Data, stored} : Loaded(d)
    BY <1>11 DEF Reload, Crash
  <2>2. Later(d.lastReset, d.ledger)
    BY <1>0, <2>1 DEF Data
  <2> QED
    BY <1>a, <2>1, <2>2 DEF Loaded
<1>12. ASSUME UNCHANGED vars PROVE Goal
  BY <1>0, <1>12 DEF vars
<1> HIDE DEF Goal
<1>13. Goal
  <2>1. CASE Next
    BY <2>1, <1>1, <1>2, <1>3, <1>4, <1>5, <1>6, <1>7, <1>8, <1>9, <1>10, <1>11, BothKinds DEF Next
  <2> QED
    BY <2>1, <1>12
<1> QED
  BY <1>13 DEF Goal

\* Every step keeps the statistics of all that is held.
LEMMA SumsKept == TypeInv /\ TimeInv /\ OnceInv /\ SumInv /\ [Next]_vars => SumInv'
<1> SUFFICES ASSUME TypeInv, TimeInv, OnceInv, SumInv, [Next]_vars, Even'
             PROVE  /\ \A l \in Held' : Backed(l, era')
                    /\ Later(lastReset', ledger') /\ Later(stored'.lastReset, stored'.ledger)
                    /\ undo'.kept /\ undo'.alone => Later(lastReset', undo'.ledger)
  BY DEF SumInv
<1>1. Backed(ledger', era)
  BY BackedKept
<1>2. /\ (\A l \in Held : Backed(l, era)) /\ Later(lastReset, ledger) /\ Later(stored.lastReset, stored.ledger)
  BY SlipGrows DEF SumInv, Even
<1>3. \A l \in Held' : Backed(l, era)
  BY <1>1, <1>2, HeldKept
<1>4. \A l \in Held' : Typed(l)
  <2>1. \A l \in Held : Typed(l)
    BY HeldTyped
  <2>2. Typed(ledger')
    BY TypeKept, SoundTyped DEF TypeInv
  <2> QED
    BY <2>1, <2>2, HeldKept
<1>5. era \in 0..MaxEra /\ era' \in 0..MaxEra /\ era <= era'
  <2>1. era \in 0..MaxEra /\ era' \in 0..MaxEra /\ era \in Nat
    BY TypeKept, Eras DEF TypeInv
  <2>2. era' = era \/ era' = era + 1
    BY ClockMoves
  <2> QED
    BY <2>1, <2>2
<1>6. \A l \in Held' : Backed(l, era')
  BY <1>3, <1>4, <1>5, BackedLater
<1>7. /\ Later(lastReset', ledger')
      /\ undo'.kept /\ undo'.alone => Later(lastReset', undo'.ledger)
  BY LaterKept
<1>8. stored' \in {stored, Data, Data'}
  BY HeldFrame
<1>9. /\ Data.ledger = ledger /\ Data.lastReset = lastReset
      /\ (Data').ledger = ledger' /\ (Data').lastReset = lastReset'
  BY DEF Data
<1>10. Later(stored'.lastReset, stored'.ledger)
  BY <1>2, <1>7, <1>8, <1>9
<1> QED
  BY <1>6, <1>7, <1>10

-----------------------------------------------------------------------------
(***************************************************************************)
(* What is applied is backed.                                              *)
(***************************************************************************)
\* A fact is worth its weight at most.
LEMMA WorthAtMost ==
  ASSUME NEW f \in Fact, NEW e \in 0..MaxEra, f.era <= e
  PROVE  /\ Baseline!Worth(f, e) \in Nat /\ Baseline!Worth(f, e) <= f.weight * Whole
         /\ f.weight * Whole \in Nat
<1> DEFINE u == Unit[e - f.era]
<1>1. f.weight \in {1, 2} /\ f.era \in Nat /\ f.era <= MaxEra
  BY FactFields, Eras
<1>2. e - f.era \in 0..MaxEra
  BY <1>1, Eras
<1>3. u \in Nat /\ u <= Whole /\ Whole \in Nat
  BY <1>2, UnitHalves, Eras
<1>4. Baseline!Worth(f, e) = f.weight * u
  BY DEF Baseline!Worth
<1> HIDE DEF u
<1> QED
  BY <1>1, <1>3, <1>4

\* One fact never amounts to more than twice a whole.
LEMMA OneWord ==
  ASSUME NEW F, Together(F), NEW e \in 0..MaxEra, UpTo(F, e), NEW part \in {"pos", "neg"}, NEW h \in F,
         \A f \in F : f # h => Baseline!Share(f, e, part) = 0
  PROVE  Tot(F, e, part) <= 2 * Whole
<1> DEFINE v == Baseline!Shares(F, e, part)
           m == h.at
<1>1. /\ m \in 1..MaxFacts /\ h \in Fact /\ h.era <= e
      /\ \A f \in F : f # h => f.at # m
  BY DEF Together, UpTo
<1>2. \A f \in F : v[f.at] = Baseline!Share(f, e, part)
  BY SharesAt
<1>3. \A n \in 1..MaxFacts : (\A f \in F : f.at # n) => v[n] = 0
  BY SharesAt
<1>4. ASSUME NEW n \in 1..MaxFacts, n # m PROVE v[n] = 0
  <2>1. CASE \E f \in F : f.at = n
    <3>1. PICK f \in F : f.at = n
      BY <2>1
    <3>2. f # h
      BY <1>4, <3>1
    <3> QED
      BY <1>2, <3>1, <3>2
  <2>2. CASE \A f \in F : f.at # n
    BY <1>3, <2>2
  <2> QED
    BY <2>1, <2>2
<1>5. v[m] = Baseline!Share(h, e, part)
  BY <1>2
<1>6. Baseline!Share(h, e, part) \in {0, Baseline!Worth(h, e)}
  BY ShareOfPart
<1>7. Baseline!Worth(h, e) \in Nat \ {0} /\ Baseline!Worth(h, e) <= 2 * Whole /\ Whole \in Nat
  BY <1>1, WorthPositive, Eras
<1>8. v[m] \in Int /\ v[m] <= 2 * Whole
  BY <1>5, <1>6, <1>7
<1> HIDE DEF v, m
<1>9. Baseline!Total(v) = v[m]
  BY <1>1, <1>4, <1>8, TotalOne
<1> QED
  BY <1>8, <1>9 DEF Tot, v

\* Nor two of them to more than they weigh.
LEMMA TwoOnly ==
  ASSUME NEW F, Together(F), NEW e \in 0..MaxEra, UpTo(F, e), NEW part \in {"pos", "neg"},
         NEW g \in F, NEW h \in F, g # h,
         \A f \in F : f \notin {g, h} => Baseline!Share(f, e, part) = 0
  PROVE  Tot(F, e, part) <= (g.weight + h.weight) * Whole
<1> DEFINE v == Baseline!Shares(F, e, part)
           k == g.at
           m == h.at
           w == [n \in 1..MaxFacts |-> IF n = m THEN 0 ELSE v[n]]
<1>1. /\ m \in 1..MaxFacts /\ h \in Fact /\ h.era <= e
      /\ k \in 1..MaxFacts /\ g \in Fact /\ g.era <= e /\ k # m
      /\ \A f \in F : f \notin {g, h} => f.at \notin {k, m}
  BY DEF Together, UpTo
<1>2. \A f \in F : v[f.at] = Baseline!Share(f, e, part)
  BY SharesAt
<1>3. \A n \in 1..MaxFacts : (\A f \in F : f.at # n) => v[n] = 0
  BY SharesAt
<1>4. ASSUME NEW n \in 1..MaxFacts, n \notin {k, m} PROVE v[n] = 0
  <2>1. CASE \E f \in F : f.at = n
    <3>1. PICK f \in F : f.at = n
      BY <2>1
    <3>2. f \notin {g, h}
      BY <1>4, <3>1
    <3> QED
      BY <1>2, <3>1, <3>2
  <2>2. CASE \A f \in F : f.at # n
    BY <1>3, <2>2
  <2> QED
    BY <2>1, <2>2
<1>5. ASSUME NEW f \in {g, h}
      PROVE  v[f.at] \in Int /\ v[f.at] <= f.weight * Whole /\ f.weight * Whole \in Nat
  <2>1. v[f.at] = Baseline!Share(f, e, part)
    BY <1>2
  <2>2. Baseline!Share(f, e, part) \in {0, Baseline!Worth(f, e)}
    BY ShareOfPart
  <2>3. f \in Fact /\ f.era <= e
    BY <1>1
  <2>4. Baseline!Worth(f, e) \in Nat /\ Baseline!Worth(f, e) <= f.weight * Whole /\ f.weight * Whole \in Nat
    BY <2>3, WorthAtMost
  <2> QED
    BY <2>1, <2>2, <2>4
<1>6. IntsBy(w) /\ \A n \in 1..MaxFacts : v[n] = IF n = m THEN w[n] + v[m] ELSE w[n]
  <2>1. \A n \in 1..MaxFacts : v[n] \in Int
    <3>1. v[k] \in Int /\ v[m] \in Int
      BY <1>5
    <3> QED
      BY <1>4, <3>1
  <2> HIDE DEF v
  <2> QED
    BY <1>1, <2>1 DEF IntsBy
<1>7. w[k] = v[k] /\ \A n \in 1..MaxFacts : n # k => w[n] = 0
  BY <1>1, <1>4
<1>8. v[k] \in Int /\ v[m] \in Int
  BY <1>5
<1> DEFINE d == v[m]
<1> HIDE DEF v, w
<1>9. Baseline!Total(w) = v[k]
  BY <1>1, <1>7, <1>8, TotalOne
<1>10. Baseline!Total(v) = Baseline!Total(w) + d
  <2>1. d \in Int /\ m \in 1..MaxFacts /\ IntsBy(w)
    BY <1>1, <1>6, <1>8
  <2>2. \A n \in 1..MaxFacts : v[n] = IF n = m THEN w[n] + d ELSE w[n]
    BY <1>6
  <2> HIDE DEF d, m
  <2> QED
    BY <2>1, <2>2, TotalPlus
<1>11. v[k] <= g.weight * Whole /\ v[m] <= h.weight * Whole /\ g.weight * Whole \in Nat /\ h.weight * Whole \in Nat
  BY <1>5
<1>12. (g.weight + h.weight) * Whole = g.weight * Whole + h.weight * Whole
  BY <1>1, FactFields, Eras, TimesSum
<1> QED
  BY <1>8, <1>9, <1>10, <1>11, <1>12 DEF Tot, v, d

\* Without a fact that says so there is no evidence.
LEMMA NoWord ==
  ASSUME NEW F, Together(F), NEW e, NEW part, \A f \in F : Baseline!Share(f, e, part) = 0
  PROVE  Tot(F, e, part) = 0
<1> DEFINE v == Baseline!Shares(F, e, part)
<1>1. /\ \A f \in F : v[f.at] = Baseline!Share(f, e, part)
      /\ \A n \in 1..MaxFacts : (\A f \in F : f.at # n) => v[n] = 0
  BY SharesAt
<1>2. \A n \in 1..MaxFacts : v[n] = 0
  BY <1>1
<1> HIDE DEF v
<1>3. Baseline!Total(v) = 0
  BY <1>2, TotalZero
<1> QED
  BY <1>3 DEF Tot, v

\* As much as a correction needs comes of two facts at least.
LEMMA TwoWords ==
  ASSUME NEW F, Together(F), NEW e \in 0..MaxEra, UpTo(F, e), NEW part \in {"pos", "neg"},
         Tot(F, e, part) >= MinEvents * Whole
  PROVE  \E f, g \in F : f # g /\ Baseline!Share(f, e, part) # 0 /\ Baseline!Share(g, e, part) # 0
<1>1. MinEvents * Whole > 2 * Whole /\ 2 * Whole > 0 /\ MinEvents * Whole \in Nat /\ 2 * Whole \in Nat
  <2>1. MinEvents \in Nat /\ MinEvents > 2 /\ Whole \in Nat \ {0}
    BY Eras, LearningAssumption
  <2>2. \A w \in Nat \ {0}, m \in Nat : m > 2 => m * w > 2 * w /\ 2 * w > 0 /\ m * w \in Nat /\ 2 * w \in Nat
    <3>1. ASSUME NEW w \in Nat \ {0}, NEW m \in Nat, m > 2 PROVE m * w > 2 * w /\ 2 * w > 0 /\ m * w \in Nat /\ 2 * w \in Nat
      <4>1. m - 3 \in Nat
        BY <3>1
      <4>2. (m - 3) * w \in Nat
        BY <4>1
      <4>3. m * w = (m - 3) * w + 3 * w
        BY <4>1
      <4> QED
        BY <4>2, <4>3
    <3> QED
      BY <3>1
  <2> QED
    BY <2>1, <2>2
<1>2. Tot(F, e, part) \in Nat
  BY TotType
<1>3. PICK h \in F : Baseline!Share(h, e, part) # 0
  <2>1. (\A f \in F : Baseline!Share(f, e, part) = 0) => Tot(F, e, part) = 0
    BY NoWord
  <2> QED
    BY <1>1, <1>2, <2>1
<1>4. PICK g \in F : g # h /\ Baseline!Share(g, e, part) # 0
  <2>1. (\A f \in F : f # h => Baseline!Share(f, e, part) = 0) => Tot(F, e, part) <= 2 * Whole
    BY OneWord
  <2> QED
    BY <1>1, <1>2, <2>1
<1> QED
  BY <1>3, <1>4

\* And when these two do not weigh as much as it needs, a third has a part in it.
LEMMA ThreeWords ==
  ASSUME NEW F, Together(F), NEW e \in 0..MaxEra, UpTo(F, e), NEW part \in {"pos", "neg"},
         Tot(F, e, part) >= MinEvents * Whole
  PROVE  \E f, g \in F :
           /\ f # g /\ Baseline!Share(f, e, part) # 0 /\ Baseline!Share(g, e, part) # 0
           /\ \/ f.weight + g.weight >= MinEvents
              \/ \E h \in F : h \notin {f, g} /\ Baseline!Share(h, e, part) # 0
<1>1. PICK f, g \in F : f # g /\ Baseline!Share(f, e, part) # 0 /\ Baseline!Share(g, e, part) # 0
  BY TwoWords
<1>2. f.weight \in Nat /\ g.weight \in Nat /\ Whole \in Nat \ {0} /\ MinEvents \in Nat
  BY FactFields, Eras, LearningAssumption DEF Together
<1>3. Tot(F, e, part) \in Nat
  BY TotType
<1>4. ASSUME \A h \in F : h \notin {f, g} => Baseline!Share(h, e, part) = 0
      PROVE  f.weight + g.weight >= MinEvents
  <2>1. Tot(F, e, part) <= (f.weight + g.weight) * Whole
    BY <1>1, <1>4, TwoOnly
  <2>2. \A a, b \in Nat, w \in Nat \ {0} : b * w <= a * w => a >= b
    <3>1. ASSUME NEW a \in Nat, NEW b \in Nat, NEW w \in Nat \ {0}, a < b PROVE b * w > a * w
      <4>1. b - a - 1 \in Nat
        BY <3>1
      <4>2. (b - a - 1) * w \in Nat /\ a * w \in Nat
        BY <4>1
      <4>3. b * w = (b - a - 1) * w + a * w + w
        BY <4>1
      <4> QED
        BY <4>2, <4>3
    <3>2. ASSUME NEW a \in Nat, NEW b \in Nat, NEW w \in Nat \ {0} PROVE a * w \in Nat /\ b * w \in Nat
      BY <3>2
    <3> QED
      BY <3>1, <3>2
  <2>3. f.weight + g.weight \in Nat
    BY <1>2
  <2>4. (f.weight + g.weight) * Whole \in Nat /\ MinEvents * Whole \in Nat
    BY <1>2, <2>3
  <2>5. MinEvents * Whole <= (f.weight + g.weight) * Whole
    BY <1>3, <2>1, <2>4
  <2> QED
    BY <1>2, <2>2, <2>3, <2>5
<1> QED
  BY <1>1, <1>4

\* Two facts at least back what has enough evidence, and three when none of the two weighs more than once.
LEMMA BackingFacts ==
  ASSUME TypeInv, TimeInv, SumInv, Even, NEW b \in Buckets, Correction(b) # 0
  PROVE  \E f, g \in Facts(ledger) :
           /\ Backs(f, b) /\ Backs(g, b) /\ f.at # g.at
           /\ f.weight + g.weight >= MinEvents \/ \E h \in Facts(ledger) : Backs(h, b) /\ h.at \notin {f.at, g.at}
<1> DEFINE s == Decay(ledger.buckets[b], era)
           F == FactsOf(ledger, b)
           part == IF s.pos >= s.neg THEN "pos" ELSE "neg"
<1>0. era \in 0..MaxEra
  BY DEF TypeInv
<1>1. Tallies(ledger.buckets[b], F) /\ ledger.buckets[b].last <= era
  BY DEF SumInv, Held, Backed
<1>2. Amounts(s, F, era) /\ UpTo(F, era) /\ s \in Stats /\ Together(F)
  BY <1>0, <1>1, DecayTallies DEF Tallies
<1> HIDE DEF s, F
<1>3. /\ Correction(b) = IF s.pos >= s.neg THEN 1 ELSE -1
      /\ ~((IF s.pos >= s.neg THEN s.pos ELSE s.neg) < MinEvents * Whole)
  BY DEF Correction, s
<1>4. Tot(F, era, part) = IF s.pos >= s.neg THEN s.pos ELSE s.neg
  BY <1>2 DEF Amounts
<1>5. Tot(F, era, part) >= MinEvents * Whole
  <2>1. s.pos \in Nat /\ s.neg \in Nat /\ MinEvents * Whole \in Int
    BY <1>2, StatsFields, Eras, LearningAssumption
  <2> QED
    BY <1>3, <1>4, <2>1
<1>6. part \in {"pos", "neg"}
  OBVIOUS
<1> HIDE DEF part
<1>7. PICK f, g \in F :
        /\ f # g /\ Baseline!Share(f, era, part) # 0 /\ Baseline!Share(g, era, part) # 0
        /\ \/ f.weight + g.weight >= MinEvents
           \/ \E h \in F : h \notin {f, g} /\ Baseline!Share(h, era, part) # 0
  BY <1>0, <1>2, <1>5, <1>6, ThreeWords
<1>8. \A x, y \in F : x \in Fact /\ (x # y => x.at # y.at)
  BY <1>2 DEF Together
<1>9. ASSUME NEW h \in Fact, Baseline!Share(h, era, part) # 0 PROVE h.net * Correction(b) > 0
  <2>1. h.net \in Int
    BY FactFields
  <2>2. CASE s.pos >= s.neg
    <3>1. Correction(b) = 1 /\ h.net > 0
      BY <1>3, <1>9, <2>2, ShareOfPart DEF part
    <3> QED
      BY <2>1, <3>1
  <2>3. CASE ~(s.pos >= s.neg)
    <3>1. Correction(b) = -1 /\ h.net < 0
      BY <1>3, <1>9, <2>3, ShareOfPart DEF part
    <3> QED
      BY <2>1, <3>1
  <2> QED
    BY <2>2, <2>3
<1>10. \A h \in F : h \in Facts(ledger) /\ h.bucket = b
  BY DEF F, FactsOf
<1>11. \A h \in F : Baseline!Share(h, era, part) # 0 => h \in Facts(ledger) /\ Backs(h, b)
  BY <1>8, <1>9, <1>10 DEF Backs
<1>12. f.at # g.at /\ \A h \in F : h \notin {f, g} => h.at \notin {f.at, g.at}
  BY <1>7, <1>8
<1> QED
  BY <1>7, <1>11, <1>12

(* A correction that is applied has changes in its direction behind it, two *)
(* that weigh enough together or a third, however the statistics were      *)
(* amended, faded, merged and restored.                                    *)
THEOREM CorrectionsAreBacked == Spec => []AppliedIsBacked
<1>1. TypeInv /\ TimeInv /\ SumInv => AppliedIsBacked
  BY BackingFacts DEF AppliedIsBacked, Even
<1>2. Init => TypeInv /\ TimeInv /\ OnceInv /\ SumInv
  BY TypeStarts, TimeStarts, OnceStarts, SumsStart
<1>3. TypeInv /\ TimeInv /\ OnceInv /\ SumInv /\ [Next]_vars => (TypeInv /\ TimeInv /\ OnceInv /\ SumInv)'
  BY TypeKept, TimeKept, OnceKept, SumsKept
<1> QED
  BY <1>1, <1>2, <1>3, PTL DEF Spec

-----------------------------------------------------------------------------
(***************************************************************************)
(* A change in steps is one change.                                        *)
(***************************************************************************)
Folding == change.pending /\ change.learns /\ change.alone

StepInv == Even /\ Folding =>
  \/ change.net = 0 /\ change.entryAt = 0 /\ ledger.entries = change.before.entries
  \/ change.net # 0 /\ change.entryAt = change.at /\ ledger.entries = Append(change.before.entries, Stepped(change.net))

\* A change that is alone after a step has just begun, has been stepped, or nothing touched it.
LEMMA FoldMoves ==
  ASSUME TypeInv, [Next]_vars, Folding'
  PROVE  \/ UNCHANGED <<change, ledger, era>>
         \/ \E net \in Nets \ {0}, ctx \in Contexts \cup {NoContext}, learns \in BOOLEAN : FirstStep(net, ctx, learns)
         \/ \E net \in Nets : Step(net)
<1> DEFINE Goal == \/ UNCHANGED <<change, ledger, era>>
                   \/ \E net \in Nets \ {0}, ctx \in Contexts \cup {NoContext}, learns \in BOOLEAN : FirstStep(net, ctx, learns)
                   \/ \E net \in Nets : Step(net)
<1>0. /\ change'.pending /\ change'.alone /\ ~NoChange.pending
      /\ Disturbed(change).pending => ~Disturbed(change).alone
  BY DisturbedParts DEF Folding, TypeInv, NoChange
<1>1. ASSUME NEW net \in Nets \ {0}, NEW ctx \in Contexts \cup {NoContext}, NEW learns \in BOOLEAN, FirstStep(net, ctx, learns)
      PROVE  Goal
  BY <1>1
<1>2. ASSUME NEW net \in Nets, Step(net) PROVE Goal
  BY <1>2
<1>3. ASSUME NEW net, NEW ctx, NEW learns, Tap(net, ctx, learns) PROVE Goal
  BY <1>0, <1>3 DEF Tap
<1>4. ASSUME NEW net, NEW ctx, Boost(net, ctx) PROVE Goal
  BY <1>0, <1>4 DEF Boost
<1>5. ASSUME Settles \/ GraceEnds \/ StormEnds \/ RunStarts \/ Save \/ SchedulerCausedIt \/ ResetWarming \/ Export PROVE Goal
  BY <1>0, <1>5 DEF Settles, GraceEnds, StormEnds, RunStarts, Save, SchedulerCausedIt, ResetWarming, Export
<1>6. ASSUME HalfLife PROVE Goal
  BY <1>0, <1>6 DEF HalfLife, Quiet
<1>7. ASSUME NEW clean, RunEnds(clean) PROVE Goal
  BY <1>7 DEF RunEnds
<1>8. ASSUME NEW bs, Reset(bs) PROVE Goal
  BY <1>0, <1>8 DEF Reset
<1>9. ASSUME UndoReset PROVE Goal
  BY <1>0, <1>9 DEF UndoReset
<1>10. ASSUME NEW parts, Import(parts) PROVE Goal
  BY <1>0, <1>10 DEF Import
<1>11. ASSUME Reload \/ Crash PROVE Goal
  BY <1>0, <1>11 DEF Reload, Crash, Loaded
<1>12. ASSUME UNCHANGED vars PROVE Goal
  BY <1>12 DEF vars
<1> HIDE DEF Goal
<1>13. Goal
  <2>1. CASE Next
    <3>1. /\ \A ctx \in Contexts : ctx \in Contexts \cup {NoContext}
          /\ NoContext \in Contexts \cup {NoContext} /\ TRUE \in BOOLEAN /\ FALSE \in BOOLEAN
      OBVIOUS
    <3> QED
      BY <2>1, <3>1, <1>1, <1>2, <1>3, <1>4, <1>5, <1>6, <1>7, <1>8, <1>9, <1>10, <1>11 DEF Next
  <2> QED
    BY <2>1, <1>12
<1> QED
  BY <1>13 DEF Goal

\* No change is being folded at first.
LEMMA StepsStart == Init => StepInv
BY DEF Init, NoChange, StepInv, Folding

\* What a change that is said anew does to the entries of a ledger that has room.
LEMMA AddedAtTheEnd ==
  ASSUME NEW l, Typed(l), NEW f \in Fact, NEW q, q = slip \cup Dropping(Full(l)), "dropped" \notin q
  PROVE  Add(l, f).entries = Append(l.entries, f)
<1>1. ~Full(l)
  BY DEF Dropping
<1> QED
  BY <1>1, AddLedger

\* What one more step makes of the entries.
LEMMA StepsFold ==
  ASSUME TypeInv, TimeInv, StepInv, NEW net \in Nets, Step(net), Even', Even, Folding'
  PROVE  \/ net = 0 /\ change'.entryAt = 0 /\ ledger'.entries = change.before.entries
         \/ net # 0 /\ change'.entryAt = change.at /\ ledger'.entries = Append(change.before.entries, Stepped(net))
<1> DEFINE f == Stepped(net)
           old == Stepped(change.net)
           s == change.before.entries
<1>1. /\ net \in Int /\ f \in Fact /\ f.at = change.at /\ change.at >= 1 /\ change.at \in Nat
      /\ Folding /\ change.entryAt \in {0, change.at}
      /\ Present(ledger, change) => ledger.entries # <<>> /\ change.entryAt = change.at
      /\ StepsBy(net) \/ StepsBack(net) \/ StepsOn(net) \/ StepsAgain(net)
  BY StepParts DEF Folding, TimeInv
<1>2. change.net # net /\ change.learns
  BY <1>1 DEF Step, Folding
<1>3. change \in Folds /\ change.net \in Int /\ change.ctx \in Contexts \cup {NoContext} /\ change.before \in Sound
  BY <1>1, ChangeParts DEF TypeInv, Folding, Folds
<1>4. old \in Fact /\ old.at = change.at
  BY <1>1, <1>3, EntryFact DEF Stepped, TypeInv
<1>5. s \in Seq(Fact) /\ Typed(ledger)
  BY <1>3, SoundTyped, LedgerParts DEF Typed, TypeInv
<1> HIDE DEF f, old, s
<1>6. CASE change.net = 0
  <2>1. change.entryAt = 0 /\ ledger.entries = s
    BY <1>1, <1>6 DEF StepInv, s
  <2>2. ~Present(ledger, change) /\ net # 0
    BY <1>1, <1>2, <1>6, <2>1
  <2>3. StepsAgain(net)
    BY <1>1, <1>2, <2>1, <2>2 DEF StepsBy, StepsBack, StepsOn
  <2>4. ledger' = Add(ledger, f) /\ change'.entryAt = change.at /\ ~Full(ledger)
    BY <2>3 DEF StepsAgain, f, Even, Dropping
  <2>5. ledger'.entries = Append(ledger.entries, f)
    BY <1>1, <1>5, <2>4, AddLedger
  <2> QED
    BY <2>1, <2>2, <2>4, <2>5 DEF f, s
<1>7. CASE change.net # 0
  <2>1. change.entryAt = change.at /\ ledger.entries = Append(s, old)
    BY <1>1, <1>7 DEF StepInv, s, old
  <2>2. ledger.entries # <<>> /\ Last(ledger.entries) = old /\ Front(ledger.entries) = s
    BY <1>4, <1>5, <2>1, AppendLast
  <2>3. Present(ledger, change) /\ change.entryAt # 0
    BY <1>1, <1>4, <2>1, <2>2 DEF Present
  <2>4. CASE StepsBack(net)
    <3>1. ledger' = DropLast(ledger) /\ net = 0 /\ change'.entryAt = 0
      BY <2>4 DEF StepsBack
    <3>2. DropLast(ledger).entries = Front(ledger.entries)
      BY <1>5, <2>2, DropLedger
    <3> QED
      BY <2>2, <3>1, <3>2 DEF s
  <2>5. CASE StepsOn(net)
    <3>1. ledger' = AmendLast(ledger, f) /\ net # 0 /\ change'.entryAt = change.at
      BY <2>5 DEF StepsOn, f
    <3>2. AmendLast(ledger, f).entries = Append(Front(ledger.entries), f)
      BY <1>1, <1>5, <2>2, AmendLedger
    <3> QED
      BY <2>2, <3>1, <3>2 DEF s, f
  <2> QED
    BY <1>1, <1>2, <2>3, <2>4, <2>5 DEF StepsBy, StepsAgain
<1> QED
  BY <1>6, <1>7

\* Every step keeps the entries those of one change.
LEMMA StepsKept == TypeInv /\ TimeInv /\ StepInv /\ [Next]_vars => StepInv'
<1> SUFFICES ASSUME TypeInv, TimeInv, StepInv, [Next]_vars, Even', Folding'
             PROVE  \/ change'.net = 0 /\ change'.entryAt = 0 /\ ledger'.entries = change'.before.entries
                    \/ /\ change'.net # 0 /\ change'.entryAt = change'.at
                       /\ ledger'.entries = Append(change'.before.entries, Entry(change'.at, era', change'.net, change'.ctx))
  BY DEF StepInv, Stepped
<1>0. Even
  BY SlipGrows DEF Even
<1>1. CASE UNCHANGED <<change, ledger, era>>
  <2>1. Folding
    BY <1>1 DEF Folding
  <2>2. Entry(change'.at, era', change'.net, change'.ctx) = Stepped(change.net)
    BY <1>1 DEF Stepped
  <2> QED
    BY <1>0, <1>1, <2>1, <2>2 DEF StepInv
<1>2. ASSUME NEW net \in Nets \ {0}, NEW ctx \in Contexts \cup {NoContext}, NEW learns \in BOOLEAN, FirstStep(net, ctx, learns)
      PROVE  change'.net # 0 /\ change'.entryAt = change'.at /\ ledger'.entries = Append(change'.before.entries, Entry(change'.at, era', change'.net, change'.ctx))
  <2> DEFINE f == Entry(clock, era, net, ctx)
  <2>1. /\ change'.net = net /\ change'.at = clock /\ change'.ctx = ctx /\ change'.before = ledger /\ era' = era
        /\ change'.learns = (learns /\ ~Storm)
        /\ change'.entryAt = IF learns /\ ~Storm THEN clock ELSE 0
    BY <1>2 DEF FirstStep
  <2>2. learns /\ ~Storm
    BY <2>1 DEF Folding
  <2>3. ledger' = Add(ledger, f) /\ slip' = slip \cup Dropping(Full(ledger))
    BY <1>2, <2>2 DEF FirstStep, Dropping
  <2>4. f \in Fact /\ Typed(ledger)
    BY NetsInt, EntryFact, SoundTyped DEF TypeInv
  <2>5. Entry(change'.at, era', change'.net, change'.ctx) = f
    BY <2>1 DEF Stepped
  <2> HIDE DEF f
  <2>6. Add(ledger, f).entries = Append(ledger.entries, f)
    BY <2>3, <2>4, AddedAtTheEnd DEF Even
  <2> QED
    BY <2>1, <2>2, <2>3, <2>5, <2>6
<1>3. ASSUME NEW net \in Nets, Step(net)
      PROVE  \/ change'.net = 0 /\ change'.entryAt = 0 /\ ledger'.entries = change'.before.entries
             \/ /\ change'.net # 0 /\ change'.entryAt = change'.at
                /\ ledger'.entries = Append(change'.before.entries, Entry(change'.at, era', change'.net, change'.ctx))
  <2>1. /\ change'.net = net /\ change'.at = change.at /\ change'.ctx = change.ctx
        /\ change'.before = change.before /\ era' = era
    BY <1>3, StepParts
  <2>2. Entry(change'.at, era', change'.net, change'.ctx) = Stepped(net)
    BY <2>1 DEF Stepped
  <2> QED
    BY <1>0, <1>3, <2>1, <2>2, StepsFold
<1> QED
  BY <1>1, <1>2, <1>3, FoldMoves

\* Statistics of the same facts are the same now.
LEMMA SameNow ==
  ASSUME NEW l, NEW m, era \in 0..MaxEra, Backed(l, era), Backed(m, era), l.entries = m.entries
  PROVE  Weighed(l) = Weighed(m)
<1>1. Facts(l) = Facts(m)
  BY DEF Facts
<1>2. ASSUME NEW b \in Buckets PROVE AsOf(l.buckets[b]) = AsOf(m.buckets[b])
  <2> DEFINE s == l.buckets[b]
             t == m.buckets[b]
             F == FactsOf(l, b)
  <2>1. Tallies(s, F) /\ s.last <= era /\ Tallies(t, F) /\ t.last <= era
    BY <1>1 DEF Backed, FactsOf
  <2> HIDE DEF s, t, F
  <2>2. Amounts(Decay(s, era), F, era) /\ Amounts(Decay(t, era), F, era)
    BY <2>1, DecayTallies
  <2>3. AsOf(s) = AsOf(t)
    BY <2>2 DEF AsOf, Amounts
  <2> QED
    BY <2>3 DEF s, t
<1> QED
  BY <1>2 DEF Weighed

(* After any number of steps, there and back, the ledger is what one change *)
(* from the first target to the last would have made of it (D67).          *)
THEOREM StepsAreOneChange == Spec => []SteppedAsOne
<1>1. TypeInv /\ TimeInv /\ OnceInv /\ SumInv /\ StepInv => SteppedAsOne
  <2> SUFFICES ASSUME TypeInv, TimeInv, OnceInv, SumInv, StepInv, Even, Folding
               PROVE  Weighed(ledger) = Weighed(IF change.net = 0 THEN change.before
                                                ELSE Add(change.before, Stepped(change.net)))
    BY DEF SteppedAsOne, Even, Folding, Stepped
  <2> DEFINE l == change.before
             f == Stepped(change.net)
  <2>1. /\ l \in Held /\ ledger \in Held /\ change \in Folds /\ era \in 0..MaxEra
        /\ change.at \in Nat /\ change.at >= 1 /\ change.at < clock /\ clock \in 1..MaxFacts + 1
    BY ChangeParts DEF Held, OfChange, Folding, TypeInv, Folds, TimeInv
  <2>2. Typed(l) /\ Typed(ledger) /\ Backed(l, era) /\ Backed(ledger, era) /\ Distinct(ledger) /\ Distinct(l)
    BY <2>1, HeldTyped DEF SumInv, OnceInv, Even
  <2>3. CASE change.net = 0
    <3>1. ledger.entries = l.entries
      BY <2>3 DEF StepInv
    <3> QED
      BY <2>1, <2>2, <2>3, <3>1, SameNow
  <2>4. CASE change.net # 0
    <3>1. ledger.entries = Append(l.entries, f)
      BY <2>4 DEF StepInv
    <3>2. f \in Fact /\ f.at = change.at /\ f.era = era
      BY <2>1, EntryFact DEF Stepped, Folds
    <3> HIDE DEF f, l
    <3>3. /\ l.entries \in Seq(Fact) /\ ledger.entries # <<>> /\ Last(ledger.entries) = f
          /\ Front(ledger.entries) = l.entries /\ Len(ledger.entries) = Len(l.entries) + 1
          /\ Len(l.entries) \in Nat /\ Len(ledger.entries) <= MaxEntries /\ MaxEntries \in Nat
      BY <2>2, <3>1, <3>2, LedgerParts, AppendLast, Limits DEF Typed
    <3>4. ~Full(l)
      BY <3>3 DEF Full
    <3>5. \A g \in Facts(l) : g.at # f.at
      <4>1. Facts(DropLast(ledger)) = Facts(l)
        BY <2>2, <3>3, DropLedger DEF Facts
      <4>2. \A g \in Facts(DropLast(ledger)) : g.at # Last(ledger.entries).at
        BY <2>2, <3>3, DropLedger
      <4> QED
        BY <3>3, <4>1, <4>2
    <3>6. f.at \in 1..MaxFacts
      BY <2>1, <3>2, Limits
    <3>7. Backed(Add(l, f), era)
      BY <2>1, <2>2, <3>2, <3>4, <3>5, <3>6, AddBacked
    <3>8. Add(l, f).entries = ledger.entries
      BY <2>2, <3>1, <3>2, <3>4, AddLedger
    <3>9. Weighed(ledger) = Weighed(Add(l, f))
      BY <2>1, <2>2, <3>7, <3>8, SameNow
    <3> QED
      BY <2>4, <3>9 DEF l, f
  <2> QED
    BY <2>3, <2>4
<1>2. Init => TypeInv /\ TimeInv /\ OnceInv /\ SumInv /\ StepInv
  BY TypeStarts, TimeStarts, OnceStarts, SumsStart, StepsStart
<1>3. TypeInv /\ TimeInv /\ OnceInv /\ SumInv /\ StepInv /\ [Next]_vars => (TypeInv /\ TimeInv /\ OnceInv /\ SumInv /\ StepInv)'
  BY TypeKept, TimeKept, OnceKept, SumsKept, StepsKept
<1> QED
  BY <1>1, <1>2, <1>3, PTL DEF Spec

-----------------------------------------------------------------------------
(***************************************************************************)
(* A step touches no entry but its own.                                    *)
(***************************************************************************)
\* Only a step changes how far the change that is being folded has gone.
LEMMA NetMoves ==
  ASSUME TypeInv, [Next]_vars, change.pending, change'.pending, change'.net # change.net
  PROVE  \E net \in Nets : Step(net)
<1> DEFINE Goal == \E net \in Nets : Step(net)
<1>0. ~NoChange.pending /\ Disturbed(change).net = change.net
  BY DisturbedParts DEF TypeInv, NoChange
<1>1. ASSUME NEW net, NEW ctx, NEW learns, FirstStep(net, ctx, learns) \/ Tap(net, ctx, learns) PROVE Goal
  BY <1>0, <1>1 DEF FirstStep, Tap
<1>2. ASSUME NEW net, NEW ctx, Boost(net, ctx) PROVE Goal
  BY <1>0, <1>2 DEF Boost
<1>3. ASSUME NEW net \in Nets, Step(net) PROVE Goal
  BY <1>3
<1>4. ASSUME Settles \/ GraceEnds \/ StormEnds \/ HalfLife \/ RunStarts \/ Save \/ SchedulerCausedIt PROVE Goal
  BY <1>0, <1>4 DEF Settles, GraceEnds, StormEnds, HalfLife, RunStarts, Save, SchedulerCausedIt
<1>5. ASSUME NEW clean, RunEnds(clean) PROVE Goal
  BY <1>5 DEF RunEnds
<1>6. ASSUME NEW bs, Reset(bs) PROVE Goal
  BY <1>0, <1>6 DEF Reset
<1>7. ASSUME ResetWarming \/ UndoReset \/ Export PROVE Goal
  BY <1>0, <1>7 DEF ResetWarming, UndoReset, Export
<1>8. ASSUME NEW parts, Import(parts) PROVE Goal
  BY <1>0, <1>8 DEF Import
<1>9. ASSUME Reload \/ Crash PROVE Goal
  BY <1>0, <1>9 DEF Reload, Crash, Loaded
<1>10. ASSUME UNCHANGED vars PROVE Goal
  BY <1>10 DEF vars
<1> HIDE DEF Goal
<1>11. Goal
  <2>1. CASE Next
    BY <2>1, <1>1, <1>2, <1>3, <1>4, <1>5, <1>6, <1>7, <1>8, <1>9 DEF Next
  <2> QED
    BY <2>1, <1>10
<1> QED
  BY <1>11 DEF Goal

\* The last element is one of them.
LEMMA LastOfThem == ASSUME NEW S, NEW s \in Seq(S), s # <<>> PROVE Last(s) \in ToSet(s)
<1>1. ToSet(s) = ToSet(Front(s)) \cup {Last(s)}
  BY FrontLast
<1> QED
  BY <1>1

\* Each kind of step leaves the other entries alone.
LEMMA OwnEntryOnly ==
  ASSUME TypeInv, TimeInv, OnceInv, NEW net \in Nets, Step(net), Even, slip' \cap {"doubled", "dropped"} = {}
  PROVE  Others(ledger', change.at) = Others(ledger, change.at)
<1> DEFINE f == Stepped(net)
           at == change.at
<1>1. /\ f \in Fact /\ f.at = at
      /\ Present(ledger, change) => ledger.entries # <<>> /\ Last(ledger.entries).at = at
      /\ StepsBy(net) \/ StepsBack(net) \/ StepsOn(net) \/ StepsAgain(net)
  BY StepParts
<1>2. Typed(ledger) /\ Distinct(ledger) /\ ledger.entries \in Seq(Fact)
  BY HeldTyped, LedgerParts DEF Held, OnceInv, Even, Typed
<1>3. CASE StepsBy(net)
  BY <1>3 DEF StepsBy
<1>4. CASE StepsBack(net)
  <2> DEFINE rest == DropLast(ledger)
  <2>1. ledger' = rest /\ ledger.entries # <<>> /\ Last(ledger.entries).at = at
    BY <1>1, <1>4 DEF StepsBack
  <2>2. /\ rest.entries = Front(ledger.entries) /\ Typed(rest)
        /\ \A g \in Facts(rest) : g.at # Last(ledger.entries).at
    BY <1>2, <2>1, DropLedger
  <2>3. rest.entries # <<>> => Last(rest.entries).at # at
    <3>1. rest.entries \in Seq(Fact)
      BY <2>2, LedgerParts DEF Typed
    <3>2. rest.entries # <<>> => Last(rest.entries) \in Facts(rest)
      BY <3>1, LastOfThem DEF Facts
    <3> QED
      BY <2>1, <2>2, <3>2
  <2> HIDE DEF rest
  <2> QED
    BY <2>1, <2>2, <2>3 DEF Others
<1>5. CASE StepsOn(net)
  <2>1. ledger' = AmendLast(ledger, f) /\ ledger.entries # <<>> /\ Last(ledger.entries).at = at
    BY <1>1, <1>5 DEF StepsOn
  <2> HIDE DEF f
  <2>2. /\ AmendLast(ledger, f).entries # <<>> /\ Last(AmendLast(ledger, f).entries) = f
        /\ Front(AmendLast(ledger, f).entries) = Front(ledger.entries)
    BY <1>1, <1>2, <2>1, AmendLedger
  <2> QED
    BY <1>1, <2>1, <2>2 DEF Others
<1>6. CASE StepsAgain(net)
  <2>1. ledger' = Add(ledger, f) /\ ~Full(ledger) /\ at \notin Ats(ledger, Buckets)
    BY <1>6 DEF StepsAgain, Dropping
  <2> HIDE DEF f
  <2>2. Add(ledger, f).entries = Append(ledger.entries, f)
    BY <1>1, <1>2, <2>1, AddLedger
  <2>3. ledger'.entries # <<>> /\ Last(ledger'.entries) = f /\ Front(ledger'.entries) = ledger.entries
    BY <1>1, <1>2, <2>1, <2>2, AppendLast
  <2>4. ledger.entries # <<>> => Last(ledger.entries).at # at
    <3>1. ledger.entries # <<>> => Last(ledger.entries) \in Facts(ledger)
      BY <1>2, LastOfThem DEF Facts
    <3>2. ledger \in Ledgers
      BY <1>2 DEF Typed
    <3> QED
      BY <2>1, <3>1, <3>2, AtsAll
  <2> QED
    BY <1>1, <2>3, <2>4 DEF Others
<1> QED
  BY <1>1, <1>3, <1>4, <1>5, <1>6

(* The steps of a change amend its own entry, and no other                 *)
(* (_amend_coalesced_entry).                                               *)
THEOREM StepsKeepOut == Spec => StepsTouchTheirOwn
<1>1. Init => TypeInv /\ TimeInv /\ OnceInv
  BY TypeStarts, TimeStarts, OnceStarts
<1>2. TypeInv /\ TimeInv /\ OnceInv /\ [Next]_vars => (TypeInv /\ TimeInv /\ OnceInv)'
  BY TypeKept, TimeKept, OnceKept
<1>3. TypeInv /\ TimeInv /\ OnceInv /\ [Next]_vars =>
        [change.pending /\ change'.pending /\ change'.net # change.net /\ slip' \cap {"doubled", "dropped"} = {}
           => Others(ledger', change.at) = Others(ledger, change.at)]_vars
  <2> SUFFICES ASSUME TypeInv, TimeInv, OnceInv, [Next]_vars, change.pending, change'.pending,
                      change'.net # change.net, slip' \cap {"doubled", "dropped"} = {}
               PROVE  Others(ledger', change.at) = Others(ledger, change.at)
    OBVIOUS
  <2>1. PICK net \in Nets : Step(net)
    BY NetMoves
  <2>2. Even
    BY SlipGrows DEF Even
  <2> QED
    BY <2>1, <2>2, OwnEntryOnly
<1> QED
  BY <1>1, <1>2, <1>3, PTL DEF Spec, StepsTouchTheirOwn

-----------------------------------------------------------------------------
(***************************************************************************)
(* The ledger implements the baseline.                                     *)
(***************************************************************************)
Before(u) == IF u.kept THEN Facts(u.ledger) ELSE {}
Kept(d) == [learnt |-> Facts(d.ledger), shelf |-> Shelved(d.lastReset)]

\* A step of the baseline, and one that it does not see, but for the evidence.
Moves == \/ Baseline!Learn \/ Baseline!Revise \/ Baseline!Watch \/ Baseline!TakeBack \/ Baseline!Forget
         \/ Baseline!PutBack \/ Baseline!Clear \/ Baseline!Copy \/ Baseline!Replace \/ Baseline!Save
         \/ Baseline!Crash \/ Baseline!Fade
Unseen == /\ Facts(ledger') = Facts(ledger) /\ era' = era /\ Shelved(lastReset') = Shelved(lastReset)
          /\ Facts(blob'.ledger) = Facts(blob.ledger) /\ Before(undo') = Before(undo) /\ Kept(stored') = Kept(stored)

\* What is kept only for the history changes nothing that the baseline sees.
LEMMA HistoryUnseen ==
  ASSUME TypeInv
  PROVE  /\ Before(Outdated(undo)) = Before(undo) /\ Before(NoUndo) = {}
         /\ Shelved(Spoilt(lastReset)) = Shelved(lastReset) /\ Shelved(NoReset) = {}
         /\ lastReset.of # "nothing" => Shelved([lastReset EXCEPT !.alone = FALSE]) = Shelved(lastReset)
<1>1. undo \in Undos /\ lastReset \in Resets
  BY DEF TypeInv
<1>2. Before(Outdated(undo)) = Before(undo) /\ Before(NoUndo) = {}
  BY <1>1, UndoParts DEF Before, NoUndo
<1>3. Shelved(Spoilt(lastReset)) = Shelved(lastReset) /\ Shelved(NoReset) = {}
  BY <1>1, SpoiltLedger DEF Shelved, NoReset
<1>4. lastReset.of # "nothing" => Shelved([lastReset EXCEPT !.alone = FALSE]) = Shelved(lastReset)
  BY <1>1, ResetParts, SpoiltParts DEF Shelved
<1> QED
  BY <1>2, <1>3, <1>4

\* The actions of the baseline, in the terms of the ledger.
LEMMA LearnIs ==
  ASSUME NEW f, f \in Facts(ledger'), Facts(ledger') = Facts(ledger) \cup {f}, \A g \in Facts(ledger) : g.at # f.at,
         Before(undo') \in {Before(undo), Facts(ledger)},
         era' = era, Shelved(lastReset') = Shelved(lastReset), Facts(blob'.ledger) = Facts(blob.ledger), Kept(stored') = Kept(stored)
  PROVE  Moves
BY DEF Moves, Before, Kept, Baseline!Learn

\* What was said is said differently, or taken back.
LEMMA ReviseIs ==
  ASSUME NEW f \in Facts(ledger),
         \/ Facts(ledger') = Facts(ledger) \ {f}
         \/ \E g \in Facts(ledger') : g.at = f.at /\ Facts(ledger') = (Facts(ledger) \ {f}) \cup {g},
         Before(undo') = Before(undo),
         era' = era, Shelved(lastReset') = Shelved(lastReset), Facts(blob'.ledger) = Facts(blob.ledger), Kept(stored') = Kept(stored)
  PROVE  Moves
BY DEF Moves, Before, Kept, Baseline!Revise

\* Nothing is learnt of an outside change, or one is over.
LEMMA WatchIs ==
  ASSUME Facts(ledger') = Facts(ledger), Before(undo') \in {Facts(ledger), {}},
         era' = era, Shelved(lastReset') = Shelved(lastReset), Facts(blob'.ledger) = Facts(blob.ledger), Kept(stored') = Kept(stored)
  PROVE  Moves
BY DEF Moves, Before, Kept, Baseline!Watch

\* The ledger of before an outside change comes back.
LEMMA TakeBackIs ==
  ASSUME Facts(ledger') = Before(undo), Before(undo') = {},
         era' = era, Shelved(lastReset') = Shelved(lastReset), Facts(blob'.ledger) = Facts(blob.ledger), Kept(stored') = Kept(stored)
  PROVE  Moves
BY DEF Moves, Before, Kept, Baseline!TakeBack

\* A half-life passes.
LEMMA FadeIs ==
  ASSUME Facts(ledger') = Facts(ledger), Before(undo') = Before(undo), era < MaxEra,
         era' = era + 1, Shelved(lastReset') = Shelved(lastReset), Facts(blob'.ledger) = Facts(blob.ledger), Kept(stored') = Kept(stored)
  PROVE  Moves
BY DEF Moves, Before, Kept, Baseline!Fade

\* An export.
LEMMA CopyIs ==
  ASSUME Facts(ledger') = Facts(ledger), Before(undo') = Before(undo), Facts(blob'.ledger) = Facts(ledger),
         era' = era, Shelved(lastReset') = Shelved(lastReset), Kept(stored') = Kept(stored)
  PROVE  Moves
BY DEF Moves, Before, Kept, Baseline!Copy

\* A reset that takes facts shelves them.
LEMMA ForgetIs ==
  ASSUME NEW bs \in SUBSET Buckets,
         Facts(ledger') = Facts(ledger) \ Shelved(lastReset'), Shelved(lastReset') = {f \in Facts(ledger) : f.bucket \in bs},
         Shelved(lastReset') # {},
         Before(undo') = Before(undo), era' = era, Facts(blob'.ledger) = Facts(blob.ledger),
         Kept(stored') = [learnt |-> Facts(ledger'), shelf |-> Shelved(lastReset')]
  PROVE  Moves
BY DEF Moves, Before, Kept, Baseline!Forget, Baseline!About

\* What was shelved is back beside what was said since.
LEMMA PutBackIs ==
  ASSUME Facts(ledger') = Facts(ledger) \cup Shelved(lastReset), Shelved(lastReset') = {},
         \A f \in Facts(ledger), g \in Shelved(lastReset) : f.at # g.at,
         Before(undo') = Before(undo), era' = era, Facts(blob'.ledger) = Facts(blob.ledger),
         Kept(stored') = [learnt |-> Facts(ledger'), shelf |-> Shelved(lastReset')]
  PROVE  Moves
BY DEF Moves, Before, Kept, Baseline!PutBack

\* The shelf stays as it is, or is cleared; either is saved.
LEMMA ClearIs ==
  ASSUME Facts(ledger') = Facts(ledger), Shelved(lastReset') \in {Shelved(lastReset), {}},
         Before(undo') = Before(undo), era' = era, Facts(blob'.ledger) = Facts(blob.ledger),
         Kept(stored') = [learnt |-> Facts(ledger'), shelf |-> Shelved(lastReset')]
  PROVE  Moves
BY DEF Moves, Before, Kept, Baseline!Clear

\* An import replaces the facts.
LEMMA ReplaceIs ==
  ASSUME Facts(ledger') = Facts(blob.ledger), Shelved(lastReset') = Shelved(lastReset),
         Before(undo') = Before(undo), era' = era, Facts(blob'.ledger) = Facts(blob.ledger),
         Kept(stored') = [learnt |-> Facts(ledger'), shelf |-> Shelved(lastReset')]
  PROVE  Moves
BY DEF Moves, Before, Kept, Baseline!Replace

\* A save, and the reload that makes one.
LEMMA SaveIs ==
  ASSUME Facts(ledger') = Facts(ledger), Shelved(lastReset') = Shelved(lastReset),
         Before(undo') \in {Before(undo), {}}, era' = era, Facts(blob'.ledger) = Facts(blob.ledger),
         Kept(stored') = [learnt |-> Facts(ledger), shelf |-> Shelved(lastReset)]
  PROVE  Moves
BY DEF Moves, Before, Kept, Baseline!Save

\* A crash leaves what was saved.
LEMMA CrashIs ==
  ASSUME Facts(ledger') = Facts(stored.ledger), Shelved(lastReset') = Shelved(stored.lastReset),
         Before(undo') = {}, era' = era, Facts(blob'.ledger) = Facts(blob.ledger), Kept(stored') = Kept(stored)
  PROVE  Moves
BY DEF Moves, Before, Kept, Baseline!Crash

\* What there is beside the ledger stays, but for the history in an undo and a stash.
BesideIt == /\ era' = era /\ blob' = blob /\ stored' = stored
            /\ lastReset' \in {lastReset, Spoilt(lastReset)}

\* So the baseline sees nothing of it move.
LEMMA BesideItIs ==
  ASSUME TypeInv, BesideIt
  PROVE  /\ era' = era /\ Shelved(lastReset') = Shelved(lastReset)
         /\ Facts(blob'.ledger) = Facts(blob.ledger) /\ Kept(stored') = Kept(stored)
BY HistoryUnseen DEF BesideIt

\* An entry of now, in a ring that has room, is a new fact.
LEMMA AddIs ==
  ASSUME TypeInv, TimeInv, NEW net \in Nets, NEW ctx, ledger' = Add(ledger, Entry(clock, era, net, ctx)), ~Full(ledger),
         Before(undo') \in {Before(undo), Facts(ledger)}, BesideIt
  PROVE  Moves
<1> DEFINE f == Entry(clock, era, net, ctx)
<1>1. /\ ledger \in Held /\ Typed(ledger) /\ Facts(ledger) \subseteq Known /\ clock \in Nat /\ era \in 0..MaxEra
  BY HeldTyped DEF Held, TypeInv
<1>2. f \in Fact /\ f.at = clock /\ ledger' = Add(ledger, f)
  BY <1>1, NetsInt, EntryFact
<1> HIDE DEF f
<1>3. Facts(ledger') = Facts(ledger) \cup {f}
  BY <1>1, <1>2, AddLedger
<1>4. \A g \in Facts(ledger) : g.at # f.at
  BY <1>1, <1>2, FactFields DEF Known, TimeInv
<1>5. f \in Facts(ledger')
  BY <1>3
<1> QED
  BY <1>3, <1>4, <1>5, BesideItIs, LearnIs

\* A step revises a fact, adds the one that was taken back, or is not seen.
LEMMA StepIs ==
  ASSUME TypeInv, TimeInv, OnceInv, NEW net \in Nets, Step(net), Even, Even'
  PROVE  Moves \/ Unseen
<1> DEFINE f == Stepped(net)
           at == change.at
           old == Last(ledger.entries)
<1>1. /\ f \in Fact /\ f.at = at /\ undo' = undo
      /\ Present(ledger, change) => ledger.entries # <<>> /\ Last(ledger.entries).at = at
      /\ StepsBy(net) \/ StepsBack(net) \/ StepsOn(net) \/ StepsAgain(net)
  BY StepParts
<1>2. Typed(ledger) /\ Distinct(ledger)
  BY HeldTyped DEF Held, OnceInv, Even
<1>3. BesideIt /\ Before(undo') = Before(undo)
  BY <1>1 DEF Step, BesideIt
<1>4. CASE StepsBy(net)
  <2>1. Facts(ledger') = Facts(ledger)
    BY <1>4 DEF StepsBy
  <2> QED
    BY <1>3, <2>1, BesideItIs DEF Unseen
<1>5. ASSUME ledger.entries # <<>>
      PROVE  /\ Facts(ledger) = Facts(DropLast(ledger)) \cup {old} /\ old \in Facts(ledger) /\ old \notin Facts(DropLast(ledger))
             /\ Facts(AmendLast(ledger, f)) = Facts(DropLast(ledger)) \cup {f}
  <2>1. /\ Facts(ledger) = Facts(DropLast(ledger)) \cup {old}
        /\ \A g \in Facts(DropLast(ledger)) : g.at # old.at
    BY <1>2, <1>5, DropLedger
  <2> HIDE DEF f
  <2>2. Facts(AmendLast(ledger, f)) = Facts(DropLast(ledger)) \cup {f}
    BY <1>1, <1>2, <1>5, AmendLedger
  <2> QED
    BY <2>1, <2>2
<1> HIDE DEF f, old
<1>6. CASE StepsBack(net)
  <2>1. ledger' = DropLast(ledger) /\ ledger.entries # <<>>
    BY <1>1, <1>6 DEF StepsBack
  <2>2. Facts(ledger') = Facts(ledger) \ {old} /\ old \in Facts(ledger)
    BY <1>5, <2>1
  <2> QED
    BY <1>3, <2>2, BesideItIs, ReviseIs
<1>7. CASE StepsOn(net)
  <2>1. ledger' = AmendLast(ledger, f) /\ ledger.entries # <<>> /\ old.at = f.at
    BY <1>1, <1>7 DEF StepsOn, f, old
  <2>2. Facts(ledger') = (Facts(ledger) \ {old}) \cup {f} /\ old \in Facts(ledger) /\ f \in Facts(ledger')
    BY <1>5, <2>1
  <2> QED
    BY <1>3, <2>1, <2>2, BesideItIs, ReviseIs
<1>8. CASE StepsAgain(net)
  <2>1. ledger' = Add(ledger, f) /\ ~Full(ledger) /\ at \notin Ats(ledger, Buckets)
    BY <1>8 DEF StepsAgain, Dropping, Even, f
  <2>2. Facts(ledger') = Facts(ledger) \cup {f}
    BY <1>1, <1>2, <2>1, AddLedger
  <2>3. \A g \in Facts(ledger) : g.at # f.at
    BY <1>1, <1>2, <2>1, AtsAll DEF Typed
  <2> QED
    BY <1>3, <2>2, <2>3, BesideItIs, LearnIs
<1> QED
  BY <1>1, <1>4, <1>6, <1>7, <1>8

\* A change that comes from outside, and a boost.
LEMMA OutsideIs ==
  ASSUME TypeInv, TimeInv, NEW net \in Nets, NEW ctx, NEW learns, FirstStep(net, ctx, learns) \/ Tap(net, ctx, learns), Even'
  PROVE  Moves
<1>1. BesideIt /\ undo' = [kept |-> TRUE, ledger |-> ledger, alone |-> TRUE]
  BY DEF FirstStep, Tap, Capture, BesideIt
<1>2. Before(undo') = Facts(ledger)
  BY <1>1 DEF Before
<1>3. CASE learns /\ ~Storm
  <2>1. ledger' = Add(ledger, Entry(clock, era, net, ctx)) /\ slip' = slip \cup Dropping(Full(ledger))
    BY <1>3 DEF FirstStep, Tap, Dropping
  <2>2. ~Full(ledger)
    BY <2>1 DEF Even, Dropping
  <2> QED
    BY <1>1, <1>2, <2>1, <2>2, AddIs
<1>4. CASE ~(learns /\ ~Storm)
  <2>1. ledger' = ledger
    BY <1>4 DEF FirstStep, Tap
  <2> QED
    BY <1>1, <1>2, <2>1, BesideItIs, WatchIs
<1> QED
  BY <1>3, <1>4

\* A boost that is learnt is a fact like any other.
LEMMA BoostIs ==
  ASSUME TypeInv, TimeInv, NEW net \in Nets, NEW ctx, Boost(net, ctx), Even'
  PROVE  Moves
<1>1. /\ BesideIt /\ undo' = Outdated(undo) /\ ledger' = Add(ledger, Entry(clock, era, net, ctx))
      /\ slip' = slip \cup Dropping(Full(ledger))
  BY DEF Boost, BesideIt
<1>2. ~Full(ledger) /\ Before(undo') = Before(undo)
  BY <1>1, HistoryUnseen DEF Even, Dropping
<1> QED
  BY <1>1, <1>2, AddIs

\* What a window that ends, a half-life and an undo within the grace do.
LEMMA WindowIs ==
  ASSUME TypeInv, Settles \/ StormEnds \/ GraceEnds \/ HalfLife \/ SchedulerCausedIt
  PROVE  Moves \/ Unseen
<1>1. ASSUME Settles \/ StormEnds PROVE Unseen
  BY <1>1 DEF Settles, StormEnds, Unseen
<1>2. CASE GraceEnds
  <2>1. BesideIt /\ undo' = NoUndo /\ ledger' = ledger
    BY <1>2 DEF GraceEnds, BesideIt
  <2>2. Before(undo') = {}
    BY <2>1, HistoryUnseen
  <2> QED
    BY <2>1, <2>2, BesideItIs, WatchIs
<1>3. CASE HalfLife
  <2>1. UNCHANGED <<ledger, undo, lastReset, blob, stored>> /\ era < MaxEra /\ era' = era + 1
    BY <1>3 DEF HalfLife
  <2> QED
    BY <2>1, FadeIs
<1>4. CASE SchedulerCausedIt
  <2>1. BesideIt /\ undo.kept /\ ledger' = undo.ledger /\ undo' = NoUndo
    BY <1>4 DEF SchedulerCausedIt, BesideIt
  <2>2. Before(undo') = {} /\ Facts(ledger') = Before(undo)
    BY <2>1, HistoryUnseen DEF Before
  <2> QED
    BY <2>1, <2>2, BesideItIs, TakeBackIs
<1> QED
  BY <1>1, <1>2, <1>3, <1>4

\* What is saved at once is what there is then.
LEMMA CommitIs == Commit => Kept(stored') = [learnt |-> Facts(ledger'), shelf |-> Shelved(lastReset')]
BY DEF Commit, Data, Kept

\* A reset forgets the facts of its buckets, or clears the shelf when there are none.
LEMMA ResetIs ==
  ASSUME TypeInv, NEW bs \in SUBSET Buckets, Reset(bs)
  PROVE  Moves
<1> DEFINE about == {f \in Facts(ledger) : f.bucket \in bs}
<1>1. /\ ledger' = ResetBuckets(ledger, bs) /\ undo' = Outdated(undo) /\ blob' = blob /\ era' = era
      /\ lastReset' = IF HasContent(ledger, bs) THEN [of |-> "ledger", buckets |-> bs, ledger |-> ledger, alone |-> TRUE]
                      ELSE lastReset
  BY DEF Reset
<1>2. Before(undo') = Before(undo) /\ Kept(stored') = [learnt |-> Facts(ledger'), shelf |-> Shelved(lastReset')]
  BY <1>1, HistoryUnseen, CommitIs DEF Reset
<1>3. Facts(ledger') = {f \in Facts(ledger) : f.bucket \notin bs}
  BY <1>1, HeldTyped, ResetLedger DEF Held
<1>4. HasContent(ledger, bs) => Shelved(lastReset') = about
  BY <1>1 DEF Shelved
<1>5. CASE about # {}
  <2>1. HasContent(ledger, bs)
    BY <1>5 DEF HasContent, Facts, ToSet
  <2>2. Facts(ledger') = Facts(ledger) \ about
    BY <1>3
  <2> QED
    BY <1>1, <1>2, <1>4, <1>5, <2>1, <2>2, ForgetIs
<1>6. CASE about = {}
  <2>1. Facts(ledger') = Facts(ledger)
    BY <1>3, <1>6
  <2>2. Shelved(lastReset') \in {Shelved(lastReset), {}}
    BY <1>1, <1>4, <1>6
  <2> QED
    BY <1>1, <1>2, <2>1, <2>2, ClearIs
<1> QED
  BY <1>5, <1>6

\* A reset of the warming model takes the place of a stash of facts.
LEMMA ResetWarmingIs ==
  ASSUME TypeInv, ResetWarming
  PROVE  Moves
<1>1. /\ UNCHANGED <<ledger, undo, blob, era>>
      /\ lastReset' \in {lastReset, [of |-> "warming", runs |-> runs, alone |-> TRUE]}
  BY DEF ResetWarming
<1>2. Kept(stored') = [learnt |-> Facts(ledger'), shelf |-> Shelved(lastReset')]
  BY CommitIs DEF ResetWarming
<1>3. Shelved(lastReset') \in {Shelved(lastReset), {}}
  BY <1>1 DEF Shelved
<1> QED
  BY <1>1, <1>2, <1>3, ClearIs

\* An undo puts the facts of a stash back, when no slip has happened.
LEMMA UndoResetIs ==
  ASSUME TypeInv, TimeInv, OnceInv, Even, Even', UndoReset
  PROVE  Moves
<1>1. /\ undo' = Outdated(undo) /\ blob' = blob /\ era' = era /\ lastReset' = NoReset /\ lastReset.of # "nothing"
      /\ lastReset \in Resets
  BY DEF UndoReset, TypeInv
<1>2. /\ Before(undo') = Before(undo) /\ Shelved(lastReset') = {}
      /\ Kept(stored') = [learnt |-> Facts(ledger'), shelf |-> Shelved(lastReset')]
  BY <1>1, HistoryUnseen, CommitIs DEF UndoReset
<1>3. CASE lastReset.of = "ledger"
  <2> DEFINE stash == lastReset.ledger
             bs == lastReset.buckets
  <2>1. ledger' = MergeLedger(ledger, stash, bs) /\ lastReset.alone /\ Len(Merged(ledger, stash, bs)) <= MaxEntries
    <3>1. ledger' = MergeLedger(ledger, stash, bs)
      BY <1>3 DEF UndoReset
    <3>2. ~AlreadyBack
      BY DEF UndoReset, Even
    <3>3. ~(Len(Merged(ledger, stash, bs)) > MaxEntries)
      BY <1>3 DEF UndoReset, Even, Dropping
    <3>4. stash \in Sound /\ bs \in SUBSET Buckets /\ Typed(stash) /\ Typed(ledger)
      BY <1>1, <1>3, ResetParts, SoundTyped DEF LedgerStashes, TypeInv
    <3> HIDE DEF stash, bs
    <3>5. Merged(ledger, stash, bs) \in Seq(Fact)
      BY <3>4, MergedParts
    <3>6. Len(Merged(ledger, stash, bs)) \in Nat /\ MaxEntries \in Nat
      BY <3>5, Limits
    <3> QED
      BY <1>3, <3>1, <3>2, <3>3, <3>6 DEF AlreadyBack
  <2>2. bs \in SUBSET Buckets /\ Typed(stash) /\ Typed(ledger)
    BY <1>1, <1>3, ResetParts, SoundTyped DEF LedgerStashes, TypeInv
  <2>3. \A f \in Facts(ledger), g \in Shelved(lastReset) : f.at # g.at
    BY <1>3, <2>1 DEF OnceInv, Even, Beside, Shelved
  <2>4. Shelved(lastReset) = {f \in Facts(stash) : f.bucket \in bs}
    BY <1>3 DEF Shelved
  <2> HIDE DEF stash, bs
  <2>5. Facts(ledger') = Both(ledger, stash, bs)
    BY <2>1, <2>2, MergeTyped
  <2>6. Facts(ledger') = Facts(ledger) \cup Shelved(lastReset)
    BY <2>4, <2>5 DEF Both
  <2> QED
    BY <1>1, <1>2, <2>3, <2>6, PutBackIs
<1>4. CASE lastReset.of # "ledger"
  <2>1. ledger' = ledger
    BY <1>4 DEF UndoReset
  <2> QED
    BY <1>1, <1>2, <2>1, ClearIs
<1> QED
  BY <1>3, <1>4

\* An import replaces the facts, or leaves them when it is of the runs only.
LEMMA ImportIs ==
  ASSUME TypeInv, NEW parts, Import(parts)
  PROVE  Moves
<1>1. /\ undo' \in {undo, Outdated(undo)} /\ blob' = blob /\ era' = era
      /\ lastReset' = lastReset \/ (lastReset.of # "nothing" /\ lastReset' = [lastReset EXCEPT !.alone = FALSE])
      /\ ledger' = IF "ledger" \in parts THEN blob.ledger ELSE ledger
  BY DEF Import
<1>2. Before(undo') = Before(undo) /\ Shelved(lastReset') = Shelved(lastReset)
  BY <1>1, HistoryUnseen
<1>3. Kept(stored') = [learnt |-> Facts(ledger'), shelf |-> Shelved(lastReset')]
  BY CommitIs DEF Import
<1>4. CASE "ledger" \in parts
  BY <1>1, <1>2, <1>3, <1>4, ReplaceIs
<1>5. CASE "ledger" \notin parts
  BY <1>1, <1>2, <1>3, <1>5, ClearIs
<1> QED
  BY <1>4, <1>5

\* Exports, saves, reloads and crashes.
LEMMA StoreIs ==
  ASSUME TypeInv, Export \/ Save \/ Reload \/ Crash
  PROVE  Moves
<1>1. CASE Export
  BY <1>1, CopyIs DEF Export
<1>2. CASE Save
  <2>1. UNCHANGED <<ledger, lastReset, undo, blob, era>> /\ stored' = Data
    BY <1>2 DEF Save
  <2> QED
    BY <2>1, SaveIs DEF Data, Kept
<1>3. CASE Reload
  <2>1. UNCHANGED <<ledger, lastReset, blob, era>> /\ stored' = Data /\ undo' = NoUndo
    BY <1>3 DEF Reload, Loaded, Data
  <2> QED
    BY <2>1, HistoryUnseen, SaveIs DEF Data, Kept
<1>4. CASE Crash
  <2>1. ledger' = stored.ledger /\ lastReset' = stored.lastReset /\ UNCHANGED <<blob, era, stored>> /\ undo' = NoUndo
    BY <1>4 DEF Crash, Loaded
  <2> QED
    BY <2>1, HistoryUnseen, CrashIs
<1> QED
  BY <1>1, <1>2, <1>3, <1>4

\* Every step of the ledger is one of the baseline, or is not seen by it, but for the evidence.
LEMMA EveryStepIs ==
  ASSUME TypeInv, TimeInv, OnceInv, [Next]_vars, Even'
  PROVE  Moves \/ Unseen
<1>0. Even
  BY SlipGrows DEF Even
<1> DEFINE Goal == Moves \/ Unseen
<1>1. ASSUME NEW net \in Nets, NEW ctx, NEW learns, FirstStep(net, ctx, learns) \/ Tap(net, ctx, learns) PROVE Goal
  BY <1>1, OutsideIs
<1>2. ASSUME NEW net \in Nets, NEW ctx, Boost(net, ctx) PROVE Goal
  BY <1>2, BoostIs
<1>3. ASSUME NEW net \in Nets, Step(net) PROVE Goal
  BY <1>0, <1>3, StepIs
<1>4. ASSUME Settles \/ StormEnds \/ GraceEnds \/ HalfLife \/ SchedulerCausedIt PROVE Goal
  BY <1>4, WindowIs
<1>5. ASSUME NEW clean, RunStarts \/ RunEnds(clean) PROVE Goal
  BY <1>5 DEF RunStarts, RunEnds, Unseen
<1>6. ASSUME NEW bs \in SUBSET Buckets, Reset(bs) PROVE Goal
  BY <1>6, ResetIs
<1>7. ASSUME ResetWarming \/ UndoReset PROVE Goal
  BY <1>0, <1>7, ResetWarmingIs, UndoResetIs
<1>8. ASSUME NEW parts, Import(parts) PROVE Goal
  BY <1>8, ImportIs
<1>9. ASSUME Export \/ Save \/ Reload \/ Crash PROVE Goal
  BY <1>9, StoreIs
<1>10. ASSUME UNCHANGED vars PROVE Goal
  BY <1>10 DEF vars, Unseen
<1> HIDE DEF Goal
<1>11. Goal
  <2>1. CASE Next
    BY <2>1, <1>1, <1>2, <1>3, <1>4, <1>5, <1>6, <1>7, <1>8, <1>9, BothKinds DEF Next
  <2> QED
    BY <2>1, <1>10
<1> QED
  BY <1>11 DEF Goal

\* The statistics of a ledger as they are at e.
Now(l, e) == [b \in Buckets |->
  LET d == Decay(l.buckets[b], e)
  IN [sum |-> d.sum, weight |-> d.weight, pos |-> d.pos, neg |-> d.neg, events |-> d.events]]

\* Backed statistics are the evidence of the facts,
LEMMA EvidenceOf ==
  ASSUME NEW l, NEW e \in 0..MaxEra, Backed(l, e)
  PROVE  Now(l, e) = Baseline!Evidence(Facts(l), e)
<1>1. ASSUME NEW b \in Buckets
      PROVE  LET d == Decay(l.buckets[b], e)
             IN [sum |-> d.sum, weight |-> d.weight, pos |-> d.pos, neg |-> d.neg, events |-> d.events]
                  = IF Baseline!About(Facts(l), {b}) = {} THEN Baseline!Nothing
                    ELSE Baseline!Amount(Baseline!About(Facts(l), {b}), e)
  <2>1. Amounts(Decay(l.buckets[b], e), FactsOf(l, b), e)
    BY DecayTallies DEF Backed
  <2>2. FactsOf(l, b) = Baseline!About(Facts(l), {b})
    BY DEF FactsOf, Baseline!About
  <2> DEFINE d == Decay(l.buckets[b], e)
             F == Baseline!About(Facts(l), {b})
  <2>3. /\ d.sum = Tot(F, e, "sum") /\ d.weight = Tot(F, e, "weight") /\ d.pos = Tot(F, e, "pos")
        /\ d.neg = Tot(F, e, "neg") /\ d.events = Tot(F, e, "events")
    BY <2>1, <2>2 DEF Amounts
  <2> HIDE DEF d, F
  <2>4. [sum |-> d.sum, weight |-> d.weight, pos |-> d.pos, neg |-> d.neg, events |-> d.events] = Baseline!Amount(F, e)
    BY <2>3 DEF Baseline!Amount, Tot
  <2>5. F = {} => Baseline!Amount(F, e) = Baseline!Nothing
    BY TotalNone DEF Baseline!Amount, Baseline!Nothing
  <2> QED
    BY <2>4, <2>5 DEF d, F
<1> QED
  BY <1>1 DEF Now, Baseline!Evidence

\* and those of the ledger always are backed.
LEMMA EvidenceNow ==
  TypeInv /\ SumInv /\ Even => Now(ledger, era) = Baseline!Evidence(Facts(ledger), era)
<1>1. TypeInv => era \in 0..MaxEra /\ ledger \in Held
  BY DEF TypeInv, Held
<1>2. TypeInv /\ SumInv /\ Even => Backed(ledger, era)
  BY <1>1 DEF SumInv
<1> QED
  BY <1>1, <1>2, EvidenceOf

(* The statistics that the code keeps up one update at a time are those of *)
(* the facts it holds, and resets, undos, transfers, crashes and reloads   *)
(* move whole facts: the ledger implements the baseline (D39-D44).         *)
THEOREM BaselineKept == Spec => KeepsTheBaseline
<1> DEFINE NextSeen == Baseline!Next \/ slip' \cap {"doubled", "dropped"} # {}
           AllInv == TypeInv /\ TimeInv /\ OnceInv /\ SumInv
<1>1. Init => Baseline!Init
  <2> SUFFICES ASSUME Init PROVE Baseline!Init
    OBVIOUS
  <2>1. TypeInv /\ SumInv /\ Even
    BY TypeStarts, SumsStart DEF Init, Even
  <2>2. Now(ledger, era) = Baseline!Evidence(Facts(ledger), era)
    BY <2>1, EvidenceNow
  <2>3. /\ ledger = EmptyLedger /\ lastReset = NoReset /\ undo = NoUndo /\ blob.ledger = EmptyLedger /\ era = 0
        /\ stored.ledger = EmptyLedger /\ stored.lastReset = NoReset
    BY DEF Init, Data, NoBlob
  <2>4. Facts(EmptyLedger) = {} /\ Shelved(NoReset) = {} /\ ~NoUndo.kept
    BY EmptyTyped DEF Shelved, NoReset, NoUndo
  <2> QED
    BY <2>2, <2>3, <2>4 DEF Baseline!Init, Now, AsOf
<1>2. AllInv /\ [Next]_vars => [NextSeen]_(Baseline!vars)
  <2> SUFFICES ASSUME AllInv, [Next]_vars, Even' PROVE [NextSeen]_(Baseline!vars)
    BY DEF Even
  <2>1. Even /\ TypeInv' /\ SumInv'
    BY SlipGrows, TypeKept, SumsKept DEF Even
  <2>2. Now(ledger, era) = Baseline!Evidence(Facts(ledger), era)
    BY <2>1, EvidenceNow
  <2>3. Now(ledger', era') = Baseline!Evidence(Facts(ledger'), era')
    <3>1. era' \in 0..MaxEra /\ Backed(ledger', era')
      BY <2>1 DEF TypeInv, SumInv, Held
    <3> QED
      BY <3>1, EvidenceOf
  <2>4. ASSUME Moves PROVE Baseline!Next
    BY <2>3, <2>4 DEF Moves, Baseline!Next, Now, AsOf
  <2>5. ASSUME Unseen PROVE UNCHANGED Baseline!vars
    <3>1. Now(ledger', era') = Now(ledger, era)
      BY <2>2, <2>3, <2>5 DEF Unseen
    <3> QED
      BY <2>5, <3>1 DEF Unseen, Baseline!vars, Now, AsOf, Before, Kept
  <2> QED
    BY <2>4, <2>5, EveryStepIs
<1>3. Init => AllInv
  BY TypeStarts, TimeStarts, OnceStarts, SumsStart
<1>4. AllInv /\ [Next]_vars => AllInv'
  BY TypeKept, TimeKept, OnceKept, SumsKept
<1> QED
  BY <1>1, <1>2, <1>3, <1>4, PTL DEF Spec, KeepsTheBaseline
=============================================================================
