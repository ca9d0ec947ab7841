-------------------------- MODULE LearntBaseline --------------------------
(***************************************************************************)
(* What the learnt baseline of a room promises, without the ledger: facts, *)
(* each one thing a person said about one bucket, and the evidence, which  *)
(* is never anything but the sum of the facts that are still held, each    *)
(* halved with every half-life that has passed since it was said.          *)
(* LearningLedger implements it with statistics that are kept up step by   *)
(* step (DECISIONS.md D39-D44, D67).                                       *)
(***************************************************************************)
EXTENDS Integers

CONSTANTS Buckets,
          Unit,      \* per number of half-lives passed, what is left of a weight of 1
          MaxEra,    \* bound: half-lives
          MaxFacts   \* bound: facts

VARIABLES learnt,    \* the facts held, no two of the same time
          evidence,  \* per bucket, what they amount to
          era,       \* half-lives passed
          shelf,     \* the facts the last reset took, until they are put back
          copy,      \* the facts of the last export
          before,    \* the facts held when an outside change came
          saved      \* what of learnt and shelf the store has

vars == <<learnt, evidence, era, shelf, copy, before, saved>>

---------------------------------------------------------------------------
\* What one fact amounts to at e.
Worth(f, e) == f.weight * Unit[e - f.era]

Share(f, e, part) ==
  CASE part = "sum"    -> f.net * Worth(f, e)
    [] part = "weight" -> Worth(f, e)
    [] part = "pos"    -> IF f.net > 0 THEN Worth(f, e) ELSE 0
    [] part = "neg"    -> IF f.net < 0 THEN Worth(f, e) ELSE 0
    [] part = "events" -> 1

Total(v) == LET upTo[n \in 0..MaxFacts] == IF n = 0 THEN 0 ELSE upTo[n - 1] + v[n] IN upTo[MaxFacts]

About(F, bs) == {f \in F : f.bucket \in bs}

\* Of facts, no two of the same time, those said at the n-th time, and their shares by time.
Said(F, n) == {f \in F : f.at = n}
Shares(F, e, part) ==
  [n \in 1..MaxFacts |-> IF Said(F, n) = {} THEN 0 ELSE Share(CHOOSE f \in Said(F, n) : TRUE, e, part)]

\* What a set of facts amounts to, and the evidence of each bucket, which is none when nothing is held about it.
Nothing == [sum |-> 0, weight |-> 0, pos |-> 0, neg |-> 0, events |-> 0]
Amount(F, e) == [sum    |-> Total(Shares(F, e, "sum")),
                 weight |-> Total(Shares(F, e, "weight")),
                 pos    |-> Total(Shares(F, e, "pos")),
                 neg    |-> Total(Shares(F, e, "neg")),
                 events |-> Total(Shares(F, e, "events"))]
Evidence(F, e) == [b \in Buckets |-> IF About(F, {b}) = {} THEN Nothing ELSE Amount(About(F, {b}), e)]

---------------------------------------------------------------------------
Init == /\ learnt = {} /\ shelf = {} /\ copy = {} /\ before = {}
        /\ saved = [learnt |-> {}, shelf |-> {}]
        /\ era = 0 /\ evidence = Evidence(learnt, era)

\* Something new is said.
Learn == /\ \E f \in learnt' : /\ \A g \in learnt : g.at # f.at
                               /\ learnt' = learnt \cup {f}
         /\ before' \in {before, learnt}
         /\ UNCHANGED <<era, shelf, copy, saved>>

\* What was said is said differently, or taken back.
Revise == /\ UNCHANGED <<era, shelf, copy, before, saved>>
          /\ \E f \in learnt :
               \/ learnt' = learnt \ {f}
               \/ \E g \in learnt' : g.at = f.at /\ learnt' = (learnt \ {f}) \cup {g}

\* An outside change comes of which nothing is learnt; one that is over; one that turns out to have been nobody's.
Watch == learnt' = learnt /\ before' \in {learnt, {}} /\ UNCHANGED <<era, shelf, copy, saved>>
TakeBack == learnt' = before /\ before' = {} /\ UNCHANGED <<era, shelf, copy, saved>>

\* A reset shelves the facts of some buckets; an undo puts them back beside what was learnt since.
Forget == /\ UNCHANGED <<era, copy, before>>
          /\ saved' = [learnt |-> learnt', shelf |-> shelf']
          /\ shelf' # {}
          /\ \E bs \in SUBSET Buckets : /\ learnt' = learnt \ About(learnt, bs)
                                        /\ shelf' = About(learnt, bs)
PutBack == /\ learnt' = learnt \cup shelf
           /\ \A f \in learnt, g \in shelf : f.at # g.at
           /\ shelf' = {}
           /\ saved' = [learnt |-> learnt', shelf |-> shelf']
           /\ UNCHANGED <<era, copy, before>>

\* The shelf is emptied by a reset of something else; everything is copied, or replaced by the copy.
Clear == /\ shelf' \in {shelf, {}}
         /\ saved' = [learnt |-> learnt, shelf |-> shelf']
         /\ UNCHANGED <<learnt, era, copy, before>>
Copy == copy' = learnt /\ UNCHANGED <<learnt, era, shelf, before, saved>>
Replace == /\ learnt' = copy
           /\ saved' = [learnt |-> learnt', shelf |-> shelf]
           /\ UNCHANGED <<era, shelf, copy, before>>

\* What is saved is what there is, and what there is after a crash is what was saved.
Save == saved' = [learnt |-> learnt, shelf |-> shelf] /\ UNCHANGED <<learnt, era, shelf, copy>> /\ before' \in {before, {}}
Crash == /\ learnt' = saved.learnt /\ shelf' = saved.shelf /\ before' = {}
         /\ UNCHANGED <<era, copy, saved>>

Fade == era < MaxEra /\ era' = era + 1 /\ UNCHANGED <<learnt, shelf, copy, before, saved>>

Next == /\ \/ Learn \/ Revise \/ Watch \/ TakeBack \/ Forget \/ PutBack
           \/ Clear \/ Copy \/ Replace \/ Save \/ Crash \/ Fade
        /\ evidence' = Evidence(learnt', era')

Spec == Init /\ [][Next]_vars
=============================================================================
