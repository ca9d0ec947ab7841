-------------------------- MODULE LearningLedger --------------------------
(***************************************************************************)
(* What a room learns from people, and how that is reset, exported,        *)
(* imported and brought back (mech_learning.py, mech_transfer.py,          *)
(* core/override.py, core/learning_io.py).  A change of the target that    *)
(* arrives in steps is amended into one entry (D67); an entry caused by a  *)
(* Scheduler slot is taken back (D48); a reset is stashed (D42) and can be *)
(* undone (D43).  Each bucket keeps a decayed mean incrementally; here it  *)
(* is the weighted sum, of which the mean is sum / weight.                 *)
(*                                                                         *)
(* Time is what the windows leave of it: clock numbers the events that may *)
(* be recorded (LedgerEntry.at), era counts half-lives, and each window    *)
(* ends in an action of its own.                                           *)
(***************************************************************************)
EXTENDS Integers, SequencesExt

CONSTANTS Nets,        \* how far a person moves the target, in units of which BoundUnits are learning_target_bound
          Contexts,    \* what attribution sees: [skip, warmBy, cold], each a BOOLEAN
          BoundUnits, MaxEntries, MaxRuns, MinEvents,
          MaxEra,      \* bound: half-lives
          MaxFacts,    \* bound: what may be learnt, changes and heating runs
          MaxMoves     \* bound: acts of people, the Scheduler, boosts and heating runs, and crashes

ASSUME LearningAssumption ==
  /\ Nets \subseteq Int /\ BoundUnits \in Nat \ {0}
  /\ Contexts \subseteq [skip : BOOLEAN, warmBy : BOOLEAN, cold : BOOLEAN]
  /\ MaxEntries \in Nat \ {0} /\ MaxRuns \in Nat \ {0} /\ MinEvents \in Nat /\ MinEvents > 2
  /\ {MaxEra, MaxFacts, MaxMoves} \subseteq Nat

VARIABLES ledger,      \* the Ledger: entries and bucket statistics
          change,      \* _coalesce: the stepped change being folded into one override
          undo,        \* _override_undo, while source_reenable_grace_s lasts
          lastReset,   \* the stash of the last reset
          blob,        \* the last export, in the hands of a person
          runs,        \* the runs of the warming model, each named by when it began
          heating,     \* the heating run under way, 0 when there is none
          stored,      \* what the room store has
          clock, era,
          stormFrom,   \* entries from this one on are within override_storm_window_min
          moves, slip, gone   \* bound; history: which slips have happened, what a reset has cleared

vars == <<ledger, change, undo, lastReset, blob, runs, heating, stored, clock, era,
          stormFrom, moves, slip, gone>>

Buckets == {"preheat_shortfall", "slope_error", "skip_failure", "baseline_error"}
Pow2[n \in Nat] == IF n = 0 THEN 1 ELSE 2 * Pow2[n - 1]
Whole == Pow2[MaxEra]   \* the weight 1.0, so that every halving is exact
Unit == [n \in 0..MaxEra |-> Pow2[MaxEra - n]]   \* what is left of it after n half-lives

Abs(x) == IF x < 0 THEN -x ELSE x
Least(x, y) == IF x < y THEN x ELSE y
AtLeast0(x) == IF x < 0 THEN 0 ELSE x

---------------------------------------------------------------------------
(* core/override.py: attribution, the statistics of a bucket, the ledger. *)

\* The bucket and the weight of a change in a direction.
Attribute(ctx, up) ==
  IF up /\ ctx.skip THEN [bucket |-> "skip_failure", weight |-> 2]
  ELSE IF up /\ ctx.warmBy THEN [bucket |-> "preheat_shortfall", weight |-> 1]
  ELSE IF ctx.cold THEN [bucket |-> "slope_error", weight |-> 1]
  ELSE [bucket |-> "baseline_error", weight |-> 1]

Entry(at, e, net, ctx) ==
  LET size == Least(Abs(net), 2 * BoundUnits)
      as == Attribute(ctx, net > 0)
  IN [at |-> at, era |-> e, net |-> IF net > 0 THEN size ELSE -size, bucket |-> as.bucket, weight |-> as.weight]

NoStats == [sum |-> 0, weight |-> 0, pos |-> 0, neg |-> 0, events |-> 0, last |-> 0]

Decay(s, e) ==
  IF e <= s.last THEN s
  ELSE LET f == Pow2[e - s.last]
       IN [s EXCEPT !.sum = @ \div f, !.weight = @ \div f, !.pos = @ \div f, !.neg = @ \div f]

Readd(s, net, w) ==
  [s EXCEPT !.sum = @ + net * w * Whole, !.weight = @ + w * Whole,
            !.pos = @ + IF net > 0 THEN w * Whole ELSE 0,
            !.neg = @ + IF net < 0 THEN w * Whole ELSE 0,
            !.events = @ + 1]

(* Mutant: the evidence is added to without fading first. *)
UpdateUnfaded(s, f) == [Readd(s, f.net, f.weight) EXCEPT !.last = f.era]

Update(s, f) == [Readd(Decay(s, f.era), f.net, f.weight) EXCEPT !.last = f.era]

(* Mutant: only the mean forgets, not the evidence of its direction. *)
UnlearnHalf(s, net, w) ==
  [s EXCEPT !.sum = @ - net * w * Whole, !.weight = AtLeast0(@ - w * Whole), !.events = AtLeast0(@ - 1)]

Unlearn(s, net, w) ==
  LET left == s.weight - w * Whole
  IN [s EXCEPT !.sum = IF left <= 0 THEN 0 ELSE @ - net * w * Whole,
               !.weight = AtLeast0(left),
               !.pos = IF net > 0 THEN AtLeast0(@ - w * Whole) ELSE @,
               !.neg = IF net < 0 THEN AtLeast0(@ - w * Whole) ELSE @,
               !.events = AtLeast0(@ - 1)]

EmptyLedger == [entries |-> <<>>, buckets |-> [b \in Buckets |-> NoStats]]

(* Mutant: a ring that grows. *)
NewestAll(s, n) == s

\* The newest n of a sequence: del s[:-n].
Newest(s, n) == SubSeq(s, 1 + AtLeast0(Len(s) - n), Len(s))

\* The elements of a sequence at some of its indices, in an order: upTo[i] are those indices up to i.
Arranged(s, upTo) ==
  [k \in 1..Cardinality(DOMAIN upTo) |-> s[CHOOSE i \in DOMAIN upTo : Cardinality(upTo[i]) = k]]

\* The entries about some buckets, and entries by age (sorted is stable).
Of(s, bs) == LET I == {i \in DOMAIN s : s[i].bucket \in bs} IN Arranged(s, [i \in I |-> {j \in I : j <= i}])
ByAge(s) == LET Before(j, i) == s[j].at < s[i].at \/ (s[j].at = s[i].at /\ j <= i)
            IN Arranged(s, [i \in DOMAIN s |-> {j \in DOMAIN s : Before(j, i)}])

Add(l, f) == [entries |-> Newest(Append(l.entries, f), MaxEntries),
              buckets |-> [l.buckets EXCEPT ![f.bucket] = Update(@, f)]]

\* amend_last(None), and amend_last with another entry.
DropLast(l) ==
  LET old == Last(l.entries)
  IN [entries |-> Front(l.entries), buckets |-> [l.buckets EXCEPT ![old.bucket] = Unlearn(@, old.net, old.weight)]]

(* Mutant: the amended entry is rewritten, what it was is still in its bucket. *)
AmendLastOnTop(l, f) ==
  [entries |-> Append(Front(l.entries), f), buckets |-> [l.buckets EXCEPT ![f.bucket] = Update(@, f)]]

AmendLast(l, f) ==
  LET without == DropLast(l)
  IN [entries |-> Append(without.entries, f),
      buckets |-> [without.buckets EXCEPT ![f.bucket] =
                     IF f.bucket = Last(l.entries).bucket THEN Readd(@, f.net, f.weight) ELSE Update(@, f)]]

ResetBuckets(l, bs) ==
  [entries |-> Of(l.entries, Buckets \ bs),
   buckets |-> [b \in Buckets |-> IF b \in bs THEN NoStats ELSE l.buckets[b]]]

HasContent(l, bs) ==
  \/ \E i \in DOMAIN l.entries : l.entries[i].bucket \in bs
  \/ \E b \in bs : l.buckets[b].events > 0 \/ l.buckets[b].weight > 0

\* The facts of a ledger, and when those about some buckets were said.
Facts(l) == ToSet(l.entries)
Ats(l, bs) == {f.at : f \in {g \in Facts(l) : g.bucket \in bs}}

\* What correction() may apply: the direction of a mean with enough evidence behind it, or 0.
Correction(b) ==
  LET s == Decay(ledger.buckets[b], era)
      dominant == IF s.pos >= s.neg THEN 1 ELSE -1
  IN IF (IF s.pos >= s.neg THEN s.pos ELSE s.neg) < MinEvents * Whole THEN 0
     ELSE IF s.sum = 0 \/ (s.sum > 0) # (dominant > 0) THEN 0 ELSE dominant

---------------------------------------------------------------------------
(* core/learning_io.py: the merges of an undo. *)

\* The same updates the ledger makes when it records them.
Replay(s, facts) ==
  LET after[i \in 0..Len(facts)] == IF i = 0 THEN s ELSE Update(after[i - 1], facts[i]) IN after[Len(facts)]

Merged(current, stash, bs) ==
  Of(current.entries, Buckets \ bs) \o Of(stash.entries, bs) \o Of(current.entries, bs)

MergeLedger(current, stash, bs) ==
  [entries |-> Newest(ByAge(Merged(current, stash, bs)), MaxEntries),
   buckets |-> [b \in Buckets |-> IF b \in bs THEN Replay(stash.buckets[b], Of(current.entries, {b}))
                                              ELSE current.buckets[b]]]

MergeRuns(current, stash) == Newest(stash \o current, MaxRuns)

---------------------------------------------------------------------------
NoChange == [pending |-> FALSE]
NoContext == [skip |-> FALSE, warmBy |-> FALSE, cold |-> FALSE]
NoUndo == [kept |-> FALSE]
NoReset == [of |-> "nothing"]
NoBlob == [ledger |-> EmptyLedger, runs |-> <<>>]

Data == [ledger |-> ledger, lastReset |-> lastReset, runs |-> runs, heating |-> heating]

Init == /\ ledger = EmptyLedger /\ runs = <<>> /\ heating = 0 /\ lastReset = NoReset
        /\ change = NoChange /\ undo = NoUndo /\ blob = NoBlob
        /\ stored = Data
        /\ clock = 1 /\ era = 0 /\ stormFrom = 1
        /\ moves = 0 /\ slip = {} /\ gone = [facts |-> {}, runs |-> {}]

Move == moves < MaxMoves /\ moves' = moves + 1
Tick == clock <= MaxFacts /\ clock' = clock + 1

(* Mutant: the next delayed save is soon enough. *)
CommitLater == UNCHANGED stored

\* _async_commit_learning: what was reset, imported or put back is saved at once.
Commit == stored' = Data'

\* The stash as it is in an undo or a folded change whose ledger something else has changed since (history only).
Disturbed(c) == IF c.pending THEN [c EXCEPT !.alone = FALSE] ELSE c
Outdated(u) == IF u.kept THEN [u EXCEPT !.alone = FALSE] ELSE u
Spoilt(r) == IF r.of = "ledger" THEN [r EXCEPT !.alone = FALSE] ELSE r

\* What the last reset of the ledger has taken.
Stashed(r) == IF r.of = "ledger" THEN Ats(r.ledger, r.buckets) ELSE {}

\* The slip of a ring that is full: its oldest entry makes room, and stays in the statistics.
Full(l) == Len(l.entries) >= MaxEntries
Dropping(full) == IF full THEN {"dropped"} ELSE {}

---------------------------------------------------------------------------
(* An outside change of the VTherm that Hearth did not make. *)

\* qualifies(): a second override within the storm window is not learnt.
Storm == ledger.entries # <<>> /\ Last(ledger.entries).at >= stormFrom

\* _capture_override_undo
Capture == undo' = [kept |-> TRUE, ledger |-> ledger, alone |-> TRUE]

\* The first step of a person's change of the target: _record_external_change, _handle_override, _record_override.
\* When it is not learnt, that is for a storm, or for one of the reasons that learns stands for.
FirstStep(net, ctx, learns) ==
  /\ Move /\ ~change.pending
  /\ Tick
  /\ Capture
  /\ LET learnt == learns /\ ~Storm
     IN /\ ledger' = IF learnt THEN Add(ledger, Entry(clock, era, net, ctx)) ELSE ledger
        /\ change' = [pending |-> TRUE, net |-> net, at |-> clock, entryAt |-> IF learnt THEN clock ELSE 0,
                      ctx |-> ctx, learns |-> learnt, before |-> ledger, alone |-> TRUE]
        /\ slip' = slip \cup Dropping(learnt /\ Full(ledger))
  /\ UNCHANGED <<lastReset, blob, runs, heating, stored, era, stormFrom, gone>>

(* Mutant: whatever entry is the last one. *)
PresentAny(l, c) == c.entryAt # 0 /\ l.entries # <<>>

\* _amend_coalesced_entry
Present(l, c) == c.entryAt # 0 /\ l.entries # <<>> /\ Last(l.entries).at = c.entryAt

Amended(l, c, net) ==
  IF ~c.learns THEN l
  ELSE IF net = 0 THEN IF Present(l, c) THEN DropLast(l) ELSE l
  ELSE LET f == Entry(c.at, era, net, c.ctx)
       IN IF Present(l, c) THEN AmendLast(l, f) ELSE IF c.entryAt = 0 THEN Add(l, f) ELSE l

(* Mutant: an entry that is put back is not remembered. *)
EntryAtForgotten(l, c, net) == IF net = 0 /\ Present(l, c) THEN 0 ELSE c.entryAt

EntryAtAfter(l, c, net) ==
  IF ~c.learns THEN 0
  ELSE IF net = 0 THEN IF Present(l, c) THEN 0 ELSE c.entryAt
  ELSE IF c.entryAt = 0 THEN c.at ELSE c.entryAt

\* A further step within override_coalesce_s: _fold_stepped_change, net of the first step's starting target.
Step(net) ==
  /\ Move /\ change.pending /\ net # change.net
  /\ ledger' = Amended(ledger, change, net)
  /\ change' = [change EXCEPT !.net = net, !.entryAt = EntryAtAfter(ledger, change, net)]
  /\ LET again == change.entryAt = 0 /\ change'.entryAt # 0   \* what was taken back is said again
     IN /\ slip' = slip \cup (IF again /\ change.at \in Ats(ledger, Buckets) THEN {"doubled"} ELSE {})
                         \cup Dropping(again /\ Full(ledger))
        /\ gone' = IF again THEN [gone EXCEPT !.facts = @ \ {change.at}] ELSE gone
        /\ lastReset' = IF again /\ change.at \in Stashed(lastReset) THEN Spoilt(lastReset) ELSE lastReset
  /\ UNCHANGED <<undo, blob, runs, heating, stored, clock, era, stormFrom>>

\* No step for override_coalesce_s: _on_coalesce_settled.  By then the grace, no longer, is over since the first step.
Settles ==
  /\ change.pending /\ ~undo.kept /\ change' = NoChange
  /\ UNCHANGED <<ledger, undo, lastReset, blob, runs, heating, stored, clock, era, stormFrom, moves, slip, gone>>

\* A change that has no steps: a person's tap on a preset, or an automation's change, which is not learnt.
Tap(net, ctx, learns) ==
  /\ Move
  /\ Tick
  /\ Capture /\ change' = NoChange
  /\ ledger' = IF learns /\ ~Storm THEN Add(ledger, Entry(clock, era, net, ctx)) ELSE ledger
  /\ slip' = slip \cup Dropping(learns /\ ~Storm /\ Full(ledger))
  /\ UNCHANGED <<lastReset, blob, runs, heating, stored, era, stormFrom, gone>>

\* _record_boost of a boost that is learnt: an entry beside any change that is being folded.
Boost(net, ctx) ==
  /\ Move /\ ~Storm
  /\ Tick
  /\ ledger' = Add(ledger, Entry(clock, era, net, ctx))
  /\ change' = Disturbed(change) /\ undo' = Outdated(undo)
  /\ slip' = slip \cup Dropping(Full(ledger))
  /\ UNCHANGED <<lastReset, blob, runs, heating, stored, era, stormFrom, gone>>

\* A source is seen to have come on within the grace: undo_recent_override.
SchedulerCausedIt ==
  /\ Move /\ undo.kept
  /\ ledger' = undo.ledger /\ undo' = NoUndo
  /\ change' = Disturbed(change)
  /\ slip' = IF undo.alone THEN slip ELSE slip \cup {"rolled"}
  /\ lastReset' = IF undo.alone THEN lastReset ELSE Spoilt(lastReset)
  /\ UNCHANGED <<blob, runs, heating, stored, clock, era, stormFrom, gone>>

GraceEnds ==
  /\ undo.kept /\ undo' = NoUndo
  /\ UNCHANGED <<ledger, change, lastReset, blob, runs, heating, stored, clock, era, stormFrom, moves, slip, gone>>

\* The long windows, three hours and a half-life, end when the short ones have and everything is saved.
Quiet == ~change.pending /\ ~undo.kept
StormEnds ==
  /\ Quiet /\ stored = Data /\ Storm /\ stormFrom' = clock
  /\ UNCHANGED <<ledger, change, undo, lastReset, blob, runs, heating, stored, clock, era, moves, slip, gone>>
HalfLife ==
  /\ Quiet /\ stored = Data /\ heating = 0 /\ era < MaxEra /\ era' = era + 1 /\ stormFrom' = clock
  /\ UNCHANGED <<ledger, change, undo, lastReset, blob, runs, heating, stored, clock, moves, slip, gone>>

---------------------------------------------------------------------------
(* The warming model: _learn. *)

RunStarts ==
  /\ Move /\ heating = 0 /\ heating' = clock
  /\ Tick
  /\ UNCHANGED <<ledger, change, undo, lastReset, blob, runs, stored, era, stormFrom, slip, gone>>

\* A run reaches its target and counts, or is discarded.
RunEnds(clean) ==
  /\ heating # 0 /\ heating' = 0
  /\ runs' = IF clean THEN Newest(Append(runs, heating), MaxRuns) ELSE runs
  /\ UNCHANGED <<ledger, change, undo, lastReset, blob, stored, clock, era, stormFrom, moves, slip, gone>>

---------------------------------------------------------------------------
(* Reset, undo, export and import: mech_transfer.py. *)

\* reset_learning of one bucket or of all four.
Reset(bs) ==
  /\ Move
  /\ lastReset' = IF HasContent(ledger, bs) THEN [of |-> "ledger", buckets |-> bs, ledger |-> ledger, alone |-> TRUE]
                  ELSE lastReset
  /\ ledger' = ResetBuckets(ledger, bs)
  /\ gone' = [gone EXCEPT !.facts = @ \cup Ats(ledger, bs)]
  /\ change' = Disturbed(change) /\ undo' = Outdated(undo)
  /\ UNCHANGED <<blob, runs, heating, clock, era, stormFrom, slip>>
  /\ Commit

ResetWarming ==
  /\ Move
  /\ lastReset' = IF runs # <<>> THEN [of |-> "warming", runs |-> runs, alone |-> TRUE] ELSE lastReset
  /\ runs' = <<>> /\ heating' = 0
  /\ gone' = [gone EXCEPT !.runs = @ \cup ToSet(runs) \cup ({heating} \ {0})]
  /\ UNCHANGED <<ledger, change, undo, blob, clock, era, stormFrom, slip>>
  /\ Commit

\* What came back with an undo or an import is not gone any more (history only).
StillGone == [facts |-> gone.facts \ Ats(ledger', Buckets), runs |-> gone.runs \ ToSet(runs')]

\* What an undo finds of the stash beside it already, because an import, a rolled back reset or a step brought it back.
AlreadyBack == lastReset.of # "nothing" /\ ~lastReset.alone

UndoReset ==
  /\ Move /\ lastReset.of # "nothing"
  /\ ledger' = IF lastReset.of = "ledger" THEN MergeLedger(ledger, lastReset.ledger, lastReset.buckets) ELSE ledger
  /\ runs' = IF lastReset.of = "warming" THEN MergeRuns(runs, lastReset.runs) ELSE runs
  /\ heating' = IF lastReset.of = "warming" THEN 0 ELSE heating
  /\ gone' = StillGone
  /\ slip' = slip \cup (IF AlreadyBack THEN {"doubled"} ELSE {})
                  \cup Dropping(/\ lastReset.of = "ledger"
                                /\ Len(Merged(ledger, lastReset.ledger, lastReset.buckets)) > MaxEntries)
  /\ lastReset' = NoReset
  /\ change' = Disturbed(change) /\ undo' = Outdated(undo)
  /\ UNCHANGED <<blob, clock, era, stormFrom>>
  /\ Commit

Export ==
  /\ Move /\ blob' = [ledger |-> ledger, runs |-> runs] /\ blob' # blob
  /\ UNCHANGED <<ledger, change, undo, lastReset, runs, heating, stored, clock, era, stormFrom, slip, gone>>

\* A blob holds the parts that had content; one that lacks a part that is asked for is refused as a whole.
Holds == (IF HasContent(blob.ledger, Buckets) THEN {"ledger"} ELSE {}) \cup (IF blob.runs # <<>> THEN {"warming_rate"} ELSE {})
Parses(parts) == parts # {} /\ parts \subseteq Holds

Import(parts) ==
  /\ Move /\ Parses(parts)
  /\ ledger' = IF "ledger" \in parts THEN blob.ledger ELSE ledger
  /\ runs' = IF "warming_rate" \in parts THEN Newest(blob.runs, MaxRuns) ELSE runs
  /\ heating' = IF "warming_rate" \in parts THEN 0 ELSE heating
  /\ gone' = StillGone
  /\ lastReset' = IF \/ lastReset.of = "ledger" /\ "ledger" \in parts
                     \/ lastReset.of = "warming" /\ "warming_rate" \in parts
                  THEN [lastReset EXCEPT !.alone = FALSE] ELSE lastReset
  /\ change' = IF "ledger" \in parts THEN Disturbed(change) ELSE change
  /\ undo' = IF "ledger" \in parts THEN Outdated(undo) ELSE undo
  /\ UNCHANGED <<blob, clock, era, stormFrom, slip>>
  /\ Commit

---------------------------------------------------------------------------
(* The store. *)

\* 30 s after the last evaluation that asked for it, which is after the windows of a change.
Save ==
  /\ Quiet /\ stored # Data /\ stored' = Data
  /\ UNCHANGED <<ledger, change, undo, lastReset, blob, runs, heating, clock, era, stormFrom, moves, slip, gone>>

\* What is in memory only is lost with the room object: the change being folded and the undo of an override.
Loaded(d) ==
  /\ ledger' = d.ledger /\ lastReset' = d.lastReset /\ runs' = d.runs /\ heating' = d.heating
  /\ change' = NoChange /\ undo' = NoUndo
  /\ UNCHANGED <<blob, clock, era, stormFrom, slip, gone>>

\* An unload saves what there is; a crash does not.
Reload == Move /\ Loaded(Data) /\ stored' = Data
Crash == Move /\ Loaded(stored) /\ UNCHANGED stored

Next ==
  \/ \E net \in Nets \ {0}, ctx \in Contexts :
       FirstStep(net, ctx, TRUE) \/ Tap(net, ctx, TRUE) \/ Boost(net, ctx)
  \/ \E net \in Nets \ {0} : FirstStep(net, NoContext, FALSE) \/ Tap(net, NoContext, FALSE)
  \/ \E net \in Nets : Step(net)
  \/ Settles \/ SchedulerCausedIt \/ GraceEnds \/ StormEnds \/ HalfLife
  \/ RunStarts \/ \E clean \in BOOLEAN : RunEnds(clean)
  \/ \E b \in Buckets : Reset({b})
  \/ Reset(Buckets) \/ ResetWarming \/ UndoReset
  \/ Export \/ \E parts \in SUBSET {"ledger", "warming_rate"} : Import(parts)
  \/ Save \/ Reload \/ Crash

Spec == Init /\ [][Next]_vars

---------------------------------------------------------------------------
Fact == [at : Nat, era : 0..MaxEra, net : Int, bucket : Buckets, weight : {1, 2}]
Stats == [sum : Int, weight : Nat, pos : Nat, neg : Nat, events : Nat, last : 0..MaxEra]
Ledgers == [entries : Seq(Fact), buckets : [Buckets -> Stats]]
ResetOf(r) == \/ r = NoReset
              \/ /\ r \in [of : {"ledger"}, buckets : SUBSET Buckets, ledger : Ledgers, alone : BOOLEAN]
                 /\ HasContent(r.ledger, r.buckets)
              \/ r \in [of : {"warming"}, runs : Seq(Nat), alone : BOOLEAN] /\ r.runs # <<>>

\* What the variables hold; a stash is never one of nothing, and no sequence grows past its limit.
TypeOK ==
  /\ ledger \in Ledgers /\ Len(ledger.entries) <= MaxEntries
  /\ runs \in Seq(Nat) /\ Len(runs) <= MaxRuns
  /\ ResetOf(lastReset) /\ ResetOf(stored.lastReset)
  /\ stored.ledger \in Ledgers /\ blob.ledger \in Ledgers
  /\ change.pending => change.entryAt \in {0, change.at}

\* A bucket's statistics as they are now, however long ago it was last brought up to date.
AsOf(s) == LET d == Decay(s, era)
           IN [sum |-> d.sum, weight |-> d.weight, pos |-> d.pos, neg |-> d.neg, events |-> d.events]
Weighed(l) == [entries |-> l.entries, buckets |-> [b \in Buckets |-> AsOf(l.buckets[b])]]

\* D67 (mech_learning.py:296, core/override.py:262): after any number of steps, there and back, the ledger is what
\* one change from the first target to the last would have made of it, unless something else came in between (or the
\* first entry of a full ring had to make room).
SteppedAsOne ==
  slip \cap {"doubled", "dropped"} = {} =>
    (change.pending /\ change.learns /\ change.alone =>
       Weighed(ledger) = Weighed(IF change.net = 0 THEN change.before
                                 ELSE Add(change.before, Entry(change.at, era, change.net, change.ctx))))

\* mech_learning.py:334: the steps of a change amend its own entry, at the end, and no other.
Others(l, at) == IF l.entries # <<>> /\ Last(l.entries).at = at THEN Front(l.entries) ELSE l.entries
StepsTouchTheirOwn ==
  [][change.pending /\ change'.pending /\ change'.net # change.net /\ slip' \cap {"doubled", "dropped"} = {}
       => Others(ledger', change.at) = Others(ledger, change.at)]_vars

\* Nothing a person said, and no heating run, counts twice, whatever is reset, put back, exported, imported and
\* lost, unless a stash, or the entry of a stepped change, was put back beside
\* facts that were back already.
CountsOnce ==
  "doubled" \notin slip => /\ \A i, j \in DOMAIN ledger.entries : i # j => ledger.entries[i].at # ledger.entries[j].at
                           /\ \A i, j \in DOMAIN runs : i # j => runs[i] # runs[j]

\* What a reset cleared, the heating run under way included, stays cleared through crashes and reloads until it is
\* put back or imported, unless the undo of an override rolled the reset back (or a fact is there twice).
ResetStands ==
  slip \cap {"doubled", "rolled"} = {} => /\ gone.facts \cap Ats(ledger, Buckets) = {}
                                          /\ gone.runs \cap ToSet(runs) = {}

\* D16: a correction is applied on the word of three changes, or of two when the weight of a skip failure counts one
\* of them twice (which D16 does not say), all of its own direction; never of one that came in many steps or was put
\* back and amended.
Backs(f, b) == f.bucket = b /\ f.net * Correction(b) > 0
AppliedIsBacked ==
  slip \cap {"doubled", "dropped"} = {} => \A b \in Buckets : Correction(b) # 0 =>
    \E f, g \in Facts(ledger) :
      /\ Backs(f, b) /\ Backs(g, b) /\ f.at # g.at
      /\ f.weight + g.weight >= MinEvents \/ \E h \in Facts(ledger) : Backs(h, b) /\ h.at \notin {f.at, g.at}

\* D39-D44: the statistics, which the code keeps up one update at a time, are those of the entries; a reset, its
\* undo, an import and a crash move whole facts.  (Beside a
\* fact that counts twice they are not: the older of the two is replayed as if it were the newer.  And what no longer
\* fits the ring stays in them.)
Shelved(r) == IF r.of = "ledger" THEN {f \in Facts(r.ledger) : f.bucket \in r.buckets} ELSE {}
Baseline == INSTANCE LearntBaseline
  WITH learnt   <- Facts(ledger),
       evidence <- [b \in Buckets |-> AsOf(ledger.buckets[b])],
       shelf    <- Shelved(lastReset),
       copy     <- Facts(blob.ledger),
       before   <- IF undo.kept THEN Facts(undo.ledger) ELSE {},
       saved    <- [learnt |-> Facts(stored.ledger), shelf |-> Shelved(stored.lastReset)]
KeepsTheBaseline == Baseline!Init /\ [][Baseline!Next \/ slip' \cap {"doubled", "dropped"} # {}]_(Baseline!vars)
=============================================================================
