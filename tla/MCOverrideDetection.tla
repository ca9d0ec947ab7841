------------------------ MODULE MCOverrideDetection ------------------------
(***************************************************************************)
(* OverrideDetection for TLC: its tasks are alike, and so are its sources. *)
(* A block begins with the third tick and none after it: a stand-down of   *)
(* the first moment ends by the time-out, a later one with the block.      *)
(***************************************************************************)
EXTENDS OverrideDetection, TLC

MCNextBoundary == [c \in 0..4 |-> IF c < 3 THEN 3 ELSE 0]

Alike == Permutations(Tasks) \cup Permutations(Sources)
=============================================================================
