------------------------ MODULE MCLearningLedger ------------------------
(* LearningLedger for TLC: a cold day, where every change says the same, and a mild one after a skip, where a      *)
(* warmer room says another thing than a cooler one.                                                               *)
EXTENDS LearningLedger

MCNets == {-1, 0, 3}
MCContexts == {[skip |-> FALSE, warmBy |-> FALSE, cold |-> TRUE], [skip |-> TRUE, warmBy |-> FALSE, cold |-> FALSE]}
=============================================================================
