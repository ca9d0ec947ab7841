---------------------------- MODULE MCPresetTemps -----------------------------
(***************************************************************************)
(* One step of each temperature is enough: comfort is adapted by a degree  *)
(* and a cold night raises eco by one.  People set eco to what a night may *)
(* have raised it to, too.                                                 *)
(***************************************************************************)
EXTENDS PresetTemps

MCBase  == [comfort |-> 3, boost |-> 6]
MCEdits == [eco |-> {0, 2}, comfort |-> {2}, boost |-> {5}]

=============================================================================
