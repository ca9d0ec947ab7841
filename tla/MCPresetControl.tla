-------------------------- MODULE MCPresetControl ---------------------------
(***************************************************************************)
(* A day of a room with a block in every slot: eco, comfort from a warm-by *)
(* time on that a skip may run through, frost that it may not, comfort.    *)
(***************************************************************************)
EXTENDS PresetControl

MCAt        == {0, 1, 2, 3}
MCPresetOf  == [a \in MCAt |-> IF a = 0 THEN "eco" ELSE IF a = 2 THEN "frost" ELSE "comfort"]
MCWarmBy    == {1, 3}
MCSkippable == {1}

=============================================================================
