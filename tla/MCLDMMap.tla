------------------------------ MODULE MCLDMMap ------------------------------
(* Instances of LDMMap for TLC: two vehicles that share an upper key and one *)
(* alone under another, a counter that fills up, a clock of a few ticks.     *)
EXTENDS LDMMap

CONSTANTS o1, o2, o3

MCStations == {0, 1, 3}
MCObjects == {o1, o2, o3}
MCPositions == {0, 2}
MCRemoveLow == {0, 1}
MCRemoveAll == MCStations
=============================================================================
