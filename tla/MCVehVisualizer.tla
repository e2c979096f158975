-------------------------- MODULE MCVehVisualizer --------------------------
(* Instances of VehVisualizer for TLC.                                       *)
EXTENDS VehVisualizer

MCVehicles == {"a"}
MCTypes == {0, 5}
MCHeading == {900}
MCUnavailable == {3601}
=============================================================================
