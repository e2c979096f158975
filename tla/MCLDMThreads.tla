---------------------------- MODULE MCLDMThreads ----------------------------
(* Instances of LDMThreads for TLC.                                          *)
EXTENDS LDMThreads

MCStations == {"a", "b"}
MCUpperKeys == {"u", "v"}
MCSameUpper == [s \in MCStations |-> "u"]
MCOneUpperEach == [s \in MCStations |-> IF s = "a" THEN "u" ELSE "v"]
\* 6 then 7 then 1: in order on a circle of 8; -1 is a message without a timestamp.
MCGNAround == {-1, 1, 6, 7}
MCOneStation == {"a"}
MCOneUpper == [s \in MCOneStation |-> "u"]
MCOneUpperKey == {"u"}
=============================================================================
