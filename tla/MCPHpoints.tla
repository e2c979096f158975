----------------------------- MODULE MCPHpoints -----------------------------
(* Instances of PHpoints for TLC.                                            *)
EXTENDS PHpoints

\* A ring of three slots (Limit over MinDist) and steps that are skipped, kept for
\* a change of heading, and kept for their length.
MCPositions == 0 .. 2
MCHeadings == {0, 1, 7}
MCTwoHeadings == {0, 3}
\* Memory that holds a negative, a zero and a huge value.
MCAnyStored == {-4, 0, 9}
MCZeroStored == {0}
=============================================================================
