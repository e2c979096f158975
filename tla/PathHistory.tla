----------------------------- MODULE PathHistory -----------------------------
(***************************************************************************)
(* What the path history of a vehicle promises to LDMMap and to the JSON   *)
(* server: a list of the points the vehicle passed, in order, that loses   *)
(* points at its old end alone and is read from its new end.  There is no  *)
(* ring, no index and no distance here; PHpoints implements it.            *)
(***************************************************************************)
EXTENDS Integers, Sequences

CONSTANTS
    Points,         \* what a vehicle reports: position and heading
    Capacity        \* the largest number of points

VARIABLES
    history,        \* the points, the oldest one first
    oneAtATime,     \* policy: at most one point is lost when one is recorded
    withCurrent,    \* policy: the newest point is part of what is read
    answer          \* what the last call returned

policies == <<oneAtATime, withCurrent>>
historyVars == <<history, policies, answer>>

Init ==
    /\ history = <<>>
    /\ oneAtATime = FALSE
    /\ withCurrent = FALSE
    /\ answer = [op |-> "none", points |-> <<>>]

Record(p) ==
    /\ \E lost \in 0 .. Len(history) :
          /\ oneAtATime => lost <= 1
          /\ ~ oneAtATime /\ history # <<>> => lost < Len(history)
          /\ history' = Append(SubSeq(history, lost + 1, Len(history)), p)
    /\ Len(history') <= Capacity
    /\ answer' = [op |-> "inserted", points |-> <<p>>]
    /\ UNCHANGED policies

Skip(p) ==
    /\ history # <<>>
    /\ answer' = [op |-> "skipped", points |-> <<p>>]
    /\ UNCHANGED <<history, policies>>

\* The points to read, the newest one first.
Read ==
    LET shown == IF withCurrent THEN Len(history)
                 ELSE IF history = <<>> THEN 0 ELSE Len(history) - 1
    IN  [i \in 1 .. shown |-> history[shown + 1 - i]]

Iterate ==
    /\ answer' = [op |-> "iterated", points |-> Read]
    /\ UNCHANGED <<history, policies>>

\* One policy is changed, and the next calls follow it.
ChangePolicy ==
    /\ oneAtATime' \in BOOLEAN
    /\ withCurrent' \in BOOLEAN
    /\ oneAtATime' = oneAtATime \/ withCurrent' = withCurrent
    /\ answer' = [op |-> "policy", points |-> <<>>]
    /\ UNCHANGED history

Next == (\E p \in Points : Record(p) \/ Skip(p)) \/ Iterate \/ ChangePolicy

Spec == Init /\ [][Next]_historyVars
=============================================================================
