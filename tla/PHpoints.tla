------------------------------ MODULE PHpoints ------------------------------
(***************************************************************************)
(* ldmmap::PHpoints (src/src/PHpoints.cpp): the ring of path history       *)
(* points of one vehicle.  insert is called by LDMMap::insert and iterate  *)
(* by the JSON server; here each call is one action.                       *)
(*                                                                         *)
(* Positions are points of a line and distances differences, headings are  *)
(* steps of a circle.  The constructors leave m_stored_distance alone, so  *)
(* it starts as whatever the memory held: any member of StoredValues.      *)
(***************************************************************************)
EXTENDS Integers, Sequences

CONSTANTS
    Positions,      \* points of a line, standing for latitude and longitude
    Headings,       \* headings a vehicle reports
    HalfTurn,       \* 180 degrees
    MinDist,        \* m_min_dist_m
    MaxDist,        \* m_max_dist_m
    MaxHeading,     \* m_max_heading_diff_degs
    Limit,          \* m_distance_limit
    StoredValues    \* what the memory of m_stored_distance may hold

\* m_vectorReservedSize: ceil(m_distance_limit/m_min_dist_m).
Cap == (Limit + MinDist - 1) \div MinDist

ASSUME PHpointsAssumption ==
    /\ Positions \subseteq Int /\ StoredValues \subseteq Int
    /\ HalfTurn \in Nat \ {0} /\ Headings \subseteq 0 .. 2 * HalfTurn - 1
    /\ MinDist \in Nat \ {0} /\ MaxDist \in Nat /\ MaxHeading \in Nat /\ Limit \in Nat
    /\ Cap > 1

VARIABLES
    m_pDataArray,       \* slot -> point
    m_next_idx,
    m_oldest_idx,
    m_PHpoints_size,
    m_stored_distance,
    m_removeOnlyOne,    \* the "Remove Policy"
    m_iterateFull,      \* the "Iterate Policy"
    answer              \* what the last call returned

ring == <<m_pDataArray, m_next_idx, m_oldest_idx, m_PHpoints_size, m_stored_distance>>
policies == <<m_removeOnlyOne, m_iterateFull>>
vars == <<ring, policies, answer>>

Slots == 0 .. Cap - 1

Points == [pos : Positions, heading : Headings]

\* A slot nothing was written to.
NoPoint == [pos |-> 0, heading |-> 0, point_distance |-> -1]

Shown(slot) == [pos |-> slot.pos, heading |-> slot.heading]

-----------------------------------------------------------------------------
(* Distances and headings                                                  *)

Magnitude(n) == IF n < 0 THEN -n ELSE n

Distance(p, q) == Magnitude(p - q)

\* The difference of two headings the short way round.
AngDiff(a, b) ==
    IF a - b > HalfTurn THEN a - b - 2 * HalfTurn
    ELSE IF a - b < -HalfTurn THEN a - b + 2 * HalfTurn ELSE a - b

-----------------------------------------------------------------------------
(* The ring                                                                *)

UnwrappedSucc(i) == i + 1

\* A step along the ring, and a step back.
Succ(i) == (i + 1) % Cap
Pred(i) == IF i = 0 THEN Cap - 1 ELSE i - 1

\* The slot insert takes for the one of the point saved last.
PrevIdx == IF m_next_idx = 0 THEN m_PHpoints_size - 1 ELSE m_next_idx - 1

Previous == m_pDataArray[PrevIdx]

CloseBy(p) ==
    LET d == Distance(Previous.pos, p.pos)
    IN  /\ d < MaxDist
        /\ d < MinDist \/ Magnitude(AngDiff(Previous.heading, p.heading)) < MaxHeading

SkewedOldestSlot(k) == (m_oldest_idx + k + 1) % Cap

OldestSlot(k) == (m_oldest_idx + k) % Cap

\* m_stored_distance once k points have been taken away at the old end.
StoredWithout[k \in 0 .. Cap] ==
    IF k = 0 THEN m_stored_distance
    ELSE StoredWithout[k - 1] - m_pDataArray[OldestSlot(k - 1)].point_distance

\* How many points the loop takes away, or the test for one point.
ToRemove ==
    IF m_removeOnlyOne THEN IF m_stored_distance >= Limit THEN 1 ELSE 0
    ELSE CHOOSE k \in 0 .. m_PHpoints_size - 1 :
            /\ StoredWithout[k] < Limit \/ k = m_PHpoints_size - 1
            /\ \A j \in 0 .. k - 1 : ~ (StoredWithout[j] < Limit)

IterateTooFar ==
    LET slot[i \in 0 .. Cap] == IF i > 0 THEN Pred(slot[i - 1]) ELSE Pred(m_next_idx)
    IN  [i \in 1 .. m_PHpoints_size |-> Shown(m_pDataArray[slot[i]])]

\* The points iterate returns, call after call, to the end.
IterateAll ==
    LET skipped == IF m_iterateFull THEN 0 ELSE 1
        slot[i \in 0 .. Cap] ==     \* cyclic_idx after i calls
            IF i > 0 THEN Pred(slot[i - 1])
            ELSE IF m_iterateFull THEN m_next_idx ELSE Pred(m_next_idx)
    IN  [i \in 1 .. m_PHpoints_size - skipped |-> Shown(m_pDataArray[slot[i]])]

-----------------------------------------------------------------------------
Init ==
    /\ m_pDataArray = [i \in Slots |-> NoPoint]
    /\ m_next_idx = 0
    /\ m_oldest_idx = 0
    /\ m_PHpoints_size = 0
    /\ m_stored_distance \in StoredValues
    /\ m_removeOnlyOne = FALSE
    /\ m_iterateFull = FALSE
    /\ answer = [op |-> "none", points |-> <<>>]

Skip(p) ==
    /\ m_PHpoints_size >= 1
    /\ CloseBy(p)
    /\ answer' = [op |-> "skipped", points |-> <<p>>]
    /\ UNCHANGED <<ring, policies>>

\* The end of insert: the point goes to the next slot, and the size stops at Cap.
Save(p, d, left) ==
    /\ m_PHpoints_size' = IF left < Cap THEN left + 1 ELSE left
    /\ m_pDataArray' = [m_pDataArray EXCEPT ![m_next_idx] =
                           [pos |-> p.pos, heading |-> p.heading, point_distance |-> d]]
    /\ m_next_idx' = Succ(m_next_idx)
    /\ answer' = [op |-> "inserted", points |-> <<p>>]

InsertFirst(p) ==
    /\ m_PHpoints_size = 0
    /\ Save(p, 0, 0)
    /\ UNCHANGED <<m_oldest_idx, m_stored_distance, policies>>

\* A further point, after those beyond the limit are gone.
InsertNext(p) ==
    /\ m_PHpoints_size >= 1
    /\ ~ CloseBy(p)
    /\ m_stored_distance' = StoredWithout[ToRemove] + Distance(Previous.pos, p.pos)
    /\ m_oldest_idx' = OldestSlot(ToRemove)
    /\ Save(p, Distance(Previous.pos, p.pos), m_PHpoints_size - ToRemove)
    /\ UNCHANGED policies

Iterate ==
    /\ answer' = [op |-> "iterated", points |-> IterateAll]
    /\ UNCHANGED <<ring, policies>>

SwitchRemoveOnlyOne ==
    /\ m_removeOnlyOne' = ~ m_removeOnlyOne
    /\ answer' = [op |-> "policy", points |-> <<>>]
    /\ UNCHANGED <<ring, m_iterateFull>>

SetIterateFull(full) ==
    /\ m_iterateFull' = full
    /\ answer' = [op |-> "policy", points |-> <<>>]
    /\ UNCHANGED <<ring, m_removeOnlyOne>>

Next ==
    \/ \E p \in Points : Skip(p) \/ InsertFirst(p) \/ InsertNext(p)
    \/ Iterate \/ SwitchRemoveOnlyOne
    \/ \E full \in BOOLEAN : SetIterateFull(full)

Spec == Init /\ [][Next]_vars

-----------------------------------------------------------------------------
(* Properties                                                              *)

\* Indices stay inside the ring and the size inside 0 .. Cap.
TypeOK ==
    /\ m_next_idx \in Slots
    /\ m_oldest_idx \in Slots
    /\ m_PHpoints_size \in 0 .. Cap
    /\ m_stored_distance \in Int
    /\ m_removeOnlyOne \in BOOLEAN /\ m_iterateFull \in BOOLEAN
    /\ \A i \in Slots :
          m_pDataArray[i] = NoPoint \/ Shown(m_pDataArray[i]) \in Points

Written(i) == m_pDataArray[i] # NoPoint

\* insert only ever reads slots that were written: the vector is reserved but never
\* sized, so a slot before its first write is uninitialised memory.
ReadsWritten ==
    m_PHpoints_size >= 1 =>
        /\ Written(PrevIdx)
        /\ \A k \in 0 .. m_PHpoints_size - 1 : Written(OldestSlot(k))

\* The points held: the m_PHpoints_size slots behind m_next_idx.
Held ==
    [i \in 1 .. m_PHpoints_size |->
        m_pDataArray[(m_next_idx + Cap - m_PHpoints_size + i - 1) % Cap]]

History == INSTANCE PathHistory
              WITH Capacity <- Cap, oneAtATime <- m_removeOnlyOne, withCurrent <- m_iterateFull,
                   history <- [i \in 1 .. m_PHpoints_size |-> Shown(Held[i])]

\* Whatever m_stored_distance started as, however the ring wraps and however much of
\* it is dropped, insert appends and drops old points alone, and iterate reads what
\* is held, newest first, the current point left out or not.
ImplementsPathHistory == History!Spec

\* PHpoints.cpp: prev_idx is the index of the previously saved point.
PreviousIsNewest == m_PHpoints_size >= 1 => PrevIdx = Pred(m_next_idx)

\* The default Remove Policy of PHpoints.h: points are removed until the stored
\* distance is the least one that reaches the limit, so it does not fall below.
StoredReachesLimit ==
    [][answer'.op = "inserted" /\ ~ m_removeOnlyOne /\ m_stored_distance >= Limit
          => m_stored_distance' >= Limit]_vars

\* What m_stored_distance is kept for.
HeldDistance ==
    LET sum[i \in 0 .. Cap] == IF i = 0 THEN 0 ELSE sum[i - 1] + Held[i].point_distance
    IN  sum[m_PHpoints_size]

\* ... and points are removed if needed: none while the points held do not reach the
\* limit and the ring has room.
RemovesIfNeeded ==
    [][answer'.op = "inserted" /\ HeldDistance < Limit /\ m_PHpoints_size < Cap
          => m_PHpoints_size' = m_PHpoints_size + 1]_vars
=============================================================================
