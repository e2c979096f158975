---------------------------- MODULE PHpointsProofs ----------------------------
(***************************************************************************)
(* Proofs about PHpoints, for any size of the ring, any positions and      *)
(* headings, and whatever m_stored_distance started as: insert and iterate *)
(* only touch slots that were written, the types hold, and the ring        *)
(* implements the list of PathHistory.                                     *)
(*                                                                         *)
(* The oldest index does not follow when a full ring loses a point to the  *)
(* next one, so it need not be the oldest one from the first round on; but *)
(* by then every slot has been written.  Before that nothing has wrapped.  *)
(* The list is found from the next index and the size alone.               *)
(*                                                                         *)
(* What is true of a recursive function at every place of the ring is      *)
(* shown by the least place at which it would fail (LeastMember).          *)
(***************************************************************************)
EXTENDS PHpoints, WellFoundedInduction, TLAPS

\* Types of the ring, with the points taken for numbers.
Indices ==
    /\ m_next_idx \in Slots /\ m_oldest_idx \in Slots
    /\ m_PHpoints_size \in 0 .. Cap
    /\ m_pDataArray \in [Slots -> [pos : Int, heading : Int, point_distance : Int]]

\* Before m_next_idx has wrapped: the points lie side by side below it.
FirstRound ==
    /\ \A i \in 0 .. m_next_idx - 1 : Written(i)
    /\ m_PHpoints_size = m_next_idx - m_oldest_idx

\* After that there is no slot without a point.
LaterRound == \A i \in Slots : Written(i)

IInv == Indices /\ (FirstRound \/ LaterRound)

-----------------------------------------------------------------------------
(* Lemmas                                                                  *)

\* The ring has a size above one.
LEMMA CapNat == Cap \in Nat /\ Cap > 1
<1>1. Limit + MinDist - 1 \in Nat /\ MinDist \in Nat \ {0}
  BY PHpointsAssumption
<1>2. (Limit + MinDist - 1) \div MinDist \in Int
  BY <1>1
<1> QED
  BY <1>2, PHpointsAssumption DEF Cap

\* A remainder is a slot, and a number below Cap its own remainder.
LEMMA Remainder ==
    ASSUME NEW n \in Nat
    PROVE  n % Cap \in Slots /\ (n < Cap => n % Cap = n)
BY CapNat DEF Slots

\* A set of numbers that is not empty has a least member: what is proved by it here is
\* induction over the points of the ring.
LEMMA LeastMember ==
    ASSUME NEW S, S \subseteq Nat, S # {}
    PROVE  \E k \in S : \A j \in Nat : j < k => j \notin S
<1> DEFINE Less == {ss \in Nat \X Nat : ss[1] < ss[2]}
<1>1. OpToRel(<, Nat) = Less
  BY Zenon DEF OpToRel
<1>2. IsWellFoundedOn(Less, Nat)
  BY <1>1, NatLessThanWellFounded, Zenon
<1> HIDE DEF Less
<1>3. PICK k \in S : \A j \in S : ~ (<<j, k>> \in Less)
  BY <1>2, WFMin, Zenon
<1>4. \A j \in Nat : j < k => <<j, k>> \in Less
  BY DEF Less
<1> QED
  BY <1>3, <1>4

\* A reported point has the types of a slot.
LEMMA PointTypes == \A p \in Points : p.pos \in Int /\ p.heading \in Int
<1>1. \A p \in Points : p.pos \in Positions /\ p.heading \in Headings
  BY DEF Points
<1>2. Positions \subseteq Int /\ Headings \subseteq Int
  <2>1. 0 .. 2 * HalfTurn - 1 \subseteq Int
    OBVIOUS
  <2> QED
    BY <2>1, PHpointsAssumption
<1> QED
  BY ONLY <1>1, <1>2

\* A distance is measured from a slot of the ring.
LEMMA PreviousDistance ==
    ASSUME Indices, m_PHpoints_size >= 1, NEW p \in Points
    PROVE  Distance(Previous.pos, p.pos) \in Nat
<1>1. PrevIdx \in Slots
  BY CapNat DEF PrevIdx, Indices, Slots
<1>2. Previous.pos \in Int
  BY <1>1 DEF Previous, Indices
<1> QED
  BY <1>2, PointTypes DEF Distance, Magnitude

\* The loop stops at a number of points that is there, and leaves one.
LEMMA RemovesHeld ==
    ASSUME m_PHpoints_size \in 1 .. Cap
    PROVE  ToRemove \in 0 .. m_PHpoints_size /\ (~ m_removeOnlyOne => ToRemove < m_PHpoints_size)
<1>1. CASE m_removeOnlyOne
  BY <1>1, CapNat DEF ToRemove
<1>2. CASE ~ m_removeOnlyOne
  <2> DEFINE Stops(k) == StoredWithout[k] < Limit \/ k = m_PHpoints_size - 1
             S == {k \in 0 .. m_PHpoints_size - 1 : Stops(k)}
  <2>1. S \subseteq Nat /\ m_PHpoints_size - 1 \in S
    BY CapNat
  <2> HIDE DEF S
  <2>2. PICK k \in S : \A j \in Nat : j < k => j \notin S
    BY <2>1, LeastMember
  <2>3. k \in 0 .. m_PHpoints_size - 1 /\ Stops(k)
    BY <2>2 DEF S
  <2>4. ASSUME NEW j \in 0 .. k - 1 PROVE ~ (StoredWithout[j] < Limit)
    <3>1. j \in Nat /\ j < k /\ j \in 0 .. m_PHpoints_size - 1
      BY <2>3, CapNat
    <3>2. j \notin S
      BY <2>2, <3>1
    <3> QED
      BY <3>1, <3>2 DEF S
  <2>5. \E i \in 0 .. m_PHpoints_size - 1 :
            /\ StoredWithout[i] < Limit \/ i = m_PHpoints_size - 1
            /\ \A j \in 0 .. i - 1 : ~ (StoredWithout[j] < Limit)
    BY <2>3, <2>4
  <2>6. ToRemove \in 0 .. m_PHpoints_size - 1
    BY <1>2, <2>5, Zenon DEF ToRemove
  <2> QED
    BY <1>2, <2>6, CapNat
<1> QED
  BY <1>1, <1>2

\* What insert reads was written.
LEMMA ReadsAreWritten == IInv => ReadsWritten
<1> SUFFICES ASSUME IInv, m_PHpoints_size >= 1 PROVE ReadsWritten
  BY DEF ReadsWritten
<1>1. Cap \in Nat /\ Cap > 1
  BY CapNat
<1>2. CASE LaterRound
  <2>1. PrevIdx \in Slots
    BY <1>1 DEF PrevIdx, IInv, Indices, Slots
  <2>2. ASSUME NEW k \in 0 .. m_PHpoints_size - 1 PROVE OldestSlot(k) \in Slots
    <3>1. m_oldest_idx + k \in Nat
      BY <1>1 DEF IInv, Indices, Slots
    <3> QED
      BY <3>1, Remainder DEF OldestSlot
  <2> QED
    BY <1>2, <2>1, <2>2 DEF ReadsWritten, LaterRound
<1>3. CASE FirstRound
  <2>1. PrevIdx \in 0 .. m_next_idx - 1
    BY <1>1, <1>3 DEF PrevIdx, FirstRound, IInv, Indices, Slots
  <2>2. ASSUME NEW k \in 0 .. m_PHpoints_size - 1 PROVE OldestSlot(k) \in 0 .. m_next_idx - 1
    <3>1. m_oldest_idx + k \in 0 .. m_next_idx - 1 /\ m_oldest_idx + k < Cap /\ m_oldest_idx + k \in Nat
      BY <1>1, <1>3 DEF FirstRound, IInv, Indices, Slots
    <3> QED
      BY <3>1, Remainder DEF OldestSlot
  <2> QED
    BY <1>3, <2>1, <2>2 DEF ReadsWritten, FirstRound
<1> QED
  BY <1>2, <1>3 DEF IInv

-----------------------------------------------------------------------------
(* The steps                                                               *)

\* The ring begins in its first round.
LEMMA InitIInv == Init => IInv
<1> SUFFICES ASSUME Init PROVE IInv
  OBVIOUS
<1>1. Indices
  BY CapNat DEF Init, Indices, Slots, NoPoint
<1>2. FirstRound
  BY DEF Init, FirstRound
<1> QED
  BY <1>1, <1>2 DEF IInv

\* A written slot stays written, and the next one becomes so: the distance of a saved point
\* is not that of NoPoint.
LEMMA SaveWrites ==
    ASSUME Indices, NEW p \in Points, NEW d \in Nat,
           m_pDataArray' = [m_pDataArray EXCEPT ![m_next_idx] =
                               [pos |-> p.pos, heading |-> p.heading, point_distance |-> d]]
    PROVE  /\ m_pDataArray' \in [Slots -> [pos : Int, heading : Int, point_distance : Int]]
           /\ \A i \in Slots : i = m_next_idx \/ Written(i) => Written(i)'
<1> DEFINE q == [pos |-> p.pos, heading |-> p.heading, point_distance |-> d]
<1>1. p.pos \in Int /\ p.heading \in Int
  BY PointTypes
<1>2. q \in [pos : Int, heading : Int, point_distance : Int]
  BY <1>1
<1>3. q.point_distance # NoPoint.point_distance
  BY DEF NoPoint
<1>4. q # NoPoint
  BY <1>3
<1>5. m_pDataArray' = [m_pDataArray EXCEPT ![m_next_idx] = q]
  OBVIOUS
<1> HIDE DEF q
<1>6. m_pDataArray' \in [Slots -> [pos : Int, heading : Int, point_distance : Int]]
  BY <1>2, <1>5 DEF Indices
<1>7. \A i \in Slots : m_pDataArray'[i] = IF i = m_next_idx THEN q ELSE m_pDataArray[i]
  BY <1>5 DEF Indices
<1>8. \A i \in Slots : i = m_next_idx \/ Written(i) => Written(i)'
  BY <1>4, <1>7 DEF Written, NoPoint
<1> QED
  BY <1>6, <1>8

\* A step that saves a point keeps the ring in its round or takes it to the next.
LEMMA SaveKeeps ==
    ASSUME IInv, NEW p \in Points, NEW d \in Nat, NEW k \in 0 .. m_PHpoints_size,
           Save(p, d, m_PHpoints_size - k), m_oldest_idx' = OldestSlot(k)
    PROVE  IInv'
<1>1. Cap \in Nat /\ Cap > 1
  BY CapNat
<1>2. /\ m_pDataArray' \in [Slots -> [pos : Int, heading : Int, point_distance : Int]]
      /\ \A i \in Slots : i = m_next_idx \/ Written(i) => Written(i)'
  BY SaveWrites DEF Save, IInv
<1>3. /\ m_next_idx \in Slots /\ m_oldest_idx \in Slots /\ m_PHpoints_size \in 0 .. Cap
      /\ m_next_idx' = (m_next_idx + 1) % Cap
      /\ m_oldest_idx' = (m_oldest_idx + k) % Cap
      /\ m_PHpoints_size' = IF m_PHpoints_size - k < Cap THEN m_PHpoints_size - k + 1
                            ELSE m_PHpoints_size - k
  BY DEF Save, Succ, OldestSlot, IInv, Indices
<1>4. m_next_idx' \in Slots /\ (m_next_idx + 1 < Cap => m_next_idx' = m_next_idx + 1)
  BY <1>1, <1>3, Remainder DEF Slots
<1>5. m_oldest_idx' \in Slots /\ (m_oldest_idx + k < Cap => m_oldest_idx' = m_oldest_idx + k)
  <2>1. m_oldest_idx + k \in Nat
    BY <1>1, <1>3 DEF Slots
  <2> QED
    BY <1>3, <2>1, Remainder
<1>6. m_PHpoints_size' \in 0 .. Cap
  BY <1>1, <1>3
<1>7. Indices'
  BY <1>2, <1>4, <1>5, <1>6 DEF Indices
<1>8. CASE LaterRound
  <2>1. LaterRound'
    BY <1>2, <1>8 DEF LaterRound
  <2> QED
    BY <1>7, <2>1 DEF IInv
<1>9. CASE FirstRound /\ m_next_idx + 1 < Cap
  <2>1. \A i \in 0 .. m_next_idx : i \in Slots /\ (i = m_next_idx \/ Written(i))
    BY <1>1, <1>3, <1>9 DEF FirstRound, Slots
  <2>2. \A i \in 0 .. m_next_idx' - 1 : Written(i)'
    BY <1>1, <1>2, <1>3, <1>4, <1>9, <2>1 DEF Slots
  <2>3. m_PHpoints_size' = m_next_idx' - m_oldest_idx'
    BY <1>1, <1>3, <1>4, <1>5, <1>9 DEF FirstRound, Slots
  <2> QED
    BY <1>7, <2>2, <2>3 DEF IInv, FirstRound
<1>10. CASE FirstRound /\ ~ (m_next_idx + 1 < Cap)
  <2>1. \A i \in Slots : i = m_next_idx \/ Written(i)
    BY <1>1, <1>3, <1>10 DEF FirstRound, Slots
  <2>2. LaterRound'
    BY <1>2, <2>1 DEF LaterRound
  <2> QED
    BY <1>7, <2>2 DEF IInv
<1> QED
  BY <1>8, <1>9, <1>10 DEF IInv

\* The first point, when there is none.
LEMMA InsertFirstKeeps == ASSUME IInv, NEW p \in Points, InsertFirst(p) PROVE IInv'
<1>1. /\ m_PHpoints_size = 0 /\ 0 \in 0 .. m_PHpoints_size
      /\ Save(p, 0, m_PHpoints_size - 0) /\ m_oldest_idx' = m_oldest_idx
  BY DEF InsertFirst
<1>2. OldestSlot(0) = m_oldest_idx
  <2>1. m_oldest_idx \in Nat /\ m_oldest_idx < Cap /\ m_oldest_idx + 0 = m_oldest_idx
    BY CapNat DEF IInv, Indices, Slots
  <2> QED
    BY <2>1, Remainder DEF OldestSlot
<1> QED
  BY <1>1, <1>2, SaveKeeps

\* A further point: its distance is measured from a slot that was written.
LEMMA InsertNextKeeps == ASSUME IInv, NEW p \in Points, InsertNext(p) PROVE IInv'
<1>1. m_PHpoints_size \in 1 .. Cap
  BY CapNat DEF InsertNext, IInv, Indices
<1>2. ToRemove \in 0 .. m_PHpoints_size
  BY <1>1, RemovesHeld
<1>3. Distance(Previous.pos, p.pos) \in Nat
  BY <1>1, CapNat, PreviousDistance DEF IInv
<1>4. Save(p, Distance(Previous.pos, p.pos), m_PHpoints_size - ToRemove) /\ m_oldest_idx' = OldestSlot(ToRemove)
  BY DEF InsertNext
<1> QED
  BY <1>2, <1>3, <1>4, SaveKeeps

\* IInv is inductive.
LEMMA NextIInv == IInv /\ [Next]_vars => IInv'
<1> SUFFICES ASSUME IInv, [Next]_vars PROVE IInv'
  OBVIOUS
<1>1. ASSUME UNCHANGED ring PROVE IInv'
  BY <1>1 DEF ring, IInv, Indices, FirstRound, LaterRound, Written
<1>2. CASE UNCHANGED vars
  BY <1>1, <1>2 DEF vars, ring
<1>3. ASSUME NEW p \in Points, Skip(p) PROVE IInv'
  BY <1>1, <1>3 DEF Skip
<1>4. CASE Iterate \/ SwitchRemoveOnlyOne \/ \E full \in BOOLEAN : SetIterateFull(full)
  BY <1>1, <1>4 DEF Iterate, SwitchRemoveOnlyOne, SetIterateFull
<1> QED
  BY <1>2, <1>3, <1>4, InsertFirstKeeps, InsertNextKeeps DEF Next

\* IInv is an invariant.
LEMMA Invariant == Spec => []IInv
BY InitIInv, NextIInv, PTL DEF Spec

\* insert never reads a slot that was not written, in no round of the ring and under no
\* policy, although the vector is never sized and the stored distance never initialised.
THEOREM AlwaysReadsWritten == Spec => []ReadsWritten
BY Invariant, ReadsAreWritten, PTL

-----------------------------------------------------------------------------
(* The stored distance                                                     *)

\* Differences can be taken one after the other: a function defined by its first value
\* and what each further one subtracts exists.
LEMMA RunningDifference ==
    ASSUME NEW c \in Nat, NEW first \in Int, NEW minus \in [1 .. c -> Int]
    PROVE  \E f \in [0 .. c -> Int] :
              f[0] = first /\ \A k \in 1 .. c : f[k] = f[k - 1] - minus[k]
<1> DEFINE Upto(n, f) == f[0] = first /\ \A k \in 1 .. n : f[k] = f[k - 1] - minus[k]
           Fails == {n \in 0 .. c : ~ \E f \in [0 .. n -> Int] : Upto(n, f)}
<1>1. Fails = {}
  <2> SUFFICES ASSUME Fails # {} PROVE FALSE
    OBVIOUS
  <2>1. PICK n \in Fails : \A j \in Nat : j < n => j \notin Fails
    <3>1. Fails \subseteq Nat
      OBVIOUS
    <3> HIDE DEF Fails
    <3> QED
      BY <3>1, LeastMember
  <2>2. n \in 0 .. c /\ ~ \E f \in [0 .. n -> Int] : Upto(n, f)
    BY <2>1
  <2>3. n # 0
    <3> SUFFICES ASSUME n = 0 PROVE FALSE
      OBVIOUS
    <3> DEFINE f == [k \in 0 .. 0 |-> first]
    <3>1. f \in [0 .. n -> Int] /\ Upto(n, f)
      OBVIOUS
    <3> QED
      BY <2>2, <3>1
  <2>4. n - 1 \in Nat /\ n - 1 < n /\ n - 1 \in 0 .. c
    BY <2>2, <2>3
  <2>5. PICK g \in [0 .. n - 1 -> Int] : Upto(n - 1, g)
    BY <2>1, <2>4
  <2> DEFINE f == [k \in 0 .. n |-> IF k = n THEN g[n - 1] - minus[n] ELSE g[k]]
  <2>6. g[n - 1] - minus[n] \in Int
    BY <2>2, <2>4
  <2>7. f \in [0 .. n -> Int]
    BY <2>2, <2>4, <2>6
  <2>8. f[0] = first
    BY <2>2, <2>3, <2>5
  <2>9. ASSUME NEW k \in 1 .. n PROVE f[k] = f[k - 1] - minus[k]
    <3>1. CASE k = n
      BY <2>2, <2>3, <3>1
    <3>2. CASE k # n
      <4>1. k \in 1 .. n - 1 /\ k - 1 \in 0 .. n /\ k - 1 # n /\ k \in 0 .. n
        BY <2>2, <3>2
      <4>2. g[k] = g[k - 1] - minus[k]
        BY <2>5, <4>1
      <4> QED
        BY <3>2, <4>1, <4>2
    <3> QED
      BY <3>1, <3>2
  <2> QED
    BY <2>2, <2>7, <2>8, <2>9
<1>2. c \in 0 .. c
  OBVIOUS
<1>3. PICK f \in [0 .. c -> Int] : Upto(c, f)
  BY <1>1, <1>2
<1> QED
  BY <1>3

\* What is left after k removals is a distance, however many there were.
LEMMA StoredWithoutIs ==
    ASSUME Indices, m_stored_distance \in Int
    PROVE  StoredWithout \in [0 .. Cap -> Int]
<1>1. Cap \in Nat /\ Cap > 1
  BY CapNat
<1> DEFINE minus == [k \in 1 .. Cap |-> m_pDataArray[OldestSlot(k - 1)].point_distance]
<1>2. ASSUME NEW k \in 1 .. Cap PROVE m_pDataArray[OldestSlot(k - 1)].point_distance \in Int
  <2>1. m_oldest_idx + (k - 1) \in Nat
    BY <1>1 DEF Indices, Slots
  <2>2. OldestSlot(k - 1) \in Slots
    BY <2>1, Remainder DEF OldestSlot
  <2> QED
    BY <2>2 DEF Indices
<1>3. minus \in [1 .. Cap -> Int] /\ \A k \in 1 .. Cap : minus[k] = m_pDataArray[OldestSlot(k - 1)].point_distance
  BY <1>2
<1> HIDE DEF minus
<1>4. PICK f \in [0 .. Cap -> Int] :
          f[0] = m_stored_distance /\ \A k \in 1 .. Cap : f[k] = f[k - 1] - minus[k]
  BY <1>1, <1>3, RunningDifference
<1> DEFINE Counted(g) == [k \in 0 .. Cap |-> IF k = 0 THEN m_stored_distance
                          ELSE g[k - 1] - m_pDataArray[OldestSlot(k - 1)].point_distance]
<1>5. f = Counted(f)
  <2>1. \A k \in 0 .. Cap : f[k] = Counted(f)[k]
    <3> SUFFICES ASSUME NEW k \in 0 .. Cap PROVE f[k] = Counted(f)[k]
      OBVIOUS
    <3>1. CASE k = 0
      BY <1>1, <1>4, <3>1
    <3>2. CASE k # 0
      <4>1. k \in 1 .. Cap
        BY <1>1, <3>2
      <4> QED
        BY <1>3, <1>4, <3>2, <4>1
    <3> QED
      BY <3>1, <3>2
  <2> QED
    BY <2>1
<1>6. StoredWithout = Counted(StoredWithout)
  <2>1. \E g : g = Counted(g)
    BY <1>5
  <2>2. StoredWithout = CHOOSE g : g = Counted(g)
    BY DEF StoredWithout
  <2> HIDE DEF Counted
  <2> QED
    BY <2>1, <2>2
<1> DEFINE Fails == {n \in 0 .. Cap : StoredWithout[n] \notin Int}
<1>7. Fails = {}
  <2> SUFFICES ASSUME Fails # {} PROVE FALSE
    OBVIOUS
  <2>1. PICK n \in Fails : \A j \in Nat : j < n => j \notin Fails
    <3>1. Fails \subseteq Nat
      BY <1>1
    <3> HIDE DEF Fails
    <3> QED
      BY <3>1, LeastMember
  <2>2. n \in 0 .. Cap /\ StoredWithout[n] \notin Int
    BY <2>1
  <2>3. StoredWithout[0] = m_stored_distance
    BY <1>1, <1>6
  <2>4. n \in 1 .. Cap
    BY <1>1, <2>2, <2>3
  <2>5. StoredWithout[n] = StoredWithout[n - 1] - m_pDataArray[OldestSlot(n - 1)].point_distance
    BY <1>1, <1>6, <2>4
  <2>6. n - 1 \in Nat /\ n - 1 < n /\ n - 1 \in 0 .. Cap
    BY <1>1, <2>4
  <2>7. StoredWithout[n - 1] \in Int
    BY <2>1, <2>6
  <2> QED
    BY <1>2, <2>2, <2>4, <2>5, <2>7
<1> QED
  BY <1>6, <1>7

\* A slot holds a point that was reported, or none; the rest of the types.
TInv ==
    /\ m_stored_distance \in Int
    /\ m_removeOnlyOne \in BOOLEAN /\ m_iterateFull \in BOOLEAN
    /\ \A i \in Slots : m_pDataArray[i] = NoPoint \/ Shown(m_pDataArray[i]) \in Points

\* Saving a point that was reported leaves the slots typed.
LEMMA SaveTyped ==
    ASSUME Indices, NEW p \in Points, NEW d,
           \A i \in Slots : m_pDataArray[i] = NoPoint \/ Shown(m_pDataArray[i]) \in Points,
           m_pDataArray' = [m_pDataArray EXCEPT ![m_next_idx] =
                               [pos |-> p.pos, heading |-> p.heading, point_distance |-> d]]
    PROVE  \A i \in Slots : m_pDataArray'[i] = NoPoint \/ Shown(m_pDataArray'[i]) \in Points
<1>1. Shown([pos |-> p.pos, heading |-> p.heading, point_distance |-> d]) \in Points
  BY DEF Shown, Points
<1> QED
  BY <1>1 DEF Indices

\* The types of the stored distance and of the points are kept.
LEMMA TInvStep == IInv /\ TInv /\ [Next]_vars => TInv'
<1> SUFFICES ASSUME IInv, TInv, [Next]_vars PROVE TInv'
  OBVIOUS
<1>0. Indices
  BY DEF IInv
<1>1. CASE UNCHANGED vars
  BY <1>1 DEF vars, ring, policies, TInv
<1>2. ASSUME NEW p \in Points, Skip(p) PROVE TInv'
  BY <1>2 DEF Skip, ring, policies, TInv
<1>3. CASE Iterate \/ SwitchRemoveOnlyOne \/ \E full \in BOOLEAN : SetIterateFull(full)
  BY <1>3 DEF Iterate, SwitchRemoveOnlyOne, SetIterateFull, ring, policies, TInv
<1>4. ASSUME NEW p \in Points, InsertFirst(p) PROVE TInv'
  BY <1>0, <1>4, SaveTyped DEF InsertFirst, Save, policies, TInv
<1>5. ASSUME NEW p \in Points, InsertNext(p) PROVE TInv'
  <2>1. m_PHpoints_size \in 1 .. Cap /\ m_PHpoints_size >= 1
    BY <1>0, <1>5, CapNat DEF InsertNext, Indices
  <2>2. StoredWithout[ToRemove] \in Int
    BY <1>0, <2>1, CapNat, RemovesHeld, StoredWithoutIs DEF TInv
  <2>3. m_stored_distance' \in Int
    BY <1>0, <1>5, <2>1, <2>2, PreviousDistance DEF InsertNext
  <2> QED
    BY <1>0, <1>5, <2>3, SaveTyped DEF InsertNext, Save, policies, TInv
<1> QED
  BY <1>1, <1>2, <1>3, <1>4, <1>5 DEF Next

\* Types of the ring: its indices, sizes and points, and a stored distance that stays a
\* number whatever was subtracted from what it started as.
THEOREM TypeCorrect == Spec => []TypeOK
<1>1. Init => TInv
  BY PHpointsAssumption DEF Init, TInv
<1>2. IInv /\ TInv /\ [Next]_vars => TInv'
  BY TInvStep
<1>3. IInv /\ TInv => TypeOK
  BY DEF IInv, Indices, TInv, TypeOK
<1> QED
  BY <1>1, <1>2, <1>3, Invariant, PTL DEF Spec

-----------------------------------------------------------------------------
(* The ring as a list                                                      *)

\* The points behind the slot next of a ring, the oldest one first.
HistoryOf(data, next, size) ==
    [i \in 1 .. size |-> Shown(data[(next + Cap - size + i - 1) % Cap])]

\* The list the refinement mapping shows.
TheHistory == HistoryOf(m_pDataArray, m_next_idx, m_PHpoints_size)

SlotType == [pos : Int, heading : Int, point_distance : Int]
ShownType == [pos : Int, heading : Int]

\* An index is at most one turn of the ring away.
LEMMA Wraps ==
    ASSUME NEW n \in 0 .. 2 * Cap - 1
    PROVE  n % Cap = (IF n < Cap THEN n ELSE n - Cap) /\ n % Cap \in Slots
<1>1. Cap \in Nat /\ Cap > 1 /\ n \in Nat
  BY CapNat
<1>2. CASE n < Cap
  BY <1>1, <1>2, Remainder
<1>3. CASE n >= Cap
  <2> DEFINE q == n \div Cap
             r == n % Cap
  <2>1. q \in Int /\ r \in 0 .. Cap - 1 /\ n = q * Cap + r
    BY <1>1
  <2> HIDE DEF q, r
  <2>2. q * Cap > 0 /\ q * Cap < Cap + Cap
    BY <1>1, <1>3, <2>1
  <2>3. q > 0
    BY <1>1, <2>1, <2>2
  <2>4. q < 2
    BY <1>1, <2>1, <2>2
  <2>5. q = 1
    BY <2>1, <2>3, <2>4
  <2>6. r = n - Cap
    BY <1>1, <2>1, <2>5
  <2> QED
    BY <1>1, <1>3, <2>1, <2>6 DEF r, Slots
<1> QED
  BY <1>1, <1>2, <1>3

\* The step along the ring.
LEMMA NextSlot ==
    ASSUME NEW next \in Slots
    PROVE  (next + 1) % Cap \in Slots /\ (next + 1) % Cap = IF next + 1 = Cap THEN 0 ELSE next + 1
<1>1. Cap \in Nat /\ Cap > 1 /\ next + 1 \in 0 .. 2 * Cap - 1
  BY CapNat DEF Slots
<1> DEFINE n == next + 1
<1>2. n \in 0 .. 2 * Cap - 1
  BY <1>1
<1> HIDE DEF n
<1>3. n % Cap = (IF n < Cap THEN n ELSE n - Cap) /\ n % Cap \in Slots
  BY <1>2, Wraps
<1> QED
  BY <1>1, <1>3 DEF Slots, n

\* Place i of the list is a slot of the ring.
LEMMA Places ==
    ASSUME NEW next \in Slots, NEW size \in 0 .. Cap, NEW i \in 1 .. size
    PROVE  /\ (next + Cap - size + i - 1) % Cap \in Slots
           /\ (next + Cap - size + i - 1) % Cap
                = IF next + i < size + 1 THEN next + Cap - size + i - 1 ELSE next - size + i - 1
<1>1. Cap \in Nat /\ Cap > 1
  BY CapNat
<1>2. next + Cap - size + i - 1 \in 0 .. 2 * Cap - 1
  BY <1>1 DEF Slots
<1> QED
  BY <1>1, <1>2, Wraps DEF Slots

\* The list is a sequence of points, as long as the size says.
LEMMA HistoryIs ==
    ASSUME NEW data \in [Slots -> SlotType], NEW next \in Slots, NEW size \in 0 .. Cap
    PROVE  HistoryOf(data, next, size) \in Seq(ShownType) /\ Len(HistoryOf(data, next, size)) = size
<1>1. \A i \in 1 .. size : Shown(data[(next + Cap - size + i - 1) % Cap]) \in ShownType
  BY Places DEF Shown, SlotType, ShownType
<1>2. size \in Nat
  BY CapNat
<1> QED
  BY <1>1, <1>2 DEF HistoryOf

\* What a saved point makes of the list: it comes last, and what was taken away, or the
\* oldest point of a full ring, is gone.
LEMMA SaveAppends ==
    ASSUME m_pDataArray \in [Slots -> SlotType], m_next_idx \in Slots, m_PHpoints_size \in 0 .. Cap,
           NEW lost \in 0 .. m_PHpoints_size, NEW q \in SlotType,
           m_pDataArray' \in [Slots -> SlotType], m_pDataArray'[m_next_idx] = q,
           \A i \in Slots : i # m_next_idx => m_pDataArray'[i] = m_pDataArray[i],
           m_next_idx' \in Slots, m_next_idx' = IF m_next_idx + 1 = Cap THEN 0 ELSE m_next_idx + 1,
           m_PHpoints_size' \in 0 .. Cap, m_PHpoints_size' = m_PHpoints_size - lost + 1
    PROVE  TheHistory' = Append(SubSeq(TheHistory, lost + 1, m_PHpoints_size), Shown(q))
<1> DEFINE old == HistoryOf(m_pDataArray, m_next_idx, m_PHpoints_size)
           kept == SubSeq(old, lost + 1, m_PHpoints_size)
<1>1. Cap \in Nat /\ Cap > 1
  BY CapNat
<1>2. m_PHpoints_size' \in 1 .. Cap
  BY <1>1
<1>3. old \in Seq(ShownType) /\ Len(old) = m_PHpoints_size
  BY HistoryIs
<1> HIDE DEF old
<1>4. HistoryOf(m_pDataArray', m_next_idx', m_PHpoints_size') \in Seq(ShownType) /\ Len(HistoryOf(m_pDataArray', m_next_idx', m_PHpoints_size')) = m_PHpoints_size'
  BY HistoryIs
<1>5. /\ kept \in Seq(ShownType) /\ Len(kept) = m_PHpoints_size' - 1
      /\ \A i \in 1 .. m_PHpoints_size' - 1 : kept[i] = old[lost + i]
  BY <1>1, <1>2, <1>3
<1> HIDE DEF kept
<1>6. Shown(q) \in ShownType
  BY DEF Shown, SlotType, ShownType
<1>7. ASSUME NEW i \in 1 .. m_PHpoints_size' PROVE HistoryOf(m_pDataArray', m_next_idx', m_PHpoints_size')[i] = Append(kept, Shown(q))[i]
  <2>1. HistoryOf(m_pDataArray', m_next_idx', m_PHpoints_size')[i] = Shown(m_pDataArray'[(m_next_idx' + Cap - m_PHpoints_size' + i - 1) % Cap])
    BY DEF HistoryOf
  <2>2. CASE i = m_PHpoints_size'
    <3>1. (m_next_idx' + Cap - m_PHpoints_size' + i - 1) % Cap = m_next_idx
      BY <1>1, <1>2, <2>2, Places DEF Slots
    <3> QED
      BY <1>5, <1>6, <2>1, <2>2, <3>1
  <2>3. CASE i # m_PHpoints_size'
    <3>1. i \in 1 .. m_PHpoints_size' - 1 /\ lost + i \in 1 .. m_PHpoints_size
      BY <1>1, <1>2, <2>3
    <3>2. /\ (m_next_idx' + Cap - m_PHpoints_size' + i - 1) % Cap = (m_next_idx + Cap - m_PHpoints_size + (lost + i) - 1) % Cap
          /\ (m_next_idx' + Cap - m_PHpoints_size' + i - 1) % Cap # m_next_idx
          /\ (m_next_idx' + Cap - m_PHpoints_size' + i - 1) % Cap \in Slots
      <4>1. /\ (m_next_idx' + Cap - m_PHpoints_size' + i - 1) % Cap \in Slots
            /\ (m_next_idx' + Cap - m_PHpoints_size' + i - 1) % Cap
                 = IF m_next_idx' + i < m_PHpoints_size' + 1 THEN m_next_idx' + Cap - m_PHpoints_size' + i - 1 ELSE m_next_idx' - m_PHpoints_size' + i - 1
        BY Places
      <4>2. (m_next_idx + Cap - m_PHpoints_size + (lost + i) - 1) % Cap
              = IF m_next_idx + (lost + i) < m_PHpoints_size + 1 THEN m_next_idx + Cap - m_PHpoints_size + (lost + i) - 1
                ELSE m_next_idx - m_PHpoints_size + (lost + i) - 1
        BY <3>1, Places
      <4>3. m_next_idx \in 0 .. Cap - 1 /\ i \in Int /\ lost \in Int /\ m_PHpoints_size \in 0 .. Cap
        BY <1>1, <1>2 DEF Slots
      <4> QED
        BY <1>1, <1>2, <3>1, <4>1, <4>2, <4>3
    <3>3. old[lost + i] = Shown(m_pDataArray[(m_next_idx + Cap - m_PHpoints_size + (lost + i) - 1) % Cap])
      BY <3>1 DEF old, HistoryOf
    <3>4. Append(kept, Shown(q))[i] = kept[i]
      BY <1>5, <1>6, <3>1
    <3> QED
      BY <1>5, <2>1, <3>1, <3>2, <3>3, <3>4
  <2> QED
    BY <2>2, <2>3
<1>8. Append(kept, Shown(q)) \in Seq(ShownType) /\ Len(Append(kept, Shown(q))) = m_PHpoints_size'
  BY <1>2, <1>5, <1>6
<1>9. HistoryOf(m_pDataArray', m_next_idx', m_PHpoints_size') = Append(kept, Shown(q))
  BY <1>4, <1>7, <1>8
<1> QED
  BY <1>9 DEF kept, old, TheHistory

\* Walking back from a slot: the one way to do it, place by place.
LEMMA WalkBack ==
    ASSUME NEW start \in Slots
    PROVE  /\ \E g : g = [i \in 0 .. Cap |-> IF i > 0 THEN Pred(g[i - 1]) ELSE start]
           /\ \A g : g = [i \in 0 .. Cap |-> IF i > 0 THEN Pred(g[i - 1]) ELSE start]
                      => \A i \in 0 .. Cap : g[i] = IF i <= start THEN start - i ELSE start + Cap - i
<1>1. Cap \in Nat /\ Cap > 1 /\ start \in 0 .. Cap - 1
  BY CapNat DEF Slots
<1> DEFINE Walk(g) == [i \in 0 .. Cap |-> IF i > 0 THEN Pred(g[i - 1]) ELSE start]
           At(i) == IF i <= start THEN start - i ELSE start + Cap - i
<1>2. ASSUME NEW i \in 1 .. Cap PROVE At(i) = Pred(At(i - 1))
  BY <1>1 DEF Pred
<1>3. At(0) = start
  BY <1>1
<1> HIDE DEF At
<1>4. \E g : g = Walk(g)
  <2> DEFINE h == [i \in 0 .. Cap |-> At(i)]
  <2>1. ASSUME NEW i \in 0 .. Cap PROVE h[i] = Walk(h)[i]
    <3>1. CASE i = 0
      BY <1>3, <3>1
    <3>2. CASE i # 0
      <4>1. i \in 1 .. Cap /\ i - 1 \in 0 .. Cap
        BY <1>1, <3>2
      <4> QED
        BY <1>2, <4>1
    <3> QED
      BY <3>1, <3>2
  <2>2. h = Walk(h)
    BY <2>1
  <2> QED
    BY <2>2
<1>5. ASSUME NEW g, g = Walk(g) PROVE \A i \in 0 .. Cap : g[i] = At(i)
  <2> DEFINE Fails == {i \in 0 .. Cap : g[i] # At(i)}
  <2> SUFFICES ASSUME Fails # {} PROVE FALSE
    OBVIOUS
  <2>1. PICK i \in Fails : \A j \in Nat : j < i => j \notin Fails
    <3>1. Fails \subseteq Nat
      BY <1>1
    <3> HIDE DEF Fails
    <3> QED
      BY <3>1, LeastMember
  <2>2. i \in 0 .. Cap /\ g[i] # At(i)
    BY <2>1
  <2>3. g[0] = start
    BY <1>1, <1>5
  <2>4. i \in 1 .. Cap /\ i - 1 \in Nat /\ i - 1 < i /\ i - 1 \in 0 .. Cap
    BY <1>1, <1>3, <2>2, <2>3
  <2>5. g[i] = Pred(g[i - 1])
    BY <1>5, <2>4
  <2>6. g[i - 1] = At(i - 1)
    BY <2>1, <2>4
  <2> QED
    BY <1>2, <2>2, <2>4, <2>5, <2>6
<1> QED
  BY <1>4, <1>5 DEF At

\* iterate returns the list from its new end.
LEMMA IterateReads ==
    ASSUME Indices, m_iterateFull \in BOOLEAN,
           NEW shown, shown = IF m_iterateFull THEN m_PHpoints_size
                              ELSE IF m_PHpoints_size = 0 THEN 0 ELSE m_PHpoints_size - 1
    PROVE  IterateAll = [i \in 1 .. shown |->
                            HistoryOf(m_pDataArray, m_next_idx, m_PHpoints_size)[shown + 1 - i]]
<1>1. Cap \in Nat /\ Cap > 1 /\ m_next_idx \in 0 .. Cap - 1 /\ m_PHpoints_size \in 0 .. Cap
  BY CapNat DEF Indices, Slots
<1> DEFINE skipped == IF m_iterateFull THEN 0 ELSE 1
           start == IF m_iterateFull THEN m_next_idx ELSE Pred(m_next_idx)
           Walk(g) == [i \in 0 .. Cap |-> IF i > 0 THEN Pred(g[i - 1]) ELSE start]
           slot == CHOOSE g : g = Walk(g)
<1>2. IterateAll = [i \in 1 .. m_PHpoints_size - skipped |-> Shown(m_pDataArray[slot[i]])]
  BY DEF IterateAll
<1>3. start \in Slots /\ start \in 0 .. Cap - 1
  BY <1>1 DEF Pred, Slots
<1> HIDE DEF start
<1>4. slot = Walk(slot)
  <2>1. \E g : g = Walk(g)
    BY <1>3, WalkBack
  <2> HIDE DEF Walk
  <2> QED
    BY <2>1
<1> HIDE DEF slot
<1>5. \A i \in 0 .. Cap : slot[i] = IF i <= start THEN start - i ELSE start + Cap - i
  BY <1>3, <1>4, WalkBack
<1>6. 1 .. m_PHpoints_size - skipped = 1 .. shown /\ shown \in 0 .. Cap
  BY <1>1
<1>7. ASSUME NEW i \in 1 .. shown
      PROVE  Shown(m_pDataArray[slot[i]])
               = HistoryOf(m_pDataArray, m_next_idx, m_PHpoints_size)[shown + 1 - i]
  <2>1. shown + 1 - i \in 1 .. m_PHpoints_size /\ i \in 0 .. Cap /\ shown = m_PHpoints_size - skipped
    BY <1>1, <1>6
  <2>2. HistoryOf(m_pDataArray, m_next_idx, m_PHpoints_size)[shown + 1 - i]
          = Shown(m_pDataArray[(m_next_idx + Cap - m_PHpoints_size + (shown + 1 - i) - 1) % Cap])
    BY <2>1 DEF HistoryOf
  <2> DEFINE place == shown + 1 - i
  <2>3. (m_next_idx + Cap - m_PHpoints_size + place - 1) % Cap
          = IF m_next_idx + place < m_PHpoints_size + 1 THEN m_next_idx + Cap - m_PHpoints_size + place - 1
            ELSE m_next_idx - m_PHpoints_size + place - 1
    <3>1. place \in 1 .. m_PHpoints_size /\ m_next_idx \in Slots
      BY <2>1 DEF Indices
    <3> HIDE DEF place
    <3> QED
      BY <1>1, <3>1, Places
  <2>4. slot[i] = (m_next_idx + Cap - m_PHpoints_size + place - 1) % Cap
    BY <1>1, <1>3, <1>5, <2>1, <2>3 DEF start, Pred
  <2> QED
    BY <2>2, <2>4
<1> QED
  BY <1>2, <1>6, <1>7

-----------------------------------------------------------------------------
(* The refinement of PathHistory                                           *)

\* ... which is the one PHpoints maps to history.
LEMMA MappingIs == [i \in 1 .. m_PHpoints_size |-> Shown(Held[i])] = TheHistory
BY DEF Held, TheHistory, HistoryOf

\* It is empty when the size is zero, and only then.
LEMMA TheHistoryIs ==
    ASSUME Indices
    PROVE  /\ TheHistory \in Seq(ShownType) /\ Len(TheHistory) = m_PHpoints_size
           /\ TheHistory = <<>> <=> m_PHpoints_size = 0
<1>1. TheHistory \in Seq(ShownType) /\ Len(TheHistory) = m_PHpoints_size
  BY HistoryIs DEF Indices, TheHistory, SlotType
<1> QED
  BY <1>1

\* A saved point is recorded, at the expense of old points alone.
LEMMA SaveRecords ==
    ASSUME Indices, NEW p \in Points, NEW d \in Nat, NEW k \in 0 .. m_PHpoints_size,
           m_removeOnlyOne => k <= 1,
           ~ m_removeOnlyOne /\ m_PHpoints_size # 0 => k < m_PHpoints_size,
           Save(p, d, m_PHpoints_size - k), UNCHANGED policies
    PROVE  History!Record(p)
<1>1. Cap \in Nat /\ Cap > 1 /\ m_PHpoints_size \in 0 .. Cap
  BY CapNat DEF Indices
<1> DEFINE lost == IF m_PHpoints_size - k < Cap THEN k ELSE 1
           q == [pos |-> p.pos, heading |-> p.heading, point_distance |-> d]
<1>2. q \in SlotType /\ Shown(q) = p
  <2>1. p.pos \in Int /\ p.heading \in Int /\ p = [pos |-> p.pos, heading |-> p.heading]
    BY PointTypes DEF Points
  <2> QED
    BY <2>1 DEF SlotType, Shown
<1>3. /\ lost \in 0 .. m_PHpoints_size
      /\ m_removeOnlyOne => lost <= 1
      /\ ~ m_removeOnlyOne /\ m_PHpoints_size # 0 => lost < m_PHpoints_size
  BY <1>1
<1>4. /\ m_pDataArray' = [m_pDataArray EXCEPT ![m_next_idx] = q]
      /\ m_next_idx' = (m_next_idx + 1) % Cap
      /\ m_PHpoints_size' = m_PHpoints_size - lost + 1 /\ m_PHpoints_size' \in 0 .. Cap
  BY <1>1 DEF Save, Succ
<1>5. lost = IF m_PHpoints_size - k < Cap THEN k ELSE 1
  OBVIOUS
<1> HIDE DEF lost, q
<1>6. TheHistory' = Append(SubSeq(TheHistory, lost + 1, m_PHpoints_size), Shown(q))
  <2>1. m_pDataArray \in [Slots -> SlotType] /\ m_next_idx \in Slots
    BY DEF Indices, SlotType
  <2>2. m_next_idx' \in Slots /\ m_next_idx' = IF m_next_idx + 1 = Cap THEN 0 ELSE m_next_idx + 1
    BY <1>4, <2>1, NextSlot
  <2>3. /\ m_pDataArray' \in [Slots -> SlotType] /\ m_pDataArray'[m_next_idx] = q
        /\ \A i \in Slots : i # m_next_idx => m_pDataArray'[i] = m_pDataArray[i]
    BY <1>2, <1>4, <2>1
  <2> QED
    BY <1>1, <1>2, <1>3, <1>4, <2>1, <2>2, <2>3, SaveAppends
<1>7. TheHistory' = Append(SubSeq(TheHistory, lost + 1, Len(TheHistory)), p)
  BY <1>2, <1>6, TheHistoryIs
<1>8. Len(TheHistory') <= Cap
  <2>1. SubSeq(TheHistory, lost + 1, Len(TheHistory)) \in Seq(ShownType)
        /\ Len(SubSeq(TheHistory, lost + 1, Len(TheHistory))) = m_PHpoints_size - lost
    BY <1>1, <1>3, TheHistoryIs
  <2>2. p \in ShownType
    BY PointTypes DEF Points, ShownType
  <2>3. Len(TheHistory') = m_PHpoints_size - lost + 1
    BY <1>7, <2>1, <2>2
  <2>4. m_PHpoints_size - lost < Cap
    BY <1>1, <1>3, <1>5
  <2> QED
    BY <1>1, <1>3, <2>3, <2>4
<1>9. answer' = [op |-> "inserted", points |-> <<p>>]
  BY DEF Save
<1>10. \E l \in 0 .. Len(TheHistory) :
          /\ m_removeOnlyOne => l <= 1
          /\ ~ m_removeOnlyOne /\ TheHistory # <<>> => l < Len(TheHistory)
          /\ TheHistory' = Append(SubSeq(TheHistory, l + 1, Len(TheHistory)), p)
  BY <1>3, <1>7, TheHistoryIs
<1>11. [i \in 1 .. m_PHpoints_size |-> Shown(Held[i])]' = TheHistory'
  BY DEF Held, TheHistory, HistoryOf
<1> HIDE DEF TheHistory
<1> QED
  BY <1>8, <1>9, <1>10, <1>11, MappingIs DEF History!Record, History!policies, policies

\* Each call is a step of the list, or leaves it alone.
LEMMA StepRefines == IInv /\ TInv /\ [Next]_vars => [History!Next]_History!historyVars
<1> SUFFICES ASSUME IInv, TInv, [Next]_vars
             PROVE  [History!Next]_History!historyVars
  OBVIOUS
<1>0. Indices /\ m_iterateFull \in BOOLEAN /\ m_removeOnlyOne \in BOOLEAN
  BY DEF IInv, TInv
<1>1. [i \in 1 .. m_PHpoints_size |-> Shown(Held[i])]' = TheHistory'
  BY DEF Held, TheHistory, HistoryOf
<1>2. UNCHANGED ring => TheHistory' = TheHistory
  BY DEF ring, TheHistory
<1>3. CASE UNCHANGED vars
  BY <1>1, <1>2, <1>3, MappingIs DEF vars, policies, History!historyVars, History!policies
<1>4. ASSUME NEW p \in Points, Skip(p) PROVE History!Skip(p)
  <2>1. TheHistory # <<>> /\ TheHistory' = TheHistory
    BY <1>0, <1>2, <1>4, TheHistoryIs DEF Skip
  <2> QED
    BY <1>1, <1>4, <2>1, MappingIs DEF Skip, policies, History!Skip, History!policies
<1>5. ASSUME NEW p \in Points, InsertFirst(p) PROVE History!Record(p)
  <2>1. m_PHpoints_size = 0 /\ Save(p, 0, m_PHpoints_size - 0) /\ UNCHANGED policies
    BY <1>5 DEF InsertFirst
  <2> QED
    BY <1>0, <2>1, SaveRecords
<1>6. ASSUME NEW p \in Points, InsertNext(p) PROVE History!Record(p)
  <2>1. m_PHpoints_size \in 1 .. Cap
    BY <1>0, <1>6, CapNat DEF InsertNext, Indices
  <2>2. /\ ToRemove \in 0 .. m_PHpoints_size
        /\ ~ m_removeOnlyOne => ToRemove < m_PHpoints_size
        /\ m_removeOnlyOne => ToRemove <= 1
    BY <2>1, RemovesHeld DEF ToRemove
  <2>3. Distance(Previous.pos, p.pos) \in Nat
    BY <1>0, <1>6, PreviousDistance DEF InsertNext
  <2> QED
    BY <1>0, <1>6, <2>1, <2>2, <2>3, SaveRecords DEF InsertNext
<1>7. CASE Iterate
  <2> DEFINE shown == IF m_iterateFull THEN Len(TheHistory)
                      ELSE IF TheHistory = <<>> THEN 0 ELSE Len(TheHistory) - 1
  <2>1. shown = IF m_iterateFull THEN m_PHpoints_size
                ELSE IF m_PHpoints_size = 0 THEN 0 ELSE m_PHpoints_size - 1
    BY <1>0, TheHistoryIs
  <2>2. IterateAll = [i \in 1 .. shown |-> TheHistory[shown + 1 - i]]
    BY <1>0, <2>1, IterateReads DEF TheHistory
  <2>3. IterateAll = History!Read
    <3> DEFINE list == [i \in 1 .. m_PHpoints_size |-> Shown(Held[i])]
               Reading(h) == LET n == IF m_iterateFull THEN Len(h) ELSE IF h = <<>> THEN 0 ELSE Len(h) - 1
                             IN  [i \in 1 .. n |-> h[n + 1 - i]]
    <3>1. History!Read = Reading(list)
      BY DEF History!Read
    <3>2. list = TheHistory
      BY MappingIs
    <3> HIDE DEF list
    <3> QED
      BY <2>2, <3>1, <3>2
  <2>4. History!Iterate
    BY <1>1, <1>2, <1>7, <2>3, MappingIs DEF Iterate, policies, History!Iterate, History!policies
  <2> QED
    BY <2>4 DEF History!Next
<1>8. CASE SwitchRemoveOnlyOne \/ \E full \in BOOLEAN : SetIterateFull(full)
  <2>1. History!ChangePolicy
    BY <1>0, <1>1, <1>2, <1>8, MappingIs DEF SwitchRemoveOnlyOne, SetIterateFull, History!ChangePolicy
  <2> QED
    BY <2>1 DEF History!Next
<1> QED
  BY <1>3, <1>4, <1>5, <1>6, <1>7, <1>8 DEF Next, History!Next

\* A new ring is an empty list.
LEMMA InitRefines == Init => History!Init
<1> SUFFICES ASSUME Init PROVE History!Init
  OBVIOUS
<1>1. m_PHpoints_size = 0 /\ Indices
  BY InitIInv DEF Init, IInv
<1>2. TheHistory = <<>>
  BY <1>1, TheHistoryIs
<1> QED
  BY <1>2, MappingIs DEF Init, History!Init

\* The ring with its three indices, its policies and its stored distance behaves as a list
\* that loses points at its old end alone, at least one fewer than it holds or at most one,
\* and that iterate reads from its new end: for a ring of any size, any limits and
\* policies, and whatever m_stored_distance started as.
THEOREM RefinesPathHistory == Spec => ImplementsPathHistory
<1>1. Init => TInv
  BY PHpointsAssumption DEF Init, TInv
<1>2. IInv /\ TInv /\ [Next]_vars => TInv'
  BY TInvStep
<1>3. IInv /\ TInv /\ [Next]_vars => [History!Next]_History!historyVars
  BY StepRefines
<1> QED
  BY <1>1, <1>2, <1>3, Invariant, InitRefines, PTL DEF Spec, ImplementsPathHistory, History!Spec
=============================================================================
