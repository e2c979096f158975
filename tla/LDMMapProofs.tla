---------------------------- MODULE LDMMapProofs ----------------------------
(***************************************************************************)
(* Proofs about LDMMap: types, the exact counter, the ownership of the     *)
(* path histories and the refinement of VehicleStore, for every set of     *)
(* stations, every key width and every counter width.                      *)
(***************************************************************************)
EXTENDS LDMMap, FiniteSetTheorems, TLAPS

-----------------------------------------------------------------------------
(* Arithmetic of the keys and of the counter                               *)

\* A counter that stays below its modulus is not changed by it.
LEMMA ModSmall ==
  ASSUME NEW M \in Nat \ {0}, NEW a \in 0 .. M - 1
  PROVE  a % M = a
BY SMT

\* Both halves of an identifier fit in a half key.
LEMMA KeysInRange ==
  ASSUME NEW s \in Stations
  PROVE  KeyUpper(s) \in HalfKeys /\ KeyLower(s) \in HalfKeys
<1>1. KeyBase \in Nat \ {0} /\ s \in 0 .. (KeyBase * KeyBase - 1)
  BY LDMMapAssumption
<1>2. s \div KeyBase \in 0 .. KeyBase - 1
  BY <1>1, SMT
<1>3. s % KeyBase \in 0 .. KeyBase - 1
  BY <1>1, SMT
<1> QED
  BY <1>2, <1>3 DEF KeyUpper, KeyLower, HalfKeys

\* An identifier is determined by its two halves.
LEMMA KeysInjective ==
  ASSUME NEW s \in Stations, NEW t \in Stations,
         KeyUpper(s) = KeyUpper(t), KeyLower(s) = KeyLower(t)
  PROVE  s = t
<1>1. KeyBase \in Nat \ {0} /\ s \in Nat /\ t \in Nat
  BY LDMMapAssumption
<1>2. s = (s \div KeyBase) * KeyBase + (s % KeyBase)
  BY <1>1, SMT
<1>3. t = (t \div KeyBase) * KeyBase + (t % KeyBase)
  BY <1>1, SMT
<1> QED
  BY <1>2, <1>3 DEF KeyUpper, KeyLower

\* An identifier below KeyBase is its own lower half, under upper key 0.
LEMMA KeysOfSmall ==
  ASSUME NEW s \in HalfKeys
  PROVE  KeyUpper(s) = 0 /\ KeyLower(s) = s
<1>1. KeyBase \in Nat \ {0} /\ s \in 0 .. KeyBase - 1
  BY LDMMapAssumption DEF HalfKeys
<1>2. s \div KeyBase = 0
  BY <1>1, SMT
<1>3. s % KeyBase = s
  BY <1>1, SMT
<1> QED
  BY <1>2, <1>3 DEF KeyUpper, KeyLower

-----------------------------------------------------------------------------
(* The two-level map                                                       *)

\* The map holds finitely many entries.
LEMMA KeysFinite ==
  ASSUME NEW m
  PROVE  IsFiniteSet(KeysOf(m))
<1>1. IsFiniteSet(HalfKeys)
  BY LDMMapAssumption, FS_Interval DEF HalfKeys
<1>2. IsFiniteSet(HalfKeys \X HalfKeys)
  BY <1>1, FS_Product
<1>3. KeysOf(m) \in SUBSET (HalfKeys \X HalfKeys)
  BY DEF KeysOf
<1> QED
  BY <1>2, <1>3, FS_Subset

\* Put adds one key, and changes the entry under that key alone.
LEMMA PutLemma ==
  ASSUME NEW m, IsTwoLevelMap(m), NEW u \in HalfKeys, NEW l \in HalfKeys, NEW e \in Entry
  PROVE  /\ IsTwoLevelMap(Put(m, u, l, e))
         /\ KeysOf(Put(m, u, l, e)) = KeysOf(m) \cup {<<u, l>>}
         /\ \A k \in KeysOf(Put(m, u, l, e)) :
               Put(m, u, l, e)[k[1]][k[2]] = IF k = <<u, l>> THEN e ELSE m[k[1]][k[2]]
<1> DEFINE p == Put(m, u, l, e)
<1>1. DOMAIN p = DOMAIN m \cup {u}
  BY DEF Put
<1>2. \A x \in DOMAIN p : x # u => p[x] = m[x]
  BY DEF Put
<1>3. DOMAIN p[u] = (IF u \in DOMAIN m THEN DOMAIN m[u] ELSE {}) \cup {l}
  BY DEF Put
<1>4. \A y \in DOMAIN p[u] : p[u][y] = IF y = l THEN e ELSE m[u][y]
  BY DEF Put
<1> HIDE DEF p
<1>5. IsTwoLevelMap(p)
  BY <1>1, <1>2, <1>3, <1>4 DEF IsTwoLevelMap
<1>6. KeysOf(p) = KeysOf(m) \cup {<<u, l>>}
  BY <1>1, <1>2, <1>3 DEF KeysOf
<1>7. \A k \in KeysOf(p) : p[k[1]][k[2]] = IF k = <<u, l>> THEN e ELSE m[k[1]][k[2]]
  BY <1>1, <1>2, <1>3, <1>4 DEF KeysOf
<1> QED
  BY <1>5, <1>6, <1>7 DEF p

\* Without takes the given keys away and leaves the other entries alone.
LEMMA WithoutLemma ==
  ASSUME NEW m, IsTwoLevelMap(m), NEW S
  PROVE  /\ IsTwoLevelMap(Without(m, S))
         /\ KeysOf(Without(m, S)) = KeysOf(m) \ S
         /\ \A k \in KeysOf(m) \ S : Without(m, S)[k[1]][k[2]] = m[k[1]][k[2]]
<1> DEFINE w == Without(m, S)
<1>1. DOMAIN w = DOMAIN m
  BY DEF Without
<1>2. \A x \in DOMAIN m : DOMAIN w[x] = {z \in DOMAIN m[x] : <<x, z>> \notin S}
  BY DEF Without
<1>3. \A x \in DOMAIN m : \A y \in DOMAIN w[x] : w[x][y] = m[x][y]
  BY DEF Without
<1> HIDE DEF w
<1>4. IsTwoLevelMap(w)
  BY <1>1, <1>2, <1>3 DEF IsTwoLevelMap
<1>5. KeysOf(w) = KeysOf(m) \ S
  <2>1. ASSUME NEW k \in HalfKeys \X HalfKeys
        PROVE  k \in KeysOf(w) <=> k \in KeysOf(m) /\ k \notin S
    <3>1. k = <<k[1], k[2]>>
      OBVIOUS
    <3> QED
      BY <1>1, <1>2, <3>1 DEF KeysOf
  <2> QED
    BY <2>1 DEF KeysOf
<1>6. \A k \in KeysOf(m) \ S : w[k[1]][k[2]] = m[k[1]][k[2]]
  BY <1>1, <1>3, <1>5 DEF KeysOf
<1> QED
  BY <1>4, <1>5, <1>6 DEF w

\* The key of a stored identifier, and the entry under it.
LEMMA HasLemma ==
  ASSUME TypeOK, NEW s \in Stations
  PROVE  /\ Has(s) <=> <<KeyUpper(s), KeyLower(s)>> \in Keys
         /\ Has(s) => EntryOf(s) = At(<<KeyUpper(s), KeyLower(s)>>) /\ EntryOf(s) \in Entry
BY KeysInRange DEF TypeOK, IsTwoLevelMap, Has, Keys, KeysOf, EntryOf, At

\* Every key holds an entry.
LEMMA AtLemma ==
  ASSUME TypeOK, NEW k \in Keys
  PROVE  At(k) \in Entry
BY DEF TypeOK, IsTwoLevelMap, Keys, KeysOf, At

-----------------------------------------------------------------------------
(* The inductive invariant                                                 *)

\* remove is called for identifiers below 2^16 alone (see RemovedIsGone).
RemoveIsSafe == RemoveIds \subseteq HalfKeys

\* CardExact needs HistoriesOwned, which tells that the entry under the key of an
\* identifier is the entry of that identifier, and both need the types.
IInv == TypeOK /\ CardExact /\ HistoriesOwned

\* The invariant talks of the map, the counter and the heap: a call that leaves
\* them alone keeps it, whatever it answers.
LEMMA UnchangedKeepsIInv ==
  ASSUME IInv, UNCHANGED <<m_ldmmap, m_card, heap>>,
         clock' \in 0 .. MaxTime, answer' \in AnswerType
  PROVE  IInv'
BY DEF IInv, TypeOK, CardExact, HistoriesOwned, Keys, At

LEMMA InitIInv == Init => IInv
<1> SUFFICES ASSUME Init PROVE IInv
  OBVIOUS
<1>1. Keys = {}
  BY DEF Init, Keys, KeysOf
<1>2. TypeOK
  BY LDMMapAssumption DEF Init, TypeOK, IsTwoLevelMap, AnswerType
<1> QED
  BY <1>1, <1>2, FS_EmptySet DEF Init, IInv, CardExact, HistoriesOwned

\* A new vehicle: one more key, one more in the counter, an object nobody has.
LEMMA InsertNewIInv ==
  ASSUME IInv, NEW s \in Stations, NEW p \in Positions, InsertNew(s, p)
  PROVE  IInv'
<1> DEFINE u == KeyUpper(s)
           l == KeyLower(s)
<1>0. TypeOK /\ CardExact /\ HistoriesOwned /\ IsTwoLevelMap(m_ldmmap)
  BY DEF IInv, TypeOK
<1>1. u \in HalfKeys /\ l \in HalfKeys
  BY KeysInRange
<1>2. <<u, l>> \notin Keys
  BY <1>0, HasLemma DEF InsertNew
<1>3. PICK o \in Objects \ DOMAIN heap :
         /\ m_ldmmap' = Put(m_ldmmap, u, l,
                            [station |-> s, ts |-> clock, pos |-> p, ph |-> o])
         /\ heap' = [x \in DOMAIN heap \cup {o} |-> IF x = o THEN {s} ELSE heap[x]]
  BY DEF InsertNew
<1> DEFINE e == [station |-> s, ts |-> clock, pos |-> p, ph |-> o]
<1>4. e \in Entry
  BY <1>0 DEF TypeOK, Entry
<1>5. /\ IsTwoLevelMap(m_ldmmap')
      /\ KeysOf(m_ldmmap') = KeysOf(m_ldmmap) \cup {<<u, l>>}
      /\ \A k \in KeysOf(m_ldmmap') :
            m_ldmmap'[k[1]][k[2]] = IF k = <<u, l>> THEN e ELSE m_ldmmap[k[1]][k[2]]
  <2> HIDE DEF u, l, e
  <2>1. m_ldmmap' = Put(m_ldmmap, u, l, e)
    BY <1>3 DEF e, u, l
  <2> QED
    BY <1>0, <1>1, <1>4, <2>1, PutLemma
<1>6. Keys' = Keys \cup {<<u, l>>}
  BY <1>5 DEF Keys
<1>7. IsFiniteSet(Keys)
  BY KeysFinite DEF Keys
<1>8. Cardinality(Keys') = m_card + 1
  BY <1>0, <1>2, <1>6, <1>7, FS_AddElement DEF CardExact
<1>9. m_card' = m_card + 1 /\ m_card' \in 0 .. CardMod - 1
  <2>1. CardMod \in Nat \ {0} /\ m_card \in 0 .. CardMod - 1 /\ m_card # CardMod - 1
    BY <1>0, LDMMapAssumption DEF InsertNew, TypeOK
  <2>2. m_card + 1 \in 0 .. CardMod - 1
    BY <2>1
  <2>3. (m_card + 1) % CardMod = m_card + 1
    BY <2>1, <2>2, ModSmall
  <2>4. m_card' = (m_card + 1) % CardMod
    BY DEF InsertNew
  <2> QED
    BY <2>2, <2>3, <2>4
<1>10. TypeOK'
  <2>1. answer' \in AnswerType /\ clock' \in 0 .. MaxTime
    BY <1>0 DEF InsertNew, TypeOK, AnswerType
  <2>2. DOMAIN heap' \subseteq Objects /\ \A x \in DOMAIN heap' : heap'[x] \subseteq Stations
    BY <1>0, <1>3 DEF TypeOK
  <2> QED
    BY <1>5, <1>9, <2>1, <2>2 DEF TypeOK
<1>11. HistoriesOwned'
  <2> SUFFICES ASSUME NEW k \in Keys'
               PROVE  /\ k = <<KeyUpper(At(k)'.station), KeyLower(At(k)'.station)>>
                      /\ At(k)'.ph \in DOMAIN heap'
                      /\ heap'[At(k)'.ph] = {At(k)'.station}
    BY DEF HistoriesOwned
  <2>1. CASE k = <<u, l>>
    <3>1. At(k)' = e
      BY <1>5, <2>1 DEF Keys, At
    <3> QED
      BY <1>3, <2>1, <3>1
  <2>2. CASE k # <<u, l>>
    <3>1. k \in Keys /\ At(k)' = At(k)
      BY <1>5, <1>6, <2>2 DEF Keys, At
    <3>2. At(k).ph \in DOMAIN heap /\ heap[At(k).ph] = {At(k).station}
          /\ k = <<KeyUpper(At(k).station), KeyLower(At(k).station)>>
      BY <1>0, <3>1 DEF HistoriesOwned
    <3> QED
      BY <1>3, <3>1, <3>2
  <2> QED
    BY <2>1, <2>2
<1> QED
  BY <1>8, <1>9, <1>10, <1>11 DEF IInv, CardExact

\* A known vehicle: the same keys, the same counter, the same object.
LEMMA InsertUpdateIInv ==
  ASSUME IInv, NEW s \in Stations, NEW p \in Positions, InsertUpdate(s, p)
  PROVE  IInv'
<1> DEFINE u == KeyUpper(s)
           l == KeyLower(s)
           e == [EntryOf(s) EXCEPT !.station = s, !.ts = clock, !.pos = p]
<1>0. TypeOK /\ CardExact /\ HistoriesOwned /\ IsTwoLevelMap(m_ldmmap)
  BY DEF IInv, TypeOK
<1>1. u \in HalfKeys /\ l \in HalfKeys
  BY KeysInRange
<1>2. <<u, l>> \in Keys /\ EntryOf(s) = At(<<u, l>>) /\ EntryOf(s) \in Entry
  BY <1>0, HasLemma DEF InsertUpdate
<1>3. EntryOf(s).station = s
  <2>1. <<u, l>> = <<KeyUpper(EntryOf(s).station), KeyLower(EntryOf(s).station)>>
    BY <1>0, <1>2 DEF HistoriesOwned
  <2>2. u = KeyUpper(EntryOf(s).station) /\ l = KeyLower(EntryOf(s).station)
    BY <2>1
  <2>3. EntryOf(s).station \in Stations
    BY <1>2 DEF Entry
  <2> QED
    BY <2>2, <2>3, KeysInjective
<1>4. /\ e \in Entry
      /\ e.station = s
      /\ e.ph = EntryOf(s).ph
  BY <1>0, <1>2 DEF TypeOK, Entry
<1>5. /\ IsTwoLevelMap(m_ldmmap')
      /\ KeysOf(m_ldmmap') = KeysOf(m_ldmmap) \cup {<<u, l>>}
      /\ \A k \in KeysOf(m_ldmmap') :
            m_ldmmap'[k[1]][k[2]] = IF k = <<u, l>> THEN e ELSE m_ldmmap[k[1]][k[2]]
  <2>1. m_ldmmap' = Put(m_ldmmap, u, l, e)
    BY DEF InsertUpdate
  <2> HIDE DEF u, l, e
  <2> QED
    BY <1>0, <1>1, <1>4, <2>1, PutLemma
<1>6. Keys' = Keys
  BY <1>2, <1>5 DEF Keys
<1>7. heap[EntryOf(s).ph] = {s} /\ EntryOf(s).ph \in DOMAIN heap
  BY <1>0, <1>2, <1>3 DEF HistoriesOwned
<1>8. DOMAIN heap' = DOMAIN heap /\ \A o \in DOMAIN heap : heap'[o] = heap[o]
  BY <1>7 DEF InsertUpdate
<1>9. TypeOK'
  <2>1. answer' \in AnswerType /\ clock' \in 0 .. MaxTime /\ m_card' = m_card
    BY <1>0 DEF InsertUpdate, TypeOK, AnswerType
  <2> QED
    BY <1>0, <1>5, <1>8, <2>1 DEF TypeOK
<1>10. CardExact'
  BY <1>0, <1>6 DEF CardExact, InsertUpdate
<1>11. HistoriesOwned'
  <2> SUFFICES ASSUME NEW k \in Keys'
               PROVE  /\ k = <<KeyUpper(At(k)'.station), KeyLower(At(k)'.station)>>
                      /\ At(k)'.ph \in DOMAIN heap'
                      /\ heap'[At(k)'.ph] = {At(k)'.station}
    BY DEF HistoriesOwned
  <2>1. CASE k = <<u, l>>
    <3>1. At(k)' = e
      BY <1>5, <2>1 DEF Keys, At
    <3> HIDE DEF e
    <3> QED
      BY <1>4, <1>7, <1>8, <2>1, <3>1
  <2>2. CASE k # <<u, l>>
    <3>1. k \in Keys /\ At(k)' = At(k)
      BY <1>5, <1>6, <2>2 DEF Keys, At
    <3>2. At(k).ph \in DOMAIN heap /\ heap[At(k).ph] = {At(k).station}
          /\ k = <<KeyUpper(At(k).station), KeyLower(At(k).station)>>
      BY <1>0, <3>1 DEF HistoriesOwned
    <3> QED
      BY <1>8, <3>1, <3>2
  <2> QED
    BY <2>1, <2>2
<1> QED
  BY <1>9, <1>10, <1>11 DEF IInv

\* Taking a set of keys away and their number off the counter keeps the invariant.
LEMMA EraseIInv ==
  ASSUME IInv, NEW S \in SUBSET Keys, m_ldmmap' = Without(m_ldmmap, S),
         m_card' = (m_card - Cardinality(S)) % CardMod, UNCHANGED <<heap, clock>>,
         answer' \in AnswerType
  PROVE  IInv'
<1>0. TypeOK /\ CardExact /\ HistoriesOwned /\ IsTwoLevelMap(m_ldmmap)
  BY DEF IInv, TypeOK
<1>1. /\ IsTwoLevelMap(m_ldmmap')
      /\ Keys' = Keys \ S
      /\ \A k \in Keys' : At(k)' = At(k)
  BY <1>0, WithoutLemma DEF Keys, At
<1>2. IsFiniteSet(Keys) /\ IsFiniteSet(S)
  BY KeysFinite, FS_Subset DEF Keys
<1>3. Cardinality(Keys \ S) = Cardinality(Keys) - Cardinality(S)
  <2>1. Keys \cap S = S
    OBVIOUS
  <2> QED
    BY <1>2, <2>1, FS_Difference
<1>4. /\ Cardinality(Keys) = m_card
      /\ m_card \in 0 .. CardMod - 1
      /\ Cardinality(S) \in Nat
      /\ Cardinality(S) <= Cardinality(Keys)
  BY <1>0, <1>2, FS_Subset, FS_CardinalityType DEF CardExact, TypeOK
<1>5. m_card' = m_card - Cardinality(S) /\ m_card' \in 0 .. CardMod - 1
  BY <1>4, ModSmall, LDMMapAssumption
<1>6. TypeOK'
  BY <1>0, <1>1, <1>5 DEF TypeOK
<1>7. CardExact'
  BY <1>1, <1>3, <1>4, <1>5 DEF CardExact
<1>8. HistoriesOwned'
  BY <1>0, <1>1 DEF HistoriesOwned
<1> QED
  BY <1>6, <1>7, <1>8 DEF IInv

LEMMA RemoveIInv ==
  ASSUME RemoveIsSafe, IInv, NEW s \in RemoveIds, Remove(s)
  PROVE  IInv'
<1>0. TypeOK /\ s \in Stations
  BY LDMMapAssumption DEF IInv
<1>1. CASE ~ Has(s)
  BY <1>0, <1>1, UnchangedKeepsIInv DEF Remove, TypeOK, AnswerType
<1>2. CASE Has(s)
  <2>1. KeyUpper(s) = 0 /\ KeyLower(s) = s
    BY KeysOfSmall DEF RemoveIsSafe
  <2>2. {<<KeyUpper(s), s>>} \in SUBSET Keys
    BY <1>0, <1>2, <2>1, HasLemma
  <2>3. Cardinality({<<KeyUpper(s), s>>}) = 1
    BY FS_Singleton
  <2>4. m_ldmmap' = Without(m_ldmmap, {<<KeyUpper(s), s>>})
    BY <1>2 DEF Remove, Erase
  <2>5. m_card' = (m_card - 1) % CardMod /\ UNCHANGED <<heap, clock>>
        /\ answer' \in AnswerType
    BY <1>0, <1>2 DEF Remove, AnswerType
  <2> QED
    BY <2>2, <2>3, <2>4, <2>5, EraseIInv
<1> QED
  BY <1>1, <1>2

LEMMA DeleteOlderThanIInv ==
  ASSUME IInv, DeleteOlderThan
  PROVE  IInv'
<1>1. OldKeys \in SUBSET Keys
  BY DEF OldKeys
<1>2. \A k \in OldKeys : At(k).station \in Stations
  BY <1>1, AtLemma DEF IInv, Entry
<1>3. answer' \in AnswerType
  BY <1>2 DEF DeleteOlderThan, AnswerType
<1> QED
  BY <1>1, <1>3, EraseIInv DEF DeleteOlderThan

LEMMA ClearIInv ==
  ASSUME IInv, Clear
  PROVE  IInv'
<1>1. Keys' = {}
  BY DEF Clear, Keys, KeysOf
<1>2. TypeOK'
  BY LDMMapAssumption DEF IInv, TypeOK, Clear, IsTwoLevelMap, AnswerType
<1>3. CardExact'
  BY <1>1, FS_EmptySet DEF CardExact, Clear
<1>4. HistoriesOwned'
  BY <1>1 DEF HistoriesOwned
<1> QED
  BY <1>2, <1>3, <1>4 DEF IInv

\* The calls that read, refuse, or let time pass change no part of the invariant.
LEMMA QueryIInv ==
  ASSUME IInv,
         \/ \E s \in Stations : InsertFull(s) \/ Lookup(s) \/ RangeSelectAroundStation(s)
         \/ \E p \in Positions : RangeSelect(p)
         \/ Tick
  PROVE  IInv'
<1>0. TypeOK
  BY DEF IInv
<1>1. ASSUME NEW p
      PROVE  StationsAround(p) \in SUBSET Stations
  BY <1>0, AtLemma DEF StationsAround, Entry
<1>2. CASE \E s \in Stations : InsertFull(s)
  BY <1>0, <1>2, UnchangedKeepsIInv DEF InsertFull, AnswerType, TypeOK
<1>3. CASE \E s \in Stations : Lookup(s)
  <2>1. PICK s \in Stations : Lookup(s)
    BY <1>3
  <2>2. Has(s) => EntryOf(s).station \in Stations
    BY <1>0, HasLemma DEF Entry
  <2>3. answer' \in AnswerType
    BY <2>1, <2>2 DEF Lookup, AnswerType
  <2> QED
    BY <1>0, <2>1, <2>3, UnchangedKeepsIInv DEF Lookup, TypeOK
<1>4. CASE \E s \in Stations : RangeSelectAroundStation(s)
  <2>1. PICK s \in Stations : RangeSelectAroundStation(s)
    BY <1>4
  <2>2. StationsAround(EntryOf(s).pos) \in SUBSET Stations
    BY <1>1
  <2>3. answer' \in AnswerType
    BY <2>1, <2>2 DEF RangeSelectAroundStation, AnswerType
  <2> QED
    BY <1>0, <2>1, <2>3, UnchangedKeepsIInv DEF RangeSelectAroundStation, TypeOK
<1>5. CASE \E p \in Positions : RangeSelect(p)
  <2>1. PICK p \in Positions : RangeSelect(p)
    BY <1>5
  <2>2. StationsAround(p) \in SUBSET Stations
    BY <1>1
  <2>3. answer' \in AnswerType
    BY <2>1, <2>2 DEF RangeSelect, AnswerType
  <2> QED
    BY <1>0, <2>1, <2>3, UnchangedKeepsIInv DEF RangeSelect, TypeOK
<1>6. CASE Tick
  BY <1>0, <1>6, UnchangedKeepsIInv DEF Tick, TypeOK
<1> QED
  BY <1>2, <1>3, <1>4, <1>5, <1>6

LEMMA NextIInv ==
  ASSUME RemoveIsSafe, IInv, [Next]_vars
  PROVE  IInv'
<1>1. CASE UNCHANGED vars
  BY <1>1, UnchangedKeepsIInv DEF vars, IInv, TypeOK
<1>2. CASE Next
  BY <1>2, InsertNewIInv, InsertUpdateIInv, RemoveIInv, DeleteOlderThanIInv, ClearIInv,
     QueryIInv DEF Next
<1> QED
  BY <1>1, <1>2

LEMMA IInvAlways ==
  ASSUME RemoveIsSafe
  PROVE  Spec => []IInv
<1>1. Init => IInv
  BY InitIInv
<1>2. IInv /\ [Next]_vars => IInv'
  BY NextIInv
<1> QED
  BY <1>1, <1>2, PTL DEF Spec

-----------------------------------------------------------------------------
(* The theorems                                                            *)

\* Types hold in every reachable state.
THEOREM TypeCorrect ==
  ASSUME RemoveIsSafe
  PROVE  Spec => []TypeOK
<1>1. IInv => TypeOK
  BY DEF IInv
<1> QED
  BY <1>1, IInvAlways, PTL

\* m_card is the number of entries, whatever calls were made and however many of
\* them found their entry or not, as long as remove is given small identifiers.
THEOREM CounterExact ==
  ASSUME RemoveIsSafe
  PROVE  Spec => []CardExact
<1>1. IInv => CardExact
  BY DEF IInv
<1> QED
  BY <1>1, IInvAlways, PTL

\* No path history is shared between vehicles, mixed, or used after clear freed it.
THEOREM OwnedHistories ==
  ASSUME RemoveIsSafe
  PROVE  Spec => []HistoriesOwned
<1>1. IInv => HistoriesOwned
  BY DEF IInv
<1> QED
  BY <1>1, IInvAlways, PTL


-----------------------------------------------------------------------------
(* LDMMap implements VehicleStore: behind the hashing in two levels and    *)
(* the counter kept by hand there is one record for each station, and each *)
(* call answers as if it worked on those records.  This needs the clock    *)
(* not to be set back, so that no age wraps (Past).                        *)

ClockForward == ~ ClockStepsBack

\* No entry is newer than the clock.
Past == \A k \in Keys : At(k).ts <= clock

RInv == IInv /\ Past

KeyOf(s) == <<KeyUpper(s), KeyLower(s)>>

Stored == {x \in Stations : Has(x)}

-----------------------------------------------------------------------------
(* The mapping                                                             *)

\* The entry under the key of a station is its own.
LEMMA StoredEntry ==
  ASSUME IInv, NEW s \in Stored
  PROVE  /\ s \in Stations
         /\ KeyOf(s) \in Keys
         /\ EntryOf(s) = At(KeyOf(s))
         /\ EntryOf(s) \in Entry
         /\ EntryOf(s).station = s
<1>1. s \in Stations /\ Has(s) /\ TypeOK /\ HistoriesOwned
  BY DEF Stored, IInv
<1>2. KeyOf(s) \in Keys /\ EntryOf(s) = At(KeyOf(s)) /\ EntryOf(s) \in Entry
  BY <1>1, HasLemma DEF KeyOf
<1>3. EntryOf(s).station \in Stations
  BY <1>2 DEF Entry
<1>4. KeyOf(s) = KeyOf(EntryOf(s).station)
  BY <1>1, <1>2 DEF HistoriesOwned, KeyOf
<1>5. KeyUpper(EntryOf(s).station) = KeyUpper(s) /\ KeyLower(EntryOf(s).station) = KeyLower(s)
  BY <1>4 DEF KeyOf
<1> QED
  BY <1>1, <1>2, <1>3, <1>5, KeysInjective

\* Every key is the key of the station of its entry.
LEMMA KeyStored ==
  ASSUME IInv, NEW k \in Keys
  PROVE  /\ At(k).station \in Stored
         /\ k = KeyOf(At(k).station)
         /\ EntryOf(At(k).station) = At(k)
<1>1. At(k).station \in Stations /\ TypeOK
  BY AtLemma DEF Entry, IInv
<1>2. k = KeyOf(At(k).station)
  BY DEF IInv, HistoriesOwned, KeyOf
<1>3. Has(At(k).station)
  BY <1>1, <1>2, HasLemma DEF KeyOf
<1>4. EntryOf(At(k).station) = At(k)
  BY <1>1, <1>2, <1>3, HasLemma DEF KeyOf
<1> QED
  BY <1>1, <1>2, <1>3, <1>4 DEF Stored

LEMMA ViewLemma ==
  /\ DOMAIN StoreView = Stored
  /\ \A s \in Stored : StoreView[s] = [ts |-> EntryOf(s).ts, pos |-> EntryOf(s).pos]
BY DEF StoreView, Stored

\* The instance has a Cardinality of its own, which is the same.
LEMMA SameCardinality == ASSUME NEW S PROVE Store!Cardinality(S) = Cardinality(S)
BY DEF Store!Cardinality, Cardinality

\* There are as many records as the counter says.
LEMMA ViewCardinality ==
  ASSUME IInv
  PROVE  Cardinality(DOMAIN StoreView) = m_card
<1> DEFINE f == [k \in Keys |-> At(k).station]
<1>1. f \in [Keys -> Stored]
  BY KeyStored
<1>2. \A j, k \in Keys : f[j] = f[k] => j = k
  BY KeyStored
<1>3. \A s \in Stored : \E k \in Keys : f[k] = s
  BY StoredEntry
<1> HIDE DEF f
<1>4. f \in Bijection(Keys, Stored)
  BY <1>1, <1>2, <1>3 DEF Bijection, Injection, Surjection, IsInjective
<1>5. Cardinality(Stored) = Cardinality(Keys)
  BY <1>4, KeysFinite, FS_Bijection DEF ExistsBijection, Keys
<1> QED
  BY <1>5, ViewLemma DEF IInv, CardExact

\* A selection of entries by position is one of records.
LEMMA AroundLemma ==
  ASSUME IInv, NEW p
  PROVE  StationsAround(p) = Store!Around(p)
<1>1. \A a, b : Near(a, b) <=> Store!Near(a, b)
  BY DEF Near, Store!Near
<1>2. ASSUME NEW k \in Keys, Near(p, At(k).pos) PROVE At(k).station \in Store!Around(p)
  BY <1>1, <1>2, KeyStored, ViewLemma DEF Store!Around
<1>3. ASSUME NEW s \in Store!Around(p) PROVE s \in StationsAround(p)
  <2>1. s \in Stored /\ Near(p, EntryOf(s).pos)
    BY <1>1, ViewLemma DEF Store!Around
  <2> QED
    BY <2>1, StoredEntry DEF StationsAround
<1> QED
  BY <1>2, <1>3 DEF StationsAround

\* The unsigned age of an entry of the past is its age.
LEMMA AgeLemma ==
  ASSUME RInv, NEW k \in Keys
  PROVE  AgeOf(At(k)) = clock - At(k).ts
<1>1. At(k).ts \in 0 .. MaxTime /\ clock \in 0 .. MaxTime /\ At(k).ts <= clock
  BY AtLemma DEF RInv, IInv, TypeOK, Entry, Past
<1>2. TimeMod \in Nat \ {0} /\ MaxTime \in Nat /\ TimeMod > MaxTime
  BY LDMMapAssumption
<1>3. clock - At(k).ts \in 0 .. TimeMod - 1
  BY <1>1, <1>2
<1> QED
  BY <1>2, <1>3, ModSmall DEF AgeOf

\* So the collection takes the entries of the records that are too old.
LEMMA ExpiredLemma ==
  ASSUME RInv
  PROVE  /\ {At(k).station : k \in OldKeys} = Store!Expired
         /\ \A k \in Keys : k \in OldKeys <=> At(k).station \in Store!Expired
<1>1. IInv
  BY DEF RInv
<1>2. ASSUME NEW k \in Keys PROVE k \in OldKeys <=> At(k).station \in Store!Expired
  <2>1. /\ At(k).station \in DOMAIN StoreView
        /\ StoreView[At(k).station].ts = At(k).ts
    BY <1>1, KeyStored, ViewLemma
  <2> QED
    BY <2>1, AgeLemma DEF OldKeys, Store!Expired
<1>3. ASSUME NEW s \in Store!Expired PROVE \E k \in OldKeys : At(k).station = s
  <2>1. s \in Stored
    BY ViewLemma DEF Store!Expired
  <2>2. KeyOf(s) \in Keys /\ At(KeyOf(s)).station = s
    BY <1>1, <2>1, StoredEntry
  <2> QED
    BY <1>2, <2>2
<1>4. OldKeys \subseteq Keys
  BY DEF OldKeys
<1> QED
  BY <1>2, <1>3, <1>4

-----------------------------------------------------------------------------
(* How the calls change the view                                           *)

\* A map with the same entries shows the same records.
LEMMA ViewUnchanged ==
  ASSUME UNCHANGED m_ldmmap
  PROVE  UNCHANGED StoreView
BY DEF StoreView, Has, EntryOf

\* What HasLemma says of the next state.
LEMMA HasNext ==
  ASSUME TypeOK', NEW s \in Stations
  PROVE  /\ Has(s)' <=> KeyOf(s) \in Keys'
         /\ Has(s)' => EntryOf(s)' = At(KeyOf(s))'
BY KeysInRange DEF TypeOK, IsTwoLevelMap, Has, Keys, KeysOf, EntryOf, At, KeyOf

\* A Put under the key of a station changes its record alone.
LEMMA ViewPut ==
  ASSUME IInv, TypeOK', NEW s \in Stations, NEW e \in Entry,
         m_ldmmap' = Put(m_ldmmap, KeyUpper(s), KeyLower(s), e)
  PROVE  StoreView' = [x \in DOMAIN StoreView \cup {s} |->
                          IF x = s THEN [ts |-> e.ts, pos |-> e.pos] ELSE StoreView[x]]
<1>1. KeyUpper(s) \in HalfKeys /\ KeyLower(s) \in HalfKeys /\ IsTwoLevelMap(m_ldmmap) /\ TypeOK
  BY KeysInRange DEF IInv, TypeOK
<1>2. /\ Keys' = Keys \cup {KeyOf(s)}
      /\ \A k \in Keys' : At(k)' = IF k = KeyOf(s) THEN e ELSE At(k)
  BY <1>1, PutLemma DEF Keys, At, KeyOf
<1>3. ASSUME NEW x \in Stations
      PROVE  /\ Has(x)' <=> Has(x) \/ x = s
             /\ x = s => EntryOf(x)' = e
             /\ x # s /\ Has(x) => EntryOf(x)' = EntryOf(x)
  <2>1. KeyOf(x) = KeyOf(s) => x = s
    BY KeysInjective DEF KeyOf
  <2>2. /\ Has(x)' <=> KeyOf(x) \in Keys'
        /\ Has(x)' => EntryOf(x)' = At(KeyOf(x))'
    BY HasNext
  <2>3. /\ Has(x) <=> KeyOf(x) \in Keys
        /\ Has(x) => EntryOf(x) = At(KeyOf(x))
    BY <1>1, HasLemma DEF KeyOf
  <2>4. Has(x)' <=> Has(x) \/ x = s
    BY <1>2, <2>1, <2>2, <2>3
  <2>5. Has(x)' => EntryOf(x)' = IF x = s THEN e ELSE At(KeyOf(x))
    BY <1>2, <2>1, <2>2
  <2> QED
    BY <2>3, <2>4, <2>5
<1>4. Stored' = Stored \cup {s}
  BY <1>3 DEF Stored
<1>5. StoreView' = [x \in Stored' |-> [ts |-> EntryOf(x)'.ts, pos |-> EntryOf(x)'.pos]]
  BY DEF StoreView, Stored
<1>6. \A x \in Stored' : [ts |-> EntryOf(x)'.ts, pos |-> EntryOf(x)'.pos]
                         = IF x = s THEN [ts |-> e.ts, pos |-> e.pos] ELSE StoreView[x]
  <2> SUFFICES ASSUME NEW x \in Stored'
               PROVE  [ts |-> EntryOf(x)'.ts, pos |-> EntryOf(x)'.pos]
                      = IF x = s THEN [ts |-> e.ts, pos |-> e.pos] ELSE StoreView[x]
    OBVIOUS
  <2>1. x \in Stations /\ Has(x)'
    BY DEF Stored
  <2>2. CASE x = s
    BY <1>3, <2>1, <2>2
  <2>3. CASE x # s
    <3>1. x \in Stored /\ EntryOf(x)' = EntryOf(x)
      BY <1>3, <2>1, <2>3 DEF Stored
    <3> QED
      BY <2>3, <3>1, ViewLemma
  <2> QED
    BY <2>2, <2>3
<1> QED
  BY <1>4, <1>5, <1>6, ViewLemma

\* Taking keys away takes away the records of their stations.
LEMMA ViewWithout ==
  ASSUME IInv, TypeOK', NEW S \in SUBSET Keys, m_ldmmap' = Without(m_ldmmap, S)
  PROVE  StoreView' = [s \in DOMAIN StoreView \ {At(k).station : k \in S} |-> StoreView[s]]
<1>1. IsTwoLevelMap(m_ldmmap) /\ TypeOK
  BY DEF IInv, TypeOK
<1>2. Keys' = Keys \ S /\ \A k \in Keys' : At(k)' = At(k)
  BY <1>1, WithoutLemma DEF Keys, At
<1>3. ASSUME NEW x \in Stations
      PROVE  /\ Has(x)' <=> Has(x) /\ KeyOf(x) \notin S
             /\ Has(x)' => EntryOf(x)' = EntryOf(x)
  <2>1. /\ Has(x)' <=> KeyOf(x) \in Keys'
        /\ Has(x)' => EntryOf(x)' = At(KeyOf(x))'
    BY HasNext
  <2>2. /\ Has(x) <=> KeyOf(x) \in Keys
        /\ Has(x) => EntryOf(x) = At(KeyOf(x))
    BY <1>1, HasLemma DEF KeyOf
  <2> QED
    BY <1>2, <2>1, <2>2
<1>4. ASSUME NEW x \in Stored
      PROVE  KeyOf(x) \in S <=> x \in {At(k).station : k \in S}
  <2>1. KeyOf(x) \in Keys /\ At(KeyOf(x)).station = x
    BY StoredEntry
  <2>2. \A k \in S : k = KeyOf(At(k).station)
    BY KeyStored
  <2> QED
    BY <2>1, <2>2
<1>5. Stored' = Stored \ {At(k).station : k \in S}
  BY <1>3, <1>4 DEF Stored
<1>6. StoreView' = [x \in Stored' |-> [ts |-> EntryOf(x)'.ts, pos |-> EntryOf(x)'.pos]]
  BY DEF StoreView, Stored
<1>7. \A x \in Stored' : x \in Stored /\ EntryOf(x)' = EntryOf(x)
  BY <1>3 DEF Stored
<1> QED
  BY <1>5, <1>6, <1>7, ViewLemma

-----------------------------------------------------------------------------
(* The invariant                                                           *)

LEMMA InitRInv == Init => RInv
<1> SUFFICES ASSUME Init PROVE RInv
  OBVIOUS
<1>1. Keys = {}
  BY DEF Init, Keys, KeysOf
<1> QED
  BY <1>1, InitIInv DEF RInv, Past

\* Entries are written with the time of the clock, which only goes forward.
LEMMA NextRInv ==
  ASSUME RemoveIsSafe, ClockForward, RInv, [Next]_vars
  PROVE  RInv'
<1>0. IInv /\ Past /\ TypeOK /\ IsTwoLevelMap(m_ldmmap) /\ clock \in 0 .. MaxTime
  BY DEF RInv, IInv, TypeOK
<1>1. IInv'
  BY <1>0, NextIInv
<1>2. clock' \in 0 .. MaxTime
  BY <1>1 DEF IInv, TypeOK
<1>3. ASSUME clock' >= clock, NEW S, m_ldmmap' = Without(m_ldmmap, S) PROVE Past'
  <2>1. Keys' = Keys \ S /\ \A k \in Keys' : At(k)' = At(k)
    BY <1>0, <1>3, WithoutLemma DEF Keys, At
  <2>2. \A k \in Keys : At(k).ts \in 0 .. MaxTime
    BY <1>0, AtLemma DEF Entry
  <2> QED
    BY <1>0, <1>2, <1>3, <2>1, <2>2 DEF Past
<1>4. ASSUME clock' >= clock, m_ldmmap' = m_ldmmap PROVE Past'
  <2>1. Keys' = Keys /\ \A k \in Keys : At(k)' = At(k)
    BY <1>4 DEF Keys, At
  <2>2. \A k \in Keys : At(k).ts \in 0 .. MaxTime
    BY <1>0, AtLemma DEF Entry
  <2> QED
    BY <1>0, <1>2, <1>4, <2>1, <2>2 DEF Past
<1>5. ASSUME clock' = clock, NEW s \in Stations, NEW e \in Entry, e.ts = clock,
             m_ldmmap' = Put(m_ldmmap, KeyUpper(s), KeyLower(s), e)
      PROVE  Past'
  <2>1. KeyUpper(s) \in HalfKeys /\ KeyLower(s) \in HalfKeys
    BY KeysInRange
  <2>2. /\ Keys' = Keys \cup {KeyOf(s)}
        /\ \A k \in Keys' : At(k)' = IF k = KeyOf(s) THEN e ELSE At(k)
    BY <1>0, <1>5, <2>1, PutLemma DEF Keys, At, KeyOf
  <2> QED
    BY <1>0, <1>5, <2>2 DEF Past
<1>6. ASSUME NEW s \in Stations, NEW p \in Positions, InsertNew(s, p) PROVE Past'
  <2>1. PICK o \in Objects : m_ldmmap' = Put(m_ldmmap, KeyUpper(s), KeyLower(s),
                                             [station |-> s, ts |-> clock, pos |-> p, ph |-> o])
    BY <1>6 DEF InsertNew
  <2>2. [station |-> s, ts |-> clock, pos |-> p, ph |-> o] \in Entry
    BY <1>0 DEF Entry
  <2> QED
    BY <1>5, <1>6, <2>1, <2>2 DEF InsertNew
<1>7. ASSUME NEW s \in Stations, NEW p \in Positions, InsertUpdate(s, p) PROVE Past'
  <2>1. EntryOf(s) \in Entry
    BY <1>0, <1>7, HasLemma DEF InsertUpdate
  <2> DEFINE e == [EntryOf(s) EXCEPT !.station = s, !.ts = clock, !.pos = p]
  <2>2. e \in Entry /\ e.ts = clock
    BY <1>0, <2>1 DEF Entry
  <2>3. m_ldmmap' = Put(m_ldmmap, KeyUpper(s), KeyLower(s), e) /\ clock' = clock
    BY <1>7 DEF InsertUpdate
  <2> HIDE DEF e
  <2> QED
    BY <1>5, <2>2, <2>3
<1>8. ASSUME NEW s \in RemoveIds, Remove(s) PROVE Past'
  BY <1>0, <1>3, <1>4, <1>8 DEF Remove, Erase
<1>9. ASSUME DeleteOlderThan PROVE Past'
  BY <1>0, <1>3, <1>9 DEF DeleteOlderThan
<1>10. ASSUME Clear PROVE Past'
  BY <1>10 DEF Clear, Keys, KeysOf, Past
<1>11. ASSUME Tick PROVE Past'
  BY <1>0, <1>4, <1>11 DEF Tick, ClockForward
<1>12. ASSUME \/ \E s \in Stations : InsertFull(s) \/ Lookup(s) \/ RangeSelectAroundStation(s)
              \/ \E p \in Positions : RangeSelect(p)
              \/ UNCHANGED vars
       PROVE  Past'
  BY <1>0, <1>4, <1>12 DEF InsertFull, Lookup, RangeSelectAroundStation, RangeSelect, vars
<1>13. Past'
  BY <1>6, <1>7, <1>8, <1>9, <1>10, <1>11, <1>12 DEF Next
<1> QED
  BY <1>1, <1>13 DEF RInv

-----------------------------------------------------------------------------
(* The steps                                                               *)

\* An empty database is an empty store.
LEMMA InitStore == Init => Store!Init
<1> SUFFICES ASSUME Init PROVE Store!Init
  OBVIOUS
<1>1. Stored = {}
  BY DEF Init, Stored, Has
<1>2. StoreView = [s \in {} |-> 0]
  BY <1>1, ViewLemma DEF StoreView, Stored
<1> QED
  BY <1>2 DEF Init, Store!Init

LEMMA InsertStore ==
  ASSUME IInv, TypeOK', NEW s \in Stations, NEW p \in Positions,
         InsertNew(s, p) \/ InsertUpdate(s, p) \/ InsertFull(s)
  PROVE  Store!Insert(s, p)
<1>0. Store!Cardinality(DOMAIN StoreView) = m_card /\ m_card \in 0 .. CardMod - 1 /\ CardMod \in Nat
  BY ViewCardinality, SameCardinality, LDMMapAssumption DEF IInv, TypeOK
<1>1. clock \in 0 .. MaxTime /\ TypeOK
  BY DEF IInv, TypeOK
<1>2. CASE InsertFull(s)
  <2>1. StoreView' = StoreView
    BY <1>2, ViewUnchanged DEF InsertFull
  <2> QED
    BY <1>0, <1>2, <2>1 DEF InsertFull, Store!Insert
<1>3. CASE InsertNew(s, p)
  <2>1. PICK o \in Objects : m_ldmmap' = Put(m_ldmmap, KeyUpper(s), KeyLower(s),
                                             [station |-> s, ts |-> clock, pos |-> p, ph |-> o])
    BY <1>3 DEF InsertNew
  <2> DEFINE e == [station |-> s, ts |-> clock, pos |-> p, ph |-> o]
  <2>2. e \in Entry /\ e.ts = clock /\ e.pos = p
    BY <1>1 DEF Entry
  <2>3. m_ldmmap' = Put(m_ldmmap, KeyUpper(s), KeyLower(s), e)
    BY <2>1
  <2> HIDE DEF e
  <2>4. StoreView' = [x \in DOMAIN StoreView \cup {s} |->
                         IF x = s THEN [ts |-> clock, pos |-> p] ELSE StoreView[x]]
    BY <2>2, <2>3, ViewPut
  <2>5. s \notin DOMAIN StoreView
    BY <1>3, ViewLemma DEF InsertNew, Stored
  <2> QED
    BY <1>0, <1>3, <2>4, <2>5 DEF InsertNew, Store!Insert
<1>4. CASE InsertUpdate(s, p)
  <2>1. EntryOf(s) \in Entry
    BY <1>1, <1>4, HasLemma DEF InsertUpdate
  <2> DEFINE e == [EntryOf(s) EXCEPT !.station = s, !.ts = clock, !.pos = p]
  <2>2. e \in Entry /\ e.ts = clock /\ e.pos = p
    BY <1>1, <2>1 DEF Entry
  <2>3. m_ldmmap' = Put(m_ldmmap, KeyUpper(s), KeyLower(s), e)
    BY <1>4 DEF InsertUpdate
  <2> HIDE DEF e
  <2>4. StoreView' = [x \in DOMAIN StoreView \cup {s} |->
                         IF x = s THEN [ts |-> clock, pos |-> p] ELSE StoreView[x]]
    BY <2>2, <2>3, ViewPut
  <2>5. s \in DOMAIN StoreView
    BY <1>4, ViewLemma DEF InsertUpdate, Stored
  <2> QED
    BY <1>0, <1>4, <2>4, <2>5 DEF InsertUpdate, Store!Insert
<1> QED
  BY <1>2, <1>3, <1>4

\* remove erases the entry of its station, whose lower half it is itself.
LEMMA RemoveStore ==
  ASSUME RemoveIsSafe, IInv, TypeOK', NEW s \in RemoveIds, Remove(s)
  PROVE  Store!Remove(s)
<1>0. s \in Stations /\ TypeOK
  BY LDMMapAssumption DEF IInv
<1>1. CASE ~ Has(s)
  <2>1. s \notin DOMAIN StoreView
    BY <1>1, ViewLemma DEF Stored
  <2>2. StoreView' = StoreView /\ StoreView = [x \in DOMAIN StoreView |-> StoreView[x]]
    BY <1>1, ViewUnchanged, ViewLemma DEF Remove, StoreView
  <2> QED
    BY <1>1, <2>1, <2>2 DEF Remove, Store!Remove
<1>2. CASE Has(s)
  <2>1. KeyOf(s) = <<KeyUpper(s), s>>
    BY KeysOfSmall DEF RemoveIsSafe, KeyOf
  <2>2. s \in Stored
    BY <1>0, <1>2 DEF Stored
  <2>3. KeyOf(s) \in Keys /\ At(KeyOf(s)).station = s
    BY <2>2, StoredEntry
  <2>4. m_ldmmap' = Without(m_ldmmap, {KeyOf(s)})
    BY <1>2, <2>1 DEF Remove, Erase
  <2>5. StoreView' = [x \in DOMAIN StoreView \ {At(k).station : k \in {KeyOf(s)}} |-> StoreView[x]]
    BY <2>3, <2>4, ViewWithout
  <2>6. {At(k).station : k \in {KeyOf(s)}} = {s}
    BY <2>3
  <2> QED
    BY <1>2, <2>2, <2>5, <2>6, ViewLemma DEF Remove, Store!Remove
<1> QED
  BY <1>1, <1>2

\* The queries answer from the records.
LEMMA QueryStore ==
  ASSUME IInv
  PROVE  /\ \A s \in Stations : Lookup(s) => Store!Lookup(s)
         /\ \A p \in Positions : RangeSelect(p) => Store!RangeSelect(p)
         /\ \A s \in Stations : RangeSelectAroundStation(s) => Store!RangeSelectAroundStation(s)
<1>1. ASSUME NEW s \in Stations, Lookup(s) PROVE Store!Lookup(s)
  <2>1. Has(s) <=> s \in DOMAIN StoreView
    BY ViewLemma DEF Stored
  <2>2. Has(s) => EntryOf(s).station = s
    BY StoredEntry DEF Stored
  <2>3. StoreView' = StoreView
    BY <1>1, ViewUnchanged DEF Lookup
  <2> QED
    BY <1>1, <2>1, <2>2, <2>3 DEF Lookup, Store!Lookup
<1>2. ASSUME NEW p \in Positions, RangeSelect(p) PROVE Store!RangeSelect(p)
  <2>1. StoreView' = StoreView
    BY <1>2, ViewUnchanged DEF RangeSelect
  <2> QED
    BY <1>2, <2>1, AroundLemma DEF RangeSelect, Store!RangeSelect
<1>3. ASSUME NEW s \in Stations, RangeSelectAroundStation(s) PROVE Store!RangeSelectAroundStation(s)
  <2>1. Has(s) <=> s \in DOMAIN StoreView
    BY ViewLemma DEF Stored
  <2>2. Has(s) => StoreView[s].pos = EntryOf(s).pos
    BY ViewLemma DEF Stored
  <2>3. Has(s) => StationsAround(EntryOf(s).pos) = Store!Around(StoreView[s].pos)
    BY <2>2, AroundLemma
  <2>4. StoreView' = StoreView
    BY <1>3, ViewUnchanged DEF RangeSelectAroundStation
  <2> QED
    BY <1>3, <2>1, <2>3, <2>4 DEF RangeSelectAroundStation, Store!RangeSelectAroundStation
<1> QED
  BY <1>1, <1>2, <1>3

LEMMA SweepStore == ASSUME RInv, TypeOK', DeleteOlderThan PROVE Store!DeleteOlderThan
<1>1. OldKeys \in SUBSET Keys /\ IInv
  BY DEF OldKeys, RInv
<1>2. StoreView' = [s \in DOMAIN StoreView \ {At(k).station : k \in OldKeys} |-> StoreView[s]]
  BY <1>1, ViewWithout DEF DeleteOlderThan
<1> QED
  BY <1>2, ExpiredLemma DEF DeleteOlderThan, Store!DeleteOlderThan

LEMMA ClearStore == ASSUME Clear PROVE Store!Clear
<1>1. Stored' = {}
  BY DEF Clear, Stored, Has
<1>2. StoreView' = [s \in {} |-> 0]
  BY <1>1 DEF StoreView, Stored
<1> QED
  BY <1>2 DEF Clear, Store!Clear

\* Every step of the database is one of the store.
LEMMA StepStore ==
  ASSUME RemoveIsSafe, RInv, TypeOK', [Next]_vars
  PROVE  [Store!Next]_(Store!storeVars)
<1>0. IInv
  BY DEF RInv
<1>1. CASE \E s \in Stations, p \in Positions : InsertNew(s, p) \/ InsertUpdate(s, p)
  BY <1>0, <1>1, InsertStore DEF Store!Next
<1>2. CASE \E s \in Stations : InsertFull(s)
  <2>1. PICK p \in Positions : TRUE
    BY LDMMapAssumption
  <2> QED
    BY <1>0, <1>2, <2>1, InsertStore DEF Store!Next
<1>3. CASE \/ \E s \in Stations : Lookup(s) \/ RangeSelectAroundStation(s)
           \/ \E p \in Positions : RangeSelect(p)
  BY <1>0, <1>3, QueryStore DEF Store!Next
<1>4. CASE \E s \in RemoveIds : Remove(s)
  BY <1>0, <1>4, RemoveStore, LDMMapAssumption DEF Store!Next
<1>5. CASE DeleteOlderThan \/ Clear
  BY <1>5, SweepStore, ClearStore DEF Store!Next
<1>6. CASE Tick
  <2>1. StoreView' = StoreView
    BY <1>6, ViewUnchanged DEF Tick
  <2> QED
    BY <1>6, <2>1 DEF Tick, Store!Tick, Store!Next
<1>7. CASE UNCHANGED vars
  <2>1. StoreView' = StoreView
    BY <1>7, ViewUnchanged DEF vars
  <2> QED
    BY <1>7, <2>1 DEF vars, Store!storeVars
<1> QED
  BY <1>1, <1>2, <1>3, <1>4, <1>5, <1>6, <1>7 DEF Next

\* The two-level map, its counter and its split keys implement the store of records that
\* LDMmap.h describes: for every set of stations, width of the keys, capacity and age, as
\* long as remove is given small identifiers and the clock is not set back.
THEOREM RefinesStore ==
  ASSUME RemoveIsSafe, ClockForward
  PROVE  Spec => ImplementsVehicleStore
<1>1. Init => RInv /\ Store!Init
  BY InitRInv, InitStore
<1>2. RInv /\ [Next]_vars => RInv'
  BY NextRInv
<1>3. RInv /\ RInv' /\ [Next]_vars => [Store!Next]_(Store!storeVars)
  BY StepStore DEF RInv, IInv
<1> QED
  BY <1>1, <1>2, <1>3, PTL DEF Spec, ImplementsVehicleStore, Store!Spec

\* Taken away by the collection, an entry was too old.
LEMMA SweepStep ==
  ASSUME RInv, TypeOK', [Next]_vars, NEW s \in Stations,
         answer'.op = "deleteOlderThan", Has(s), ~ Has(s)'
  PROVE  clock - EntryOf(s).ts > Expiry
<1>0. IInv /\ TypeOK
  BY DEF RInv, IInv
<1>1. m_ldmmap' # m_ldmmap
  BY DEF Has
<1>2. DeleteOlderThan
  <2>1. ASSUME NEW t \in Stations, NEW p \in Positions, InsertNew(t, p) \/ InsertUpdate(t, p) PROVE FALSE
    <3>1. answer'.op = "insert"
      BY <2>1 DEF InsertNew, InsertUpdate
    <3> QED
      BY <3>1
  <2>2. ASSUME NEW t \in RemoveIds, Remove(t) PROVE FALSE
    <3>1. answer'.op = "remove"
      BY <2>2 DEF Remove
    <3> QED
      BY <3>1
  <2>3. ASSUME Clear PROVE FALSE
    <3>1. answer'.op = "clear"
      BY <2>3 DEF Clear
    <3> QED
      BY <3>1
  <2>4. ~ \E t \in Stations : InsertFull(t) \/ Lookup(t) \/ RangeSelectAroundStation(t)
    BY <1>1 DEF InsertFull, Lookup, RangeSelectAroundStation
  <2>5. ~ \E p \in Positions : RangeSelect(p)
    BY <1>1 DEF RangeSelect
  <2>6. ~ Tick /\ ~ UNCHANGED vars
    BY <1>1 DEF Tick, vars
  <2> QED
    BY <2>1, <2>2, <2>3, <2>4, <2>5, <2>6 DEF Next
<1>3. OldKeys \in SUBSET Keys /\ m_ldmmap' = Without(m_ldmmap, OldKeys)
  BY <1>2 DEF OldKeys, DeleteOlderThan
<1>4. KeyOf(s) \in Keys /\ EntryOf(s) = At(KeyOf(s))
  BY <1>0, HasLemma DEF KeyOf
<1>5. KeyOf(s) \notin Keys'
  BY HasNext
<1>6. Keys' = Keys \ OldKeys
  BY <1>0, <1>3, WithoutLemma DEF Keys, TypeOK
<1>7. AgeOf(At(KeyOf(s))) > Expiry
  BY <1>4, <1>5, <1>6 DEF OldKeys
<1> QED
  BY <1>4, <1>7, AgeLemma

\* The collection deletes entries older than the given age and no other, under the same
\* conditions: MCLDMMapClock.cfg shows it false of a clock that is set back.
THEOREM SweepsOld ==
  ASSUME RemoveIsSafe, ClockForward
  PROVE  Spec => SweepTakesOnlyOld
<1>1. RInv /\ [Next]_vars => RInv'
  BY NextRInv
<1>2. RInv /\ RInv' /\ [Next]_vars =>
         [\A s \in Stations :
             answer'.op = "deleteOlderThan" /\ Has(s) /\ ~ Has(s)'
                 => clock - EntryOf(s).ts > Expiry]_vars
  BY SweepStep DEF RInv, IInv
<1> QED
  BY <1>1, <1>2, InitRInv, PTL DEF Spec, SweepTakesOnlyOld
=============================================================================
