------------------------------- MODULE LDMMap -------------------------------
(***************************************************************************)
(* ldmmap::LDMMap (src/src/LDMmap.cpp), one call at a time: the two-level  *)
(* hash map, the explicit counter m_card and the PHpoints objects of the   *)
(* entries.  LDMThreads breaks the calls the program makes into the steps  *)
(* the locks allow other threads to see; here each call is one action, so  *)
(* that what a single-threaded caller may rely on is stated on its own.    *)
(***************************************************************************)
EXTENDS Integers, FiniteSets

CONSTANTS
    Stations,       \* station identifiers of the vehicles
    KeyBase,        \* 2^16 in the code: an identifier is split in two keys
    CardMod,        \* 2^64 in the code: the modulus of m_card
    TimeMod,        \* 2^64 in the code: the modulus of the timestamps
    Objects,        \* addresses a PHpoints object can be allocated at
    Positions,      \* points of a line, standing for latitude and longitude
    RangeM,         \* radius given to rangeSelect
    Expiry,         \* age given to deleteOlderThan
    RemoveIds,      \* identifiers a caller passes to remove
    ClockStepsBack, \* whether CLOCK_REALTIME may be set back
    MaxTime         \* bound on the clock

ASSUME LDMMapAssumption ==
    /\ KeyBase \in Nat \ {0}
    /\ CardMod \in Nat \ {0}
    /\ MaxTime \in Nat
    /\ TimeMod \in Nat /\ TimeMod > MaxTime + Expiry
    /\ Expiry \in Nat
    /\ RangeM \in Nat
    /\ Positions \subseteq Int /\ Positions # {}
    /\ Stations \subseteq 0 .. (KeyBase * KeyBase - 1)
    /\ RemoveIds \subseteq Stations
    /\ ClockStepsBack \in BOOLEAN

VARIABLES
    m_ldmmap,       \* upper key -> (lower key -> entry)
    m_card,         \* the counter of entries
    heap,           \* allocated PHpoints object -> stations whose points it got
    clock,          \* CLOCK_REALTIME
    answer          \* what the last call returned, and the stations it names

vars == <<m_ldmmap, m_card, heap, clock, answer>>

-----------------------------------------------------------------------------
(* Keys, entries and the operations of the two-level map                   *)

\* DEFINE_KEYS: the upper and the lower half of the identifier.
KeyUpper(id) == id \div KeyBase
UnmaskedKeyLower(id) == id
KeyLower(id) == id % KeyBase

HalfKeys == 0 .. KeyBase - 1

Entry == [station : Stations, ts : 0 .. MaxTime, pos : Positions, ph : Objects]

IsTwoLevelMap(m) ==
    /\ DOMAIN m \subseteq HalfKeys
    /\ \A u \in DOMAIN m : /\ DOMAIN m[u] \subseteq HalfKeys
                           /\ \A l \in DOMAIN m[u] : m[u][l] \in Entry

\* Every <<upper, lower>> pair under which m holds an entry.
KeysOf(m) == {k \in HalfKeys \X HalfKeys : k[1] \in DOMAIN m /\ k[2] \in DOMAIN m[k[1]]}

Keys == KeysOf(m_ldmmap)

At(k) == m_ldmmap[k[1]][k[2]]

Has(id) ==
    /\ KeyUpper(id) \in DOMAIN m_ldmmap
    /\ KeyLower(id) \in DOMAIN m_ldmmap[KeyUpper(id)]

EntryOf(id) == m_ldmmap[KeyUpper(id)][KeyLower(id)]

Put(m, u, l, e) ==
    [x \in DOMAIN m \cup {u} |->
        IF x # u THEN m[x]
        ELSE [y \in (IF u \in DOMAIN m THEN DOMAIN m[u] ELSE {}) \cup {l} |->
                 IF y = l THEN e ELSE m[u][y]]]

Without(m, S) ==
    [x \in DOMAIN m |-> [y \in {z \in DOMAIN m[x] : <<x, z>> \notin S} |-> m[x][y]]]

\* std::unordered_map::erase on the lower map of one upper key.
Erase(m, u, l) == Without(m, {<<u, l>>})

Near(p, q) == p - q \in (-RangeM) .. RangeM

StationsAround(p) == {At(k).station : k \in {j \in Keys : Near(p, At(j).pos)}}

\* now - timestamp_us on uint64_t: it wraps when the entry is newer than now.
AgeOf(e) == (clock - e.ts) % TimeMod

-----------------------------------------------------------------------------
Init ==
    /\ m_ldmmap = [u \in {} |-> 0]
    /\ m_card = 0
    /\ heap = [o \in {} |-> 0]
    /\ clock = 0
    /\ answer = [op |-> "none", code |-> "OK", ids |-> {}]

InsertFull(s) ==
    /\ m_card = CardMod - 1
    /\ answer' = [op |-> "insert", code |-> "MAP_FULL", ids |-> {s}]
    /\ UNCHANGED <<m_ldmmap, m_card, heap, clock>>

\* A new entry gets a PHpoints object of its own, whose first point is its own.
InsertNew(s, p) ==
    /\ m_card # CardMod - 1
    /\ ~ Has(s)
    /\ \E o \in Objects \ DOMAIN heap :
          /\ m_ldmmap' = Put(m_ldmmap, KeyUpper(s), KeyLower(s),
                             [station |-> s, ts |-> clock, pos |-> p, ph |-> o])
          /\ heap' = [x \in DOMAIN heap \cup {o} |-> IF x = o THEN {s} ELSE heap[x]]
    /\ m_card' = (m_card + 1) % CardMod
    /\ answer' = [op |-> "insert", code |-> "OK", ids |-> {s}]
    /\ UNCHANGED clock

CountingUpdate(s, p) ==
    /\ m_card # CardMod - 1
    /\ Has(s)
    /\ m_ldmmap' = Put(m_ldmmap, KeyUpper(s), KeyLower(s),
                       [EntryOf(s) EXCEPT !.station = s, !.ts = clock, !.pos = p])
    /\ m_card' = (m_card + 1) % CardMod
    /\ answer' = [op |-> "insert", code |-> "UPDATED", ids |-> {s}]
    /\ UNCHANGED <<heap, clock>>

\* An entry that exists keeps its PHpoints object, which gets one more point.
InsertUpdate(s, p) ==
    /\ m_card # CardMod - 1
    /\ Has(s)
    /\ m_ldmmap' = Put(m_ldmmap, KeyUpper(s), KeyLower(s),
                       [EntryOf(s) EXCEPT !.station = s, !.ts = clock, !.pos = p])
    /\ heap' = [o \in DOMAIN heap |->
                   IF o = EntryOf(s).ph THEN heap[o] \cup {s} ELSE heap[o]]
    /\ answer' = [op |-> "insert", code |-> "UPDATED", ids |-> {s}]
    /\ UNCHANGED <<m_card, clock>>

\* The lower map is asked to erase the whole identifier, not its lower half;
\* the counter goes down and LDMMAP_OK is returned in any case.
Remove(s) ==
    \/ /\ ~ Has(s)
       /\ answer' = [op |-> "remove", code |-> "ITEM_NOT_FOUND", ids |-> {s}]
       /\ UNCHANGED <<m_ldmmap, m_card, heap, clock>>
    \/ /\ Has(s)
       /\ m_ldmmap' = Erase(m_ldmmap, KeyUpper(s), s)
       /\ m_card' = (m_card - 1) % CardMod
       /\ answer' = [op |-> "remove", code |-> "OK", ids |-> {s}]
       /\ UNCHANGED <<heap, clock>>

Lookup(s) ==
    /\ answer' = IF Has(s)
                 THEN [op |-> "lookup", code |-> "OK", ids |-> {EntryOf(s).station}]
                 ELSE [op |-> "lookup", code |-> "ITEM_NOT_FOUND", ids |-> {}]
    /\ UNCHANGED <<m_ldmmap, m_card, heap, clock>>

RangeSelect(p) ==
    /\ answer' = [op |-> "rangeSelect", code |-> "OK", ids |-> StationsAround(p)]
    /\ UNCHANGED <<m_ldmmap, m_card, heap, clock>>

RangeSelectAroundStation(s) ==
    /\ answer' = IF Has(s)
                 THEN [op |-> "rangeSelect", code |-> "OK",
                       ids |-> StationsAround(EntryOf(s).pos)]
                 ELSE [op |-> "rangeSelect", code |-> "ITEM_NOT_FOUND", ids |-> {}]
    /\ UNCHANGED <<m_ldmmap, m_card, heap, clock>>

OldKeysOrAsOld == {k \in Keys : AgeOf(At(k)) >= Expiry}

OldKeys == {k \in Keys : AgeOf(At(k)) > Expiry}

\* deleteOlderThan and deleteOlderThanAndExecute differ in the callback alone:
\* the answer names the stations it is called with.  No PHpoints object is freed.
DeleteOlderThan ==
    /\ m_ldmmap' = Without(m_ldmmap, OldKeys)
    /\ m_card' = (m_card - Cardinality(OldKeys)) % CardMod
    /\ answer' = [op |-> "deleteOlderThan", code |-> "OK",
                  ids |-> {At(k).station : k \in OldKeys}]
    /\ UNCHANGED <<heap, clock>>

ClearKeepingMap ==
    /\ m_card' = 0
    /\ heap' = [o \in DOMAIN heap \ {At(k).ph : k \in Keys} |-> heap[o]]
    /\ answer' = [op |-> "clear", code |-> "OK", ids |-> {}]
    /\ UNCHANGED <<m_ldmmap, clock>>

\* clear frees the PHpoints objects of the entries it still finds.
Clear ==
    /\ m_ldmmap' = [u \in {} |-> 0]
    /\ m_card' = 0
    /\ heap' = [o \in DOMAIN heap \ {At(k).ph : k \in Keys} |-> heap[o]]
    /\ answer' = [op |-> "clear", code |-> "OK", ids |-> {}]
    /\ UNCHANGED clock

\* CLOCK_REALTIME moves forward, or is set back by the system.
Tick ==
    /\ clock' \in 0 .. MaxTime
    /\ ClockStepsBack \/ clock' > clock
    /\ UNCHANGED <<m_ldmmap, m_card, heap, answer>>

Next ==
    \/ \E s \in Stations, p \in Positions : InsertNew(s, p) \/ InsertUpdate(s, p)
    \/ \E s \in Stations : InsertFull(s) \/ Lookup(s) \/ RangeSelectAroundStation(s)
    \/ \E s \in RemoveIds : Remove(s)
    \/ \E p \in Positions : RangeSelect(p)
    \/ DeleteOlderThan \/ Clear \/ Tick

Spec == Init /\ [][Next]_vars

-----------------------------------------------------------------------------
(* Properties                                                              *)

AnswerType ==
    [op : {"none", "insert", "remove", "lookup", "rangeSelect", "deleteOlderThan", "clear"},
     code : {"OK", "UPDATED", "ITEM_NOT_FOUND", "MAP_FULL"},
     ids : SUBSET Stations]

\* Types: both halves of every key stay below KeyBase, the counter and the clock
\* stay in range, and every entry holds a vehicle and an object.
TypeOK ==
    /\ IsTwoLevelMap(m_ldmmap)
    /\ m_card \in 0 .. CardMod - 1
    /\ DOMAIN heap \subseteq Objects
    /\ \A o \in DOMAIN heap : heap[o] \subseteq Stations
    /\ clock \in 0 .. MaxTime
    /\ answer \in AnswerType

\* The counter kept by hand across insert, remove, deleteOlderThan and clear is
\* the number of entries in the lower maps (getCardinality, and the test of
\* insert for a full map, read it instead of counting).
CardExact == m_card = Cardinality(Keys)

\* Every entry is stored under the two halves of its own station identifier, its
\* PHpoints object is allocated, and got points of that station alone: no two
\* vehicles share a path history, and no entry keeps one that clear has freed.
HistoriesOwned ==
    \A k \in Keys :
        /\ k = <<KeyUpper(At(k).station), KeyLower(At(k).station)>>
        /\ At(k).ph \in DOMAIN heap
        /\ heap[At(k).ph] = {At(k).station}

\* The records a caller can see: what the two-level map stands for.
StoreView ==
    [s \in {x \in Stations : Has(x)} |-> [ts |-> EntryOf(s).ts, pos |-> EntryOf(s).pos]]

Store == INSTANCE VehicleStore
            WITH Capacity <- CardMod - 1, store <- StoreView

\* Each call changes the database and answers as the comments of LDMmap.h say.
ImplementsVehicleStore == Store!Spec

\* LDMmap.h: after remove has returned LDMMAP_OK the entry is gone.
RemovedIsGone ==
    answer.op = "remove" /\ answer.code = "OK" => \A s \in answer.ids : ~ Has(s)

\* LDMmap.h: the collection deletes entries older than the given age, no other.
SweepTakesOnlyOld ==
    [][\A s \in Stations :
          answer'.op = "deleteOlderThan" /\ Has(s) /\ ~ Has(s)'
              => clock - EntryOf(s).ts > Expiry]_vars
=============================================================================
