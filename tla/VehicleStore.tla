---------------------------- MODULE VehicleStore ----------------------------
(***************************************************************************)
(* What the database of vehicles promises to its callers, as the comments  *)
(* of LDMmap.h state it: one record per station identifier, the answers of *)
(* each call, and which records a garbage collection takes away.  There is *)
(* no hashing, no counter and no pointer here; LDMMap implements it.       *)
(***************************************************************************)
EXTENDS Integers, FiniteSets

CONSTANTS
    Stations,       \* station identifiers of the vehicles
    Positions,      \* points of a line, standing for latitude and longitude
    Capacity,       \* number of records at which an insertion is refused
    RangeM,         \* radius of the range queries
    Expiry,         \* age after which a record is garbage
    MaxTime         \* bound on the clock

VARIABLES
    store,          \* station identifier -> its latest record
    clock,          \* time of the callers, in ticks
    answer          \* what the last call returned to its caller

storeVars == <<store, clock, answer>>

Near(p, q) == p - q \in (-RangeM) .. RangeM

Around(p) == {s \in DOMAIN store : Near(p, store[s].pos)}

Init ==
    /\ store = [s \in {} |-> 0]
    /\ clock = 0
    /\ answer = [op |-> "none", code |-> "OK", ids |-> {}]

Insert(s, p) ==
    \/ /\ Cardinality(DOMAIN store) = Capacity
       /\ answer' = [op |-> "insert", code |-> "MAP_FULL", ids |-> {s}]
       /\ UNCHANGED <<store, clock>>
    \/ /\ Cardinality(DOMAIN store) < Capacity
       /\ store' = [x \in DOMAIN store \cup {s} |->
                       IF x = s THEN [ts |-> clock, pos |-> p] ELSE store[x]]
       /\ answer' = [op |-> "insert", ids |-> {s},
                     code |-> IF s \in DOMAIN store THEN "UPDATED" ELSE "OK"]
       /\ UNCHANGED clock

Remove(s) ==
    /\ store' = [x \in DOMAIN store \ {s} |-> store[x]]
    /\ answer' = [op |-> "remove", ids |-> {s},
                  code |-> IF s \in DOMAIN store THEN "OK" ELSE "ITEM_NOT_FOUND"]
    /\ UNCHANGED clock

Lookup(s) ==
    /\ answer' = [op |-> "lookup", ids |-> DOMAIN store \cap {s},
                  code |-> IF s \in DOMAIN store THEN "OK" ELSE "ITEM_NOT_FOUND"]
    /\ UNCHANGED <<store, clock>>

RangeSelect(p) ==
    /\ answer' = [op |-> "rangeSelect", code |-> "OK", ids |-> Around(p)]
    /\ UNCHANGED <<store, clock>>

RangeSelectAroundStation(s) ==
    /\ answer' = IF s \in DOMAIN store
                 THEN [op |-> "rangeSelect", code |-> "OK", ids |-> Around(store[s].pos)]
                 ELSE [op |-> "rangeSelect", code |-> "ITEM_NOT_FOUND", ids |-> {}]
    /\ UNCHANGED <<store, clock>>

Expired == {s \in DOMAIN store : clock - store[s].ts > Expiry}

\* The answer names the stations handed to the callback of the collection.
DeleteOlderThan ==
    /\ store' = [s \in DOMAIN store \ Expired |-> store[s]]
    /\ answer' = [op |-> "deleteOlderThan", code |-> "OK", ids |-> Expired]
    /\ UNCHANGED clock

Clear ==
    /\ store' = [s \in {} |-> 0]
    /\ answer' = [op |-> "clear", code |-> "OK", ids |-> {}]
    /\ UNCHANGED clock

Tick ==
    /\ clock' \in 0 .. MaxTime
    /\ UNCHANGED <<store, answer>>

Next ==
    \/ \E s \in Stations, p \in Positions : Insert(s, p)
    \/ \E s \in Stations : Remove(s) \/ Lookup(s) \/ RangeSelectAroundStation(s)
    \/ \E p \in Positions : RangeSelect(p)
    \/ DeleteOlderThan \/ Clear \/ Tick

Spec == Init /\ [][Next]_storeVars
=============================================================================
