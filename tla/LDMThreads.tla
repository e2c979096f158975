----------------------------- MODULE LDMThreads -----------------------------
(***************************************************************************)
(* The threads of AIM around one LDMMap object, step by step:              *)
(*                                                                         *)
(*   rx       SocketClient::rxThr and manageMessage: the lookups, the age  *)
(*            check and the insertion of each received CAM                 *)
(*   cleaner  DBcleaner_callback: deleteOlderThanAndExecute                *)
(*   viz      VehVizUpdater_callback: executeOnAllContents                 *)
(*   json     JSONthread_callback, make_AIM_json: rangeSelect              *)
(*                                                                         *)
(* A step is what happens between two points at which another thread can   *)
(* see or change something.  Who holds which lock follows from the program *)
(* counters: MainReaders, LockedExclusive and LockedShared say it.         *)
(*                                                                         *)
(* rx reads and writes a lower map without its lock at lines 57, 74 and    *)
(* 109 of LDMmap.cpp.  While the cleaner erases an entry of the same map   *)
(* this is a data race: the access may work as if it were atomic, may miss *)
(* the entry, or may crash the process.                                    *)
(***************************************************************************)
EXTENDS Integers, FiniteSets

CONSTANTS
    Stations,       \* vehicles, and keys of the lower maps
    UpperKeys,      \* upper keys of the two-level map
    UpperOf,        \* station -> its upper key
    Scanners,       \* which of "viz" and "json" run
    GNValues,       \* GeoNetworking timestamps of received CAMs
    GNMod,          \* 2^32 in the code: the modulus of the GN timestamps
    Gap,            \* 300000 ms in the code: the largest plausible step
    AgeCheck,       \* ageCheck_enabled: option -g is not given
    Logging,        \* a log file name is given
    Expiry,         \* age after which the cleaner erases an entry
    TimeMod,        \* 2^64 in the code: the modulus of timestamp_us
    CardMod,        \* 2^64 in the code: the modulus of m_card
    MaxTime         \* bound on the clock

NoGN == -1          \* UINT64_MAX, and -1 once cast to long long

\* vehData.stationID of a value-initialised entry.
ZeroId == "0"
NoUpper == "none"
NoStation == "none"

ASSUME LDMThreadsAssumption ==
    /\ UpperOf \in [Stations -> UpperKeys]
    /\ ZeroId \notin Stations /\ NoStation \notin Stations /\ NoUpper \notin UpperKeys
    /\ Scanners \subseteq {"viz", "json"}
    /\ GNMod \in Nat /\ GNValues \subseteq (0 .. GNMod - 1) \cup {NoGN}
    /\ Gap \in Nat /\ GNMod > 2 * Gap /\ Expiry \in Nat /\ MaxTime \in Nat
    /\ TimeMod \in Nat /\ TimeMod > MaxTime + Expiry
    /\ CardMod \in Nat \ {0, 1}
    /\ AgeCheck \in BOOLEAN /\ Logging \in BOOLEAN

VARIABLES
    uppers,         \* upper keys present in m_ldmmap
    entry,          \* station -> its entry in the lower map, or NoEntry
    m_card,         \* the counter of entries
    markers,        \* objects the vehicle visualizer was told to draw
    clock,          \* CLOCK_REALTIME
    rx,             \* locals of the reception thread
    cleaner,        \* locals of the cleaner thread
    scan,           \* thread -> locals of viz and of json
    served,         \* ages in the last JSON reply
    crashed         \* the process died on an invalid pointer

vars == <<uppers, entry, m_card, markers, clock, rx, cleaner, scan, served, crashed>>

NoEntry == [id |-> "none", ts |-> 0, gn |-> 0, ph |-> FALSE]

\* What operator[] leaves under a key it does not find: all zero, no PHpoints.
Ghost == [id |-> ZeroId, ts |-> 0, gn |-> 0, ph |-> FALSE]

Present == {s \in Stations : entry[s] # NoEntry}

LowerMap(u) == {s \in Present : UpperOf[s] = u}

-----------------------------------------------------------------------------
(* Locks, as functions of the program counters                             *)

\* m_mainmapmut held shared, over a whole sweep or a whole scan.  The reception
\* thread takes it exclusive in InsertUpper alone, for that one step.
MainReaders ==
    (IF cleaner.pc \notin {"idle", "main"} THEN {"cleaner"} ELSE {})
        \cup {t \in Scanners : scan[t].pc \notin {"idle", "main"}}

Unlocked(u) == FALSE

LockedExclusive(u) == cleaner.cur = u

LockedShared(u) == \E t \in Scanners : scan[t].cur = u

\* The lower map u is being changed by the cleaner.
BeingChanged(u) == cleaner.pc = "erase" /\ cleaner.cur = u

-----------------------------------------------------------------------------
(* The reception thread                                                    *)

RxIdle == [pc |-> "idle", s |-> NoStation, gn |-> 0, lf |-> FALSE, ts |-> 0,
           card |-> 0, ret |-> "none"]

Running == ~ crashed

Crash == /\ crashed' = TRUE
         /\ UNCHANGED <<uppers, entry, m_card, markers, clock, rx, cleaner, scan, served>>

\* manageMessage, a CAM of vehicle s.  lf: it carries the low frequency container.
Receive(s, gn, lf) ==
    /\ rx.pc = "idle"
    /\ rx' = [RxIdle EXCEPT !.s = s, !.gn = gn, !.lf = lf,
                            !.pc = IF lf THEN "age" ELSE "lfCount"]
    /\ UNCHANGED <<uppers, entry, m_card, markers, clock, cleaner, scan, served, crashed>>

RxGoto(pc) ==
    /\ rx' = [rx EXCEPT !.pc = pc]
    /\ UNCHANGED <<uppers, entry, m_card, markers, clock, cleaner, scan, served, crashed>>

\* What an unlocked count() on the lower map of s may return.
CountOutcomes(s) ==
    {s \in Present} \cup (IF BeingChanged(UpperOf[s]) THEN {FALSE} ELSE {})

\* The first half of lookup: count() under the shared main lock alone.
LookupCount(at, found, missing) ==
    /\ rx.pc = at
    /\ \E hit \in CountOutcomes(rx.s) : RxGoto(IF hit THEN found ELSE missing)

\* The second half: operator[] under the shared lock of the lower map, which
\* creates the entry when it is gone by now.
LookupRead(at, next) ==
    /\ rx.pc = at
    /\ ~ LockedExclusive(UpperOf[rx.s])
    /\ entry' = [entry EXCEPT ![rx.s] = IF @ = NoEntry THEN Ghost ELSE @]
    /\ rx' = [rx EXCEPT !.pc = next]
    /\ UNCHANGED <<uppers, m_card, markers, clock, cleaner, scan, served, crashed>>

Looked(s) == IF entry[s] = NoEntry THEN Ghost ELSE entry[s]

LfCount == LookupCount("lfCount", "lfRead", "age")
LfRead == LookupRead("lfRead", "age")

AgeEnter ==
    /\ rx.pc = "age"
    /\ RxGoto(IF AgeCheck /\ rx.gn # NoGN THEN "ageCount" ELSE "stamp")

AgeCount == LookupCount("ageCount", "ageRead", "stamp")

SwappedTooOld(g, h) ==
    \/ h # NoGN /\ g > h /\ g - h > Gap
    \/ (h = NoGN \/ g < h) /\ g - h < -Gap

\* The age check: g is the received GN timestamp, h the stored one.
TooOld(g, h) ==
    \/ h # NoGN /\ g > h /\ g - h > Gap
    \/ (h = NoGN \/ g < h) /\ g - h > -Gap

\* The return of the age check stands inside the test for a log file.
Discards(g, h) == TooOld(g, h) /\ Logging

AgeRead == LookupRead("ageRead", IF Discards(rx.gn, Looked(rx.s).gn) THEN "idle" ELSE "stamp")

Stamp ==
    /\ rx.pc = "stamp"
    /\ rx' = [rx EXCEPT !.ts = clock, !.pc = IF Logging THEN "logCount" ELSE "insert"]
    /\ UNCHANGED <<uppers, entry, m_card, markers, clock, cleaner, scan, served, crashed>>

LogCount == LookupCount("logCount", "logRead", "insert")
LogRead == LookupRead("logRead", "insert")

InsertWaitsForRoom ==
    /\ rx.pc = "insert"
    /\ m_card # CardMod - 1
    /\ RxGoto(IF UpperOf[rx.s] \in uppers THEN "count" ELSE "upper")

\* insert, up to the test of the upper key.
InsertTest ==
    /\ rx.pc = "insert"
    /\ rx' = IF m_card = CardMod - 1
             THEN [rx EXCEPT !.pc = "done", !.ret = "MAP_FULL"]
             ELSE [rx EXCEPT !.pc = IF UpperOf[rx.s] \in uppers THEN "count" ELSE "upper"]
    /\ UNCHANGED <<uppers, entry, m_card, markers, clock, cleaner, scan, served, crashed>>

Received(ph) == [id |-> rx.s, ts |-> rx.ts, gn |-> rx.gn, ph |-> ph]

\* A new lower map, with its first entry, under the exclusive main lock.
InsertUpper ==
    /\ rx.pc = "upper"
    /\ MainReaders = {}
    /\ uppers' = uppers \cup {UpperOf[rx.s]}
    /\ entry' = [entry EXCEPT ![rx.s] = Received(TRUE)]
    /\ m_card' = (m_card + 1) % CardMod
    /\ rx' = [rx EXCEPT !.pc = "point", !.ret = "OK"]
    /\ UNCHANGED <<markers, clock, cleaner, scan, served, crashed>>

\* The unlocked count() decides between insertion and update, and m_card++ reads.
InsertCount ==
    /\ rx.pc = "count"
    /\ \E hit \in CountOutcomes(rx.s) :
          rx' = IF hit THEN [rx EXCEPT !.pc = "write", !.ret = "UPDATED"]
                ELSE [rx EXCEPT !.pc = "inc", !.ret = "OK", !.card = m_card]
    /\ UNCHANGED <<uppers, entry, m_card, markers, clock, cleaner, scan, served, crashed>>

\* m_card++ writes back, with no lock.
InsertIncrement ==
    /\ rx.pc = "inc"
    /\ m_card' = (rx.card + 1) % CardMod
    /\ rx' = [rx EXCEPT !.pc = "write"]
    /\ UNCHANGED <<uppers, entry, markers, clock, cleaner, scan, served, crashed>>

\* Under the exclusive lock of the lower map: the data, and a PHpoints object if
\* count() had found nothing.
InsertWrite ==
    /\ rx.pc = "write"
    /\ ~ LockedExclusive(UpperOf[rx.s])
    /\ ~ LockedShared(UpperOf[rx.s])
    /\ entry' = [entry EXCEPT ![rx.s] = Received(@.ph \/ rx.ret = "OK")]
    /\ rx' = [rx EXCEPT !.pc = "point"]
    /\ UNCHANGED <<uppers, m_card, markers, clock, cleaner, scan, served, crashed>>

\* The new path history point, after the lock was released.  Without an entry, or
\* without its PHpoints object, the call goes through a null pointer.
InsertPoint ==
    /\ rx.pc = "point"
    /\ IF entry[rx.s].ph THEN RxGoto("done") ELSE Crash

Finish ==
    /\ rx.pc = "done"
    /\ rx' = RxIdle
    /\ UNCHANGED <<uppers, entry, m_card, markers, clock, cleaner, scan, served, crashed>>

\* An unlocked access while the cleaner changes the same lower map.
UnlockedAccess == {"lfCount", "ageCount", "logCount", "count", "point"}

RaceCrash ==
    /\ rx.pc \in UnlockedAccess
    /\ BeingChanged(UpperOf[rx.s])
    /\ Crash

\* operator[] inserts under a shared lock, below the iterator of another reader.
RehashCrash ==
    /\ rx.pc \in {"lfRead", "ageRead", "logRead"}
    /\ entry[rx.s] = NoEntry
    /\ LockedShared(UpperOf[rx.s])
    /\ Crash

-----------------------------------------------------------------------------
(* The cleaner thread                                                      *)

CleanerIdle == [pc |-> "idle", now |-> 0, ups |-> {}, cur |-> NoUpper, todo |-> {},
                at |-> NoStation, card |-> 0]

\* The timer fired: the time is read before any lock is taken.
CleanerStart ==
    /\ cleaner.pc = "idle"
    /\ cleaner' = [cleaner EXCEPT !.pc = "main", !.now = clock]
    /\ UNCHANGED <<uppers, entry, m_card, markers, clock, rx, scan, served, crashed>>

CleanerLockMain ==
    /\ cleaner.pc = "main"
    /\ cleaner' = [cleaner EXCEPT !.pc = "next", !.ups = uppers]
    /\ UNCHANGED <<uppers, entry, m_card, markers, clock, rx, scan, served, crashed>>

CleanerLockLower(u) ==
    /\ cleaner.pc = "next"
    /\ u \in cleaner.ups
    /\ ~ LockedShared(u)
    /\ cleaner' = [cleaner EXCEPT !.pc = "entry", !.cur = u, !.todo = LowerMap(u)]
    /\ UNCHANGED <<uppers, entry, m_card, markers, clock, rx, scan, served, crashed>>

NeverOld(e) == FALSE

\* (now - timestamp_us) on uint64_t, against the limit.
Old(e) == (cleaner.now - e.ts) % TimeMod > Expiry

\* An old entry: clearVisualizerObject has its marker removed ...
CleanerCallback(s) ==
    /\ cleaner.pc = "entry"
    /\ s \in cleaner.todo
    /\ Old(entry[s])
    /\ markers' = markers \ {entry[s].id}
    /\ cleaner' = [cleaner EXCEPT !.pc = "erase", !.at = s]
    /\ UNCHANGED <<uppers, entry, m_card, clock, rx, scan, served, crashed>>

\* ... then the entry goes, and m_card-- reads.
CleanerErase ==
    /\ cleaner.pc = "erase"
    /\ entry' = [entry EXCEPT ![cleaner.at] = NoEntry]
    /\ cleaner' = [cleaner EXCEPT !.pc = "dec", !.todo = @ \ {cleaner.at},
                                  !.at = NoStation, !.card = m_card]
    /\ UNCHANGED <<uppers, m_card, markers, clock, rx, scan, served, crashed>>

CleanerKeep(s) ==
    /\ cleaner.pc = "entry"
    /\ s \in cleaner.todo
    /\ ~ Old(entry[s])
    /\ cleaner' = [cleaner EXCEPT !.todo = @ \ {s}]
    /\ UNCHANGED <<uppers, entry, m_card, markers, clock, rx, scan, served, crashed>>

SignedDecrement ==
    /\ cleaner.pc = "dec"
    /\ m_card' = cleaner.card - 1
    /\ cleaner' = [cleaner EXCEPT !.pc = "entry"]
    /\ UNCHANGED <<uppers, entry, markers, clock, rx, scan, served, crashed>>

CleanerDecrement ==
    /\ cleaner.pc = "dec"
    /\ m_card' = (cleaner.card - 1) % CardMod
    /\ cleaner' = [cleaner EXCEPT !.pc = "entry"]
    /\ UNCHANGED <<uppers, entry, markers, clock, rx, scan, served, crashed>>

CleanerUnlockLower ==
    /\ cleaner.pc = "entry"
    /\ cleaner.todo = {}
    /\ cleaner' = [cleaner EXCEPT !.pc = "next", !.cur = NoUpper, !.ups = @ \ {cleaner.cur}]
    /\ UNCHANGED <<uppers, entry, m_card, markers, clock, rx, scan, served, crashed>>

CleanerDone ==
    /\ cleaner.pc = "next"
    /\ cleaner.ups = {}
    /\ cleaner' = CleanerIdle
    /\ UNCHANGED <<uppers, entry, m_card, markers, clock, rx, scan, served, crashed>>

-----------------------------------------------------------------------------
(* The visualizer updater and the JSON server: scans under shared locks     *)

ScanIdle == [pc |-> "idle", now |-> 0, ups |-> {}, cur |-> NoUpper, todo |-> {},
             at |-> NoStation, id |-> "none", got |-> {}]

\* A timer or a request.  make_AIM_json reads the time before it selects.
ScanStart(t) ==
    /\ scan[t].pc = "idle"
    /\ scan' = [scan EXCEPT ![t].pc = "main", ![t].now = IF t = "json" THEN clock ELSE 0]
    /\ UNCHANGED <<uppers, entry, m_card, markers, clock, rx, cleaner, served, crashed>>

ScanLockMain(t) ==
    /\ scan[t].pc = "main"
    /\ scan' = [scan EXCEPT ![t].pc = "next", ![t].ups = uppers]
    /\ UNCHANGED <<uppers, entry, m_card, markers, clock, rx, cleaner, served, crashed>>

ScanLockLower(t, u) ==
    /\ scan[t].pc = "next"
    /\ u \in scan[t].ups
    /\ ~ LockedExclusive(u)
    /\ scan' = [scan EXCEPT ![t].pc = "entry", ![t].cur = u, ![t].todo = LowerMap(u)]
    /\ UNCHANGED <<uppers, entry, m_card, markers, clock, rx, cleaner, served, crashed>>

\* rangeSelect copies the entry.
SelectVisit(t, s) ==
    /\ t = "json"
    /\ scan[t].pc = "entry"
    /\ s \in scan[t].todo
    /\ scan' = [scan EXCEPT ![t].todo = @ \ {s}, ![t].got = @ \cup {entry[s].ts}]
    /\ UNCHANGED <<uppers, entry, m_card, markers, clock, rx, cleaner, served, crashed>>

\* executeOnAllContents passes a copy of the data to updateVisualizer ...
UpdateVisit(t, s) ==
    /\ t = "viz"
    /\ scan[t].pc = "entry"
    /\ s \in scan[t].todo
    /\ scan' = [scan EXCEPT ![t].pc = "send", ![t].at = s, ![t].id = entry[s].id]
    /\ UNCHANGED <<uppers, entry, m_card, markers, clock, rx, cleaner, served, crashed>>

\* ... which has the object drawn.
UpdateSend(t) ==
    /\ scan[t].pc = "send"
    /\ markers' = markers \cup {scan[t].id}
    /\ scan' = [scan EXCEPT ![t].pc = "entry", ![t].todo = @ \ {scan[t].at},
                            ![t].at = NoStation, ![t].id = "none"]
    /\ UNCHANGED <<uppers, entry, m_card, clock, rx, cleaner, served, crashed>>

ScanUnlockLower(t) ==
    /\ scan[t].pc = "entry"
    /\ scan[t].todo = {}
    /\ scan' = [scan EXCEPT ![t].pc = "next", ![t].cur = NoUpper, ![t].ups = @ \ {scan[t].cur}]
    /\ UNCHANGED <<uppers, entry, m_card, markers, clock, rx, cleaner, served, crashed>>

\* The JSON reply gives now_us - timestamp_us, on uint64_t, for each vehicle.
ScanDone(t) ==
    /\ scan[t].pc = "next"
    /\ scan[t].ups = {}
    /\ scan' = [scan EXCEPT ![t] = ScanIdle]
    /\ served' = IF t = "json" THEN {(scan[t].now - ts) % TimeMod : ts \in scan[t].got}
                 ELSE served
    /\ UNCHANGED <<uppers, entry, m_card, markers, clock, rx, cleaner, crashed>>

-----------------------------------------------------------------------------
Init ==
    /\ uppers = {}
    /\ entry = [s \in Stations |-> NoEntry]
    /\ m_card = 0
    /\ markers = {}
    /\ clock = 0
    /\ rx = RxIdle
    /\ cleaner = CleanerIdle
    /\ scan = [t \in Scanners |-> ScanIdle]
    /\ served = {}
    /\ crashed = FALSE

Tick ==
    /\ clock < MaxTime
    /\ clock' = clock + 1
    /\ UNCHANGED <<uppers, entry, m_card, markers, rx, cleaner, scan, served, crashed>>

\* The steps of a message that wait for no lock, and those that do.
RxStep ==
    \/ LfCount \/ AgeEnter \/ AgeCount \/ Stamp \/ LogCount
    \/ InsertTest \/ InsertCount \/ InsertIncrement \/ InsertPoint \/ Finish

RxLockStep == LfRead \/ AgeRead \/ LogRead \/ InsertUpper \/ InsertWrite

CleanerStep ==
    \/ CleanerStart \/ CleanerLockMain \/ CleanerDecrement \/ CleanerUnlockLower \/ CleanerDone
    \/ CleanerErase \/ \E s \in Stations : CleanerCallback(s) \/ CleanerKeep(s)

ScanStep(t) ==
    \/ ScanLockMain(t) \/ ScanUnlockLower(t) \/ ScanDone(t) \/ UpdateSend(t)
    \/ \E s \in Stations : SelectVisit(t, s) \/ UpdateVisit(t, s)

Dead == crashed /\ UNCHANGED vars

Next ==
    \/ /\ Running
       /\ \/ \E s \in Stations, gn \in GNValues, lf \in BOOLEAN : Receive(s, gn, lf)
          \/ RxStep \/ RxLockStep \/ RaceCrash \/ RehashCrash
          \/ CleanerStep
          \/ \E u \in UpperKeys : CleanerLockLower(u)
          \/ \E t \in Scanners : ScanStart(t) \/ ScanStep(t)
          \/ \E t \in Scanners, u \in UpperKeys : ScanLockLower(t, u)
          \/ Tick
    \/ Dead

Spec == Init /\ [][Next]_vars

\* Every thread goes on as long as the process runs.  A thread that waits for a
\* lock gets it in the end although other threads keep taking it: the scans and
\* the sweeps last microseconds and their timers seconds, so strong fairness.
\* Nothing makes a message or a request arrive, and nothing makes time pass.
Fairness ==
    /\ WF_vars(Running /\ RxStep)
    /\ SF_vars(Running /\ RxLockStep)
    /\ WF_vars(Running /\ CleanerStep)
    /\ SF_vars(Running /\ \E u \in UpperKeys : CleanerLockLower(u))
    /\ \A t \in Scanners :
          /\ WF_vars(Running /\ ScanStep(t))
          /\ SF_vars(Running /\ \E u \in UpperKeys : ScanLockLower(t, u))

FairSpec == Spec /\ Fairness

-----------------------------------------------------------------------------
(* Properties                                                              *)

EntryType == [id : Stations \cup {ZeroId, "none"}, ts : 0 .. MaxTime,
              gn : GNValues \cup {0}, ph : BOOLEAN]

RxPCs == {"idle", "lfCount", "lfRead", "age", "ageCount", "ageRead", "stamp", "logCount",
          "logRead", "insert", "upper", "count", "inc", "write", "point", "done"}

ScanPCs == {"idle", "main", "next", "entry"}

RxType ==
    [pc : RxPCs, s : Stations \cup {NoStation}, gn : GNValues \cup {0}, lf : BOOLEAN,
     ts : 0 .. MaxTime, card : 0 .. CardMod - 1, ret : {"none", "OK", "UPDATED", "MAP_FULL"}]

CleanerType ==
    [pc : ScanPCs \cup {"erase", "dec"}, now : 0 .. MaxTime, ups : SUBSET UpperKeys,
     cur : UpperKeys \cup {NoUpper}, todo : SUBSET Stations, at : Stations \cup {NoStation},
     card : 0 .. CardMod - 1]

ScanType ==
    [pc : ScanPCs \cup {"send"}, now : 0 .. MaxTime, ups : SUBSET UpperKeys,
     cur : UpperKeys \cup {NoUpper}, todo : SUBSET Stations, at : Stations \cup {NoStation},
     id : Stations \cup {ZeroId, "none"}, got : SUBSET (0 .. MaxTime)]

\* Types of the shared state and of the locals of the threads.
TypeOK ==
    /\ uppers \subseteq UpperKeys
    /\ entry \in [Stations -> EntryType]
    /\ m_card \in 0 .. CardMod - 1
    /\ markers \subseteq Stations \cup {ZeroId}
    /\ clock \in 0 .. MaxTime
    /\ rx \in RxType
    /\ cleaner \in CleanerType
    /\ scan \in [Scanners -> ScanType]
    /\ served \subseteq 0 .. TimeMod - 1
    /\ crashed \in BOOLEAN

\* Whatever the threads do, the entries that a scan or a sweep still has to visit
\* are there: no iterator of LDMmap.cpp stands on an erased entry.
IteratorsValid ==
    /\ cleaner.todo \subseteq LowerMap(cleaner.cur)
    /\ \A t \in Scanners : scan[t].todo \subseteq LowerMap(scan[t].cur)

\* A vehicle drawn on the map is in the database: the updater draws an entry and
\* the cleaner removes the marker and the entry under locks that exclude each
\* other, so no marker outlives its vehicle.
MarkersTracked == \A s \in markers \cap Stations : entry[s].id = s

\* g is older than h by less than the gap, on the circle of the GN timestamps.
OlderGN(g, h) == g # NoGN /\ h # NoGN /\ (h - g) % GNMod \in 1 .. Gap - 1

\* With the age check on, the data of a vehicle is never replaced by data its
\* sender had stamped earlier, even when the cleaner erases between the check and
\* the insertion and even when the GN timestamps wrap.
AgeCheckProtects ==
    [][\A s \in Stations :
          entry[s].id = s /\ entry'[s].id = s => ~ OlderGN(entry'[s].gn, entry[s].gn)]_vars

\* ... and data stamped later, by no more than the gap, is never dropped for the
\* data of the vehicle it belongs to.
AgeCheckKeepsNew ==
    [][rx.pc = "ageRead" /\ rx'.pc = "idle" /\ entry[rx.s].id = rx.s
          => ~ OlderGN(entry[rx.s].gn, rx.gn)]_vars

\* An entry that is too old is erased or refreshed in the end (or the process is
\* gone), however messages, scans and sweeps interleave.
ExpiredGoes ==
    \A s \in Stations :
        entry[s] # NoEntry /\ clock - entry[s].ts > Expiry
            ~> crashed \/ entry[s] = NoEntry \/ clock - entry[s].ts <= Expiry

\* The handling of a message ends, whatever the other threads hold and when, if
\* the main mutex is free of readers again and again: readers that overlap without
\* end would keep a vehicle with a new upper key out for ever.
MessageHandled ==
    []<>(MainReaders = {} \/ crashed) => (rx.pc # "idle" ~> crashed \/ rx.pc = "idle")

\* LDMmap.h: the sweep deletes the entries older than the limit.
SweepTakesOnlyOld ==
    [][\A s \in Stations :
          entry[s] # NoEntry /\ entry'[s] = NoEntry => clock - entry[s].ts > Expiry]_vars

\* LDMmap.h: LDMMAP_UPDATED tells that an existing entry was updated.
UpdatedExists ==
    [][\A s \in Stations :
          entry[s] = NoEntry /\ entry'[s].id = s => rx'.ret # "UPDATED"]_vars

\* LDMmap.h: lookup answers LDMMAP_OK with the data of the vehicle asked for.
LookupReturnsStored ==
    [][rx.pc \in {"lfRead", "ageRead", "logRead"} /\ rx'.pc # rx.pc
          => entry[rx.s] # NoEntry]_vars

\* LDMmap.h: m_card is the number of entries, whenever no call is under way.
CardExactAtRest ==
    rx.pc = "idle" /\ cleaner.pc = "idle" /\ ~ crashed => m_card = Cardinality(Present)

\* LDMmap.h: an insertion never finds the map full.
NeverFull == rx.ret # "MAP_FULL"

\* JSONserver.cpp: the reply tells the time since the data was stored.
ServedAgesReal == \A age \in served : age <= clock
=============================================================================
