-------------------------- MODULE LDMThreadsProofs --------------------------
(***************************************************************************)
(* Proofs about LDMThreads: what the two levels of locks of LDMmap.cpp do  *)
(* guarantee, for every set of vehicles, every assignment of them to lower *)
(* maps and every choice of the threads that scan the database.            *)
(***************************************************************************)
EXTENDS LDMThreads, TLAPS

\* The message being handled has a vehicle, and an entry is the data of the vehicle
\* it is stored for or a value-initialised one.
IdsRight ==
    /\ rx.pc # "idle" => rx.s \in Stations
    /\ \A s \in Stations : entry[s] = NoEntry \/ entry[s].id \in {s, ZeroId}

\* A thread holds the lock of a lower map inside the main lock alone, and the cleaner
\* shares its lower map with no scan.
LocksNest ==
    /\ cleaner.cur # NoUpper => cleaner.pc \in {"entry", "erase", "dec"}
    /\ \A t \in Scanners :
          /\ scan[t].cur # NoUpper => scan[t].pc \in {"entry", "send"}
          /\ scan[t].cur # NoUpper => scan[t].cur # cleaner.cur

\* The entry about to be erased is still there and its marker is gone already.
ErasingAt == cleaner.pc = "erase" => cleaner.at \in cleaner.todo /\ cleaner.at \notin markers

\* The object about to be drawn is the one its entry still shows.
SendingAt ==
    \A t \in Scanners :
        scan[t].pc = "send" => scan[t].at \in scan[t].todo /\ scan[t].id = entry[scan[t].at].id

IInv ==
    /\ TypeOK
    /\ IdsRight
    /\ IteratorsValid
    /\ LocksNest
    /\ ErasingAt
    /\ SendingAt
    /\ MarkersTracked

-----------------------------------------------------------------------------
(* Steps of the reception thread                                           *)

\* A step that changes the locals of the reception thread, the counter or the clock
\* leaves the locks, the entries and the markers alone.
LEMMA FrameRx ==
  ASSUME IInv, rx' \in RxType, rx'.pc # "idle" => rx'.s \in Stations,
         m_card' \in 0 .. CardMod - 1, clock' \in 0 .. MaxTime, crashed' \in BOOLEAN,
         UNCHANGED <<uppers, entry, markers, cleaner, scan, served>>
  PROVE  IInv'
BY DEF IInv, TypeOK, IdsRight, IteratorsValid, LocksNest, ErasingAt, SendingAt, MarkersTracked,
       LowerMap, Present

\* What the reception thread may write to an entry without disturbing another thread:
\* data of the vehicle, or a value-initialised entry where there was none.
LEMMA WriteEntry ==
  ASSUME IInv, NEW s \in Stations, NEW e \in EntryType,
         e # NoEntry, e.id \in {s, ZeroId}, entry[s].id = s => e.id = s,
         \A t \in Scanners : scan[t].pc = "send" /\ scan[t].at = s => e.id = entry[s].id,
         entry' = [entry EXCEPT ![s] = e],
         rx' \in RxType, rx'.pc # "idle" => rx'.s \in Stations,
         m_card' \in 0 .. CardMod - 1, uppers' \subseteq UpperKeys,
         UNCHANGED <<markers, clock, cleaner, scan, served, crashed>>
  PROVE  IInv'
<1>1. TypeOK'
  BY DEF IInv, TypeOK
<1>2. /\ entry'[s] = e
      /\ \A x \in Stations : x # s => entry'[x] = entry[x]
  BY DEF IInv, TypeOK
<1>3. IdsRight'
  BY <1>2 DEF IInv, IdsRight
<1>4. IteratorsValid'
  BY <1>2 DEF IInv, IteratorsValid, LowerMap, Present
<1>5. LocksNest' /\ ErasingAt'
  BY DEF IInv, LocksNest, ErasingAt
<1>6. SendingAt'
  <2> SUFFICES ASSUME NEW t \in Scanners, scan[t].pc = "send"
               PROVE  scan[t].at \in scan[t].todo /\ scan[t].id = entry'[scan[t].at].id
    BY DEF SendingAt
  <2>1. scan[t].at \in scan[t].todo /\ scan[t].id = entry[scan[t].at].id
    BY DEF IInv, SendingAt
  <2>2. scan[t].at \in Stations
    BY <2>1 DEF IInv, IteratorsValid, LowerMap, Present
  <2> QED
    BY <1>2, <2>1, <2>2
<1>7. MarkersTracked'
  BY <1>2 DEF IInv, MarkersTracked
<1> QED
  BY <1>1, <1>3, <1>4, <1>5, <1>6, <1>7 DEF IInv

\* The vehicle of the message is a station, on the way of a message.
LEMMA RxStation ==
  ASSUME IInv, rx.pc # "idle"
  PROVE  rx.s \in Stations /\ UpperOf[rx.s] \in UpperKeys /\ rx \in RxType
BY LDMThreadsAssumption DEF IInv, TypeOK, IdsRight

LEMMA RxIdleType == RxIdle \in RxType /\ RxIdle.pc = "idle"
<1>1. 0 \in 0 .. MaxTime /\ 0 \in 0 .. CardMod - 1
  BY LDMThreadsAssumption
<1> QED
  BY <1>1 DEF RxIdle, RxType, RxPCs

\* A jump from one step of a message to another.
LEMMA RxJump ==
  ASSUME IInv, rx.pc # "idle", NEW pc \in RxPCs, RxGoto(pc)
  PROVE  IInv'
<1>1. rx' \in RxType /\ rx'.s = rx.s
  BY RxStation DEF RxGoto, RxType
<1>2. m_card \in 0 .. CardMod - 1 /\ clock \in 0 .. MaxTime /\ crashed \in BOOLEAN
  BY DEF IInv, TypeOK
<1> QED
  BY <1>1, <1>2, RxStation, FrameRx DEF RxGoto

LEMMA CrashKeeps ==
  ASSUME IInv, Crash
  PROVE  IInv'
<1>1. rx' \in RxType /\ (rx'.pc # "idle" => rx'.s \in Stations)
  BY DEF IInv, TypeOK, IdsRight, Crash
<1> QED
  BY <1>1, FrameRx DEF IInv, TypeOK, Crash

LEMMA LookupCountKeeps ==
  ASSUME IInv, NEW at \in RxPCs \ {"idle"}, NEW found \in RxPCs, NEW missing \in RxPCs,
         LookupCount(at, found, missing)
  PROVE  IInv'
BY RxJump DEF LookupCount

LEMMA LookupReadKeeps ==
  ASSUME IInv, NEW at \in RxPCs \ {"idle"}, NEW next \in RxPCs, LookupRead(at, next)
  PROVE  IInv'
<1> DEFINE e == IF entry[rx.s] = NoEntry THEN Ghost ELSE entry[rx.s]
<1>1. rx.s \in Stations /\ rx \in RxType /\ entry[rx.s] \in EntryType
  BY RxStation DEF LookupRead, IInv, TypeOK
<1>2. Ghost \in EntryType /\ Ghost # NoEntry /\ Ghost.id = ZeroId /\ NoEntry.id = "none"
  BY LDMThreadsAssumption DEF Ghost, NoEntry, EntryType, ZeroId
<1>3. /\ e \in EntryType
      /\ e # NoEntry
      /\ e.id \in {rx.s, ZeroId}
      /\ entry[rx.s].id = rx.s => e.id = rx.s
  BY <1>1, <1>2, LDMThreadsAssumption DEF IInv, IdsRight, NoStation
<1>4. \A t \in Scanners : scan[t].pc = "send" /\ scan[t].at = rx.s => e.id = entry[rx.s].id
  BY DEF IInv, SendingAt, IteratorsValid, LowerMap, Present
<1>5. entry' = [entry EXCEPT ![rx.s] = e]
  BY DEF LookupRead
<1>6. rx' \in RxType /\ rx'.s = rx.s
  BY <1>1 DEF LookupRead, RxType
<1>7. m_card' \in 0 .. CardMod - 1 /\ uppers' \subseteq UpperKeys
  BY DEF IInv, TypeOK, LookupRead
<1>8. UNCHANGED <<markers, clock, cleaner, scan, served, crashed>>
  BY DEF LookupRead
<1> HIDE DEF e
<1> QED
  BY <1>1, <1>3, <1>4, <1>5, <1>6, <1>7, <1>8, WriteEntry

LEMMA InsertUpperKeeps ==
  ASSUME IInv, InsertUpper
  PROVE  IInv'
<1>1. rx.s \in Stations /\ UpperOf[rx.s] \in UpperKeys /\ rx \in RxType
  BY RxStation DEF InsertUpper
<1>2. /\ Received(TRUE) \in EntryType
      /\ Received(TRUE).id = rx.s
      /\ Received(TRUE) # NoEntry
  BY <1>1, LDMThreadsAssumption DEF Received, EntryType, RxType, NoEntry, NoStation
<1>3. \A t \in Scanners : scan[t].pc # "send"
  BY DEF InsertUpper, MainReaders
<1>4. rx' \in RxType /\ rx'.s = rx.s
  BY <1>1 DEF InsertUpper, RxType, RxPCs
<1>5. m_card' \in 0 .. CardMod - 1 /\ uppers' \subseteq UpperKeys
  BY <1>1, LDMThreadsAssumption DEF IInv, TypeOK, InsertUpper
<1>6. entry' = [entry EXCEPT ![rx.s] = Received(TRUE)]
  BY DEF InsertUpper
<1>7. UNCHANGED <<markers, clock, cleaner, scan, served, crashed>>
  BY DEF InsertUpper
<1> QED
  BY <1>1, <1>2, <1>3, <1>4, <1>5, <1>6, <1>7, WriteEntry

\* The exclusive lock keeps the entry out of the hands of the scans.
LEMMA InsertWriteKeeps ==
  ASSUME IInv, InsertWrite
  PROVE  IInv'
<1> DEFINE e == Received(entry[rx.s].ph \/ rx.ret = "OK")
<1>1. rx.s \in Stations /\ UpperOf[rx.s] \in UpperKeys /\ rx \in RxType
  BY RxStation DEF InsertWrite
<1>2. entry[rx.s].ph \in BOOLEAN
  BY <1>1 DEF IInv, TypeOK, EntryType
<1>3. /\ e \in EntryType
      /\ e.id = rx.s
      /\ e # NoEntry
  BY <1>1, <1>2, LDMThreadsAssumption DEF Received, EntryType, RxType, NoEntry, NoStation
<1>4. \A t \in Scanners : ~ (scan[t].pc = "send" /\ scan[t].at = rx.s)
  BY DEF InsertWrite, LockedShared, IInv, SendingAt, IteratorsValid, LowerMap
<1>5. rx' \in RxType /\ rx'.s = rx.s
  BY <1>1 DEF InsertWrite, RxType, RxPCs
<1>6. m_card' \in 0 .. CardMod - 1 /\ uppers' \subseteq UpperKeys
  BY DEF IInv, TypeOK, InsertWrite
<1>7. entry' = [entry EXCEPT ![rx.s] = e]
  BY <1>1 DEF InsertWrite
<1>8. UNCHANGED <<markers, clock, cleaner, scan, served, crashed>>
  BY DEF InsertWrite
<1> HIDE DEF e
<1> QED
  BY <1>1, <1>3, <1>4, <1>5, <1>6, <1>7, <1>8, WriteEntry

LEMMA RxStepKeeps ==
  ASSUME IInv, RxStep
  PROVE  IInv'
<1>0. /\ rx \in RxType
      /\ rx.pc # "idle" => rx.s \in Stations
      /\ m_card \in 0 .. CardMod - 1 /\ clock \in 0 .. MaxTime /\ crashed \in BOOLEAN
  BY DEF IInv, TypeOK, IdsRight
<1>1. CASE LfCount \/ AgeCount \/ LogCount
  BY <1>1, LookupCountKeeps DEF LfCount, AgeCount, LogCount, RxPCs
<1>2. CASE AgeEnter
  BY <1>2, RxJump DEF AgeEnter, RxPCs
<1>3. CASE Stamp
  <2>1. rx' \in RxType /\ rx'.s = rx.s
    BY <1>0, <1>3 DEF Stamp, RxType, RxPCs
  <2> QED
    BY <1>0, <1>3, <2>1, FrameRx DEF Stamp
<1>4. CASE InsertTest
  <2>1. rx' \in RxType /\ rx'.s = rx.s
    BY <1>0, <1>4 DEF InsertTest, RxType, RxPCs
  <2> QED
    BY <1>0, <1>4, <2>1, FrameRx DEF InsertTest
<1>5. CASE InsertCount
  <2>1. \/ rx' = [rx EXCEPT !.pc = "write", !.ret = "UPDATED"]
        \/ rx' = [rx EXCEPT !.pc = "inc", !.ret = "OK", !.card = m_card]
    BY <1>5 DEF InsertCount
  <2>2. rx' \in RxType /\ rx'.s = rx.s
    BY <1>0, <2>1 DEF RxType, RxPCs
  <2> QED
    BY <1>0, <1>5, <2>2, FrameRx DEF InsertCount
<1>6. CASE InsertIncrement
  <2>1. rx' \in RxType /\ rx'.s = rx.s
    BY <1>0, <1>6 DEF InsertIncrement, RxType, RxPCs
  <2>2. m_card' \in 0 .. CardMod - 1
    BY <1>0, <1>6, LDMThreadsAssumption DEF InsertIncrement, RxType
  <2> QED
    BY <1>0, <1>6, <2>1, <2>2, FrameRx DEF InsertIncrement
<1>7. CASE InsertPoint
  BY <1>7, RxJump, CrashKeeps DEF InsertPoint, RxPCs
<1>8. CASE Finish
  <2>1. rx' \in RxType /\ rx'.pc = "idle"
    BY <1>8, RxIdleType DEF Finish
  <2> QED
    BY <1>0, <1>8, <2>1, FrameRx DEF Finish
<1> QED
  BY <1>1, <1>2, <1>3, <1>4, <1>5, <1>6, <1>7, <1>8 DEF RxStep

LEMMA RxLockStepKeeps ==
  ASSUME IInv, RxLockStep
  PROVE  IInv'
<1>1. CASE LfRead
  BY <1>1, LookupReadKeeps DEF LfRead, RxPCs
<1>2. CASE AgeRead
  BY <1>2, LookupReadKeeps DEF AgeRead, RxPCs
<1>3. CASE LogRead
  BY <1>3, LookupReadKeeps DEF LogRead, RxPCs
<1> QED
  BY <1>1, <1>2, <1>3, InsertUpperKeeps, InsertWriteKeeps DEF RxLockStep

LEMMA ReceiveKeeps ==
  ASSUME IInv, NEW s \in Stations, NEW gn \in GNValues, NEW lf \in BOOLEAN, Receive(s, gn, lf)
  PROVE  IInv'
<1>1. rx' \in RxType /\ rx'.s = s
  BY RxIdleType DEF Receive, RxType, RxPCs
<1> QED
  BY <1>1, FrameRx DEF Receive, IInv, TypeOK

LEMMA TickKeeps ==
  ASSUME IInv, Tick
  PROVE  IInv'
<1>1. clock' \in 0 .. MaxTime
  BY LDMThreadsAssumption DEF Tick, IInv, TypeOK
<1> QED
  BY <1>1, FrameRx DEF Tick, IInv, TypeOK, IdsRight

-----------------------------------------------------------------------------
(* Steps of the cleaner                                                    *)

\* A step of the cleaner that erases nothing: it may take the lock of a lower map no
\* scan holds, and walk over it.
LEMMA FrameCleaner ==
  ASSUME IInv, cleaner' \in CleanerType, cleaner'.pc # "erase", m_card' \in 0 .. CardMod - 1,
         cleaner'.todo \subseteq LowerMap(cleaner'.cur),
         cleaner'.cur # NoUpper => /\ cleaner'.pc \in {"entry", "erase", "dec"}
                                   /\ \A t \in Scanners : scan[t].cur # cleaner'.cur,
         UNCHANGED <<uppers, entry, markers, clock, rx, scan, served, crashed>>
  PROVE  IInv'
BY DEF IInv, TypeOK, IdsRight, IteratorsValid, LocksNest, ErasingAt, SendingAt, MarkersTracked,
       LowerMap, Present

\* Where the cleaner stands, and with which lock.
LEMMA CleanerFacts ==
  ASSUME IInv
  PROVE  /\ cleaner \in CleanerType
         /\ cleaner.todo \subseteq LowerMap(cleaner.cur)
         /\ cleaner.cur # NoUpper => \A t \in Scanners : scan[t].cur # cleaner.cur
         /\ cleaner.pc \in {"idle", "main", "next"} => cleaner.cur = NoUpper
         /\ m_card \in 0 .. CardMod - 1 /\ clock \in 0 .. MaxTime /\ uppers \subseteq UpperKeys
         /\ LowerMap(NoUpper) = {}
BY LDMThreadsAssumption DEF IInv, TypeOK, IteratorsValid, LocksNest, LowerMap, Present

LEMMA CleanerIdleType == CleanerIdle \in CleanerType
<1>1. 0 \in 0 .. MaxTime /\ 0 \in 0 .. CardMod - 1
  BY LDMThreadsAssumption
<1> QED
  BY <1>1 DEF CleanerIdle, CleanerType, ScanPCs

LEMMA CleanerStartKeeps ==
  ASSUME IInv, CleanerStart
  PROVE  IInv'
<1>1. cleaner' \in CleanerType /\ cleaner'.pc = "main"
  BY CleanerFacts DEF CleanerStart, CleanerType, ScanPCs
<1>2. cleaner'.todo = cleaner.todo /\ cleaner'.cur = NoUpper /\ cleaner.cur = NoUpper
  BY CleanerFacts DEF CleanerStart, CleanerType
<1> QED
  BY <1>1, <1>2, CleanerFacts, FrameCleaner DEF CleanerStart

LEMMA CleanerLockMainKeeps ==
  ASSUME IInv, CleanerLockMain
  PROVE  IInv'
<1>1. cleaner' \in CleanerType /\ cleaner'.pc = "next"
  BY CleanerFacts DEF CleanerLockMain, CleanerType, ScanPCs
<1>2. cleaner'.todo = cleaner.todo /\ cleaner'.cur = NoUpper /\ cleaner.cur = NoUpper
  BY CleanerFacts DEF CleanerLockMain, CleanerType
<1> QED
  BY <1>1, <1>2, CleanerFacts, FrameCleaner DEF CleanerLockMain

\* The exclusive lock is granted when no scan holds the lower map.
LEMMA CleanerLockLowerKeeps ==
  ASSUME IInv, NEW u \in UpperKeys, CleanerLockLower(u)
  PROVE  IInv'
<1>1. LowerMap(u) \subseteq Stations
  BY DEF LowerMap, Present
<1>2. cleaner' \in CleanerType /\ cleaner'.pc = "entry"
  BY <1>1, CleanerFacts DEF CleanerLockLower, CleanerType, ScanPCs
<1>3. cleaner'.todo = LowerMap(u) /\ cleaner'.cur = u
  BY CleanerFacts DEF CleanerLockLower, CleanerType
<1>4. \A t \in Scanners : scan[t].cur # u
  BY DEF CleanerLockLower, LockedShared
<1>5. LowerMap(cleaner'.cur) = LowerMap(u)
  BY <1>3
<1> QED
  BY <1>2, <1>3, <1>4, <1>5, CleanerFacts, FrameCleaner DEF CleanerLockLower

LEMMA CleanerKeepKeeps ==
  ASSUME IInv, NEW s \in Stations, CleanerKeep(s)
  PROVE  IInv'
<1>1. cleaner' \in CleanerType /\ cleaner'.pc = "entry"
  BY CleanerFacts DEF CleanerKeep, CleanerType
<1>2. cleaner'.todo \subseteq cleaner.todo /\ cleaner'.cur = cleaner.cur
  BY CleanerFacts DEF CleanerKeep, CleanerType
<1> QED
  BY <1>1, <1>2, CleanerFacts, FrameCleaner DEF CleanerKeep

LEMMA CleanerDecrementKeeps ==
  ASSUME IInv, CleanerDecrement
  PROVE  IInv'
<1>1. cleaner' \in CleanerType /\ cleaner'.pc = "entry"
  BY CleanerFacts DEF CleanerDecrement, CleanerType, ScanPCs
<1>2. cleaner'.todo = cleaner.todo /\ cleaner'.cur = cleaner.cur
  BY CleanerFacts DEF CleanerDecrement, CleanerType
<1>3. m_card' \in 0 .. CardMod - 1
  BY CleanerFacts, LDMThreadsAssumption DEF CleanerDecrement, CleanerType
<1> QED
  BY <1>1, <1>2, <1>3, CleanerFacts, FrameCleaner DEF CleanerDecrement

LEMMA CleanerUnlockLowerKeeps ==
  ASSUME IInv, CleanerUnlockLower
  PROVE  IInv'
<1>1. cleaner' \in CleanerType /\ cleaner'.pc = "next"
  BY CleanerFacts DEF CleanerUnlockLower, CleanerType, ScanPCs
<1>2. cleaner'.todo = {} /\ cleaner'.cur = NoUpper
  BY CleanerFacts DEF CleanerUnlockLower, CleanerType
<1> QED
  BY <1>1, <1>2, CleanerFacts, FrameCleaner DEF CleanerUnlockLower

LEMMA CleanerDoneKeeps ==
  ASSUME IInv, CleanerDone
  PROVE  IInv'
<1>1. cleaner' = CleanerIdle /\ cleaner' \in CleanerType
  BY CleanerIdleType DEF CleanerDone
<1>2. cleaner'.pc = "idle" /\ cleaner'.todo = {} /\ cleaner'.cur = NoUpper
  BY <1>1 DEF CleanerIdle
<1> QED
  BY <1>1, <1>2, CleanerFacts, FrameCleaner DEF CleanerDone

\* The marker goes while the exclusive lock keeps the updater from drawing it again.
LEMMA CleanerCallbackKeeps ==
  ASSUME IInv, NEW s \in Stations, CleanerCallback(s)
  PROVE  IInv'
<1>1. cleaner' \in CleanerType
  BY CleanerFacts DEF CleanerCallback, CleanerType
<1>2. /\ cleaner'.pc = "erase" /\ cleaner'.at = s
      /\ cleaner'.todo = cleaner.todo /\ cleaner'.cur = cleaner.cur
  BY CleanerFacts DEF CleanerCallback, CleanerType
<1>3. s \notin markers'
  BY LDMThreadsAssumption DEF CleanerCallback, IInv, MarkersTracked
<1>4. TypeOK'
  BY <1>1 DEF IInv, TypeOK, CleanerCallback
<1>5. IdsRight' /\ SendingAt'
  BY DEF IInv, IdsRight, SendingAt, CleanerCallback
<1>6. IteratorsValid'
  BY <1>2 DEF IInv, IteratorsValid, CleanerCallback, LowerMap, Present
<1>7. LocksNest'
  BY <1>2 DEF IInv, LocksNest, CleanerCallback
<1>8. ErasingAt'
  BY <1>2, <1>3 DEF ErasingAt, CleanerCallback
<1>9. MarkersTracked'
  BY DEF IInv, MarkersTracked, CleanerCallback
<1> QED
  BY <1>4, <1>5, <1>6, <1>7, <1>8, <1>9 DEF IInv

\* No scan stands on the entry that is erased: its lower map is another one.
LEMMA CleanerEraseKeeps ==
  ASSUME IInv, CleanerErase
  PROVE  IInv'
<1> DEFINE s == cleaner.at
<1>1. s \in cleaner.todo /\ s \in LowerMap(cleaner.cur) /\ s \in Stations /\ s \notin markers
  BY DEF CleanerErase, IInv, ErasingAt, IteratorsValid, LowerMap, Present
<1>2. /\ entry'[s] = NoEntry
      /\ \A x \in Stations : x # s => entry'[x] = entry[x]
  BY <1>1 DEF CleanerErase, IInv, TypeOK
<1>3. cleaner' \in CleanerType
  BY CleanerFacts, LDMThreadsAssumption DEF CleanerErase, CleanerType
<1>4. cleaner'.pc = "dec" /\ cleaner'.todo = cleaner.todo \ {s} /\ cleaner'.cur = cleaner.cur
  BY CleanerFacts DEF CleanerErase, CleanerType
<1>5. NoEntry \in EntryType
  BY LDMThreadsAssumption DEF NoEntry, EntryType
<1>6. TypeOK'
  BY <1>3, <1>5 DEF IInv, TypeOK, CleanerErase
<1>7. IdsRight'
  BY <1>2 DEF IInv, IdsRight, CleanerErase
<1>8. \A t \in Scanners : s \notin scan[t].todo
  BY <1>1, LDMThreadsAssumption DEF IInv, IteratorsValid, LocksNest, LowerMap, Present
<1>9. IteratorsValid'
  BY <1>2, <1>4, <1>8 DEF IInv, IteratorsValid, CleanerErase, LowerMap, Present
<1>10. LocksNest' /\ ErasingAt'
  BY <1>4 DEF IInv, LocksNest, ErasingAt, CleanerErase
<1>11. SendingAt'
  <2> SUFFICES ASSUME NEW t \in Scanners, scan[t].pc = "send"
               PROVE  scan[t].at \in scan[t].todo /\ scan[t].id = entry'[scan[t].at].id
    BY DEF SendingAt, CleanerErase
  <2>1. scan[t].at \in scan[t].todo /\ scan[t].id = entry[scan[t].at].id
    BY DEF IInv, SendingAt
  <2>2. scan[t].at \in Stations /\ scan[t].at # s
    BY <2>1, <1>8 DEF IInv, IteratorsValid, LowerMap, Present
  <2> QED
    BY <1>2, <2>1, <2>2
<1>12. MarkersTracked'
  BY <1>1, <1>2 DEF IInv, MarkersTracked, CleanerErase
<1> QED
  BY <1>6, <1>7, <1>9, <1>10, <1>11, <1>12 DEF IInv

LEMMA CleanerStepKeeps ==
  ASSUME IInv, CleanerStep
  PROVE  IInv'
BY CleanerStartKeeps, CleanerLockMainKeeps, CleanerDecrementKeeps, CleanerUnlockLowerKeeps,
   CleanerDoneKeeps, CleanerEraseKeeps, CleanerCallbackKeeps, CleanerKeepKeeps DEF CleanerStep

-----------------------------------------------------------------------------
(* Steps of the scans                                                      *)

\* Where a scan stands, and with which lock.
LEMMA ScanFacts ==
  ASSUME IInv, NEW t \in Scanners
  PROVE  /\ scan \in [Scanners -> ScanType] /\ scan[t] \in ScanType
         /\ scan[t].todo \subseteq LowerMap(scan[t].cur)
         /\ scan[t].cur # NoUpper => scan[t].cur # cleaner.cur
         /\ scan[t].pc \in {"idle", "main", "next"} => scan[t].cur = NoUpper
         /\ clock \in 0 .. MaxTime /\ uppers \subseteq UpperKeys
         /\ LowerMap(NoUpper) = {}
BY LDMThreadsAssumption DEF IInv, TypeOK, IteratorsValid, LocksNest, LowerMap, Present

\* A step of one scan, to new locals l: it may take the lock of a lower map the cleaner
\* does not hold, walk over it, and read an entry it stands on.
LEMMA FrameScan ==
  ASSUME IInv, NEW t \in Scanners, NEW l \in ScanType, scan' = [scan EXCEPT ![t] = l],
         l.todo \subseteq LowerMap(l.cur),
         l.cur # NoUpper => l.pc \in {"entry", "send"} /\ l.cur # cleaner.cur,
         l.pc = "send" => l.at \in l.todo /\ l.id = entry[l.at].id,
         served' \subseteq 0 .. TimeMod - 1,
         UNCHANGED <<uppers, entry, m_card, markers, clock, rx, cleaner, crashed>>
  PROVE  IInv'
<1>1. /\ scan'[t] = l
      /\ \A x \in Scanners : x # t => scan'[x] = scan[x]
      /\ scan' \in [Scanners -> ScanType]
  BY DEF IInv, TypeOK
<1>2. TypeOK'
  BY <1>1 DEF IInv, TypeOK
<1>3. IdsRight' /\ ErasingAt' /\ MarkersTracked'
  BY DEF IInv, IdsRight, ErasingAt, MarkersTracked
<1>4. IteratorsValid'
  <2>1. \A u : LowerMap(u)' = LowerMap(u)
    BY DEF LowerMap, Present
  <2>2. cleaner'.todo \subseteq LowerMap(cleaner'.cur)
    BY DEF IInv, IteratorsValid
  <2>3. \A x \in Scanners : scan'[x].todo \subseteq LowerMap(scan'[x].cur)
    BY <1>1 DEF IInv, IteratorsValid
  <2> QED
    BY <2>1, <2>2, <2>3 DEF IteratorsValid, LowerMap, Present
<1>5. LocksNest'
  BY <1>1 DEF IInv, LocksNest
<1>6. SendingAt'
  BY <1>1 DEF IInv, SendingAt
<1> QED
  BY <1>2, <1>3, <1>4, <1>5, <1>6 DEF IInv

LEMMA ScanIdleType == ScanIdle \in ScanType
<1>1. 0 \in 0 .. MaxTime
  BY LDMThreadsAssumption
<1> QED
  BY <1>1 DEF ScanIdle, ScanType, ScanPCs

LEMMA ScanStartKeeps ==
  ASSUME IInv, NEW t \in Scanners, ScanStart(t)
  PROVE  IInv'
<1> DEFINE l == [scan[t] EXCEPT !.pc = "main", !.now = IF t = "json" THEN clock ELSE 0]
<1>1. scan' = [scan EXCEPT ![t] = l]
  BY ScanFacts DEF ScanStart
<1>2. 0 \in 0 .. MaxTime
  BY LDMThreadsAssumption
<1>3. l \in ScanType /\ l.pc = "main" /\ l.todo = scan[t].todo /\ l.cur = NoUpper
      /\ scan[t].cur = NoUpper
  BY <1>2, ScanFacts DEF ScanStart, ScanType, ScanPCs
<1>5. /\ served' \subseteq 0 .. TimeMod - 1
      /\ UNCHANGED <<uppers, entry, m_card, markers, clock, rx, cleaner, crashed>>
  BY DEF ScanStart, IInv, TypeOK
<1> HIDE DEF l
<1> QED
  BY <1>1, <1>3, ScanFacts, <1>5, FrameScan

LEMMA ScanLockMainKeeps ==
  ASSUME IInv, NEW t \in Scanners, ScanLockMain(t)
  PROVE  IInv'
<1> DEFINE l == [scan[t] EXCEPT !.pc = "next", !.ups = uppers]
<1>1. scan' = [scan EXCEPT ![t] = l]
  BY ScanFacts DEF ScanLockMain
<1>2. l \in ScanType /\ l.pc = "next" /\ l.todo = scan[t].todo /\ l.cur = NoUpper
      /\ scan[t].cur = NoUpper
  BY ScanFacts DEF ScanLockMain, ScanType, ScanPCs
<1>5. /\ served' \subseteq 0 .. TimeMod - 1
      /\ UNCHANGED <<uppers, entry, m_card, markers, clock, rx, cleaner, crashed>>
  BY DEF ScanLockMain, IInv, TypeOK
<1> HIDE DEF l
<1> QED
  BY <1>1, <1>2, ScanFacts, <1>5, FrameScan

\* The shared lock is granted when the cleaner does not hold the lower map.
LEMMA ScanLockLowerKeeps ==
  ASSUME IInv, NEW t \in Scanners, NEW u \in UpperKeys, ScanLockLower(t, u)
  PROVE  IInv'
<1> DEFINE l == [scan[t] EXCEPT !.pc = "entry", !.cur = u, !.todo = LowerMap(u)]
<1>1. scan' = [scan EXCEPT ![t] = l]
  BY ScanFacts DEF ScanLockLower
<1>2. LowerMap(u) \subseteq Stations
  BY DEF LowerMap, Present
<1>3. l \in ScanType /\ l.pc = "entry" /\ l.todo = LowerMap(u) /\ l.cur = u
  BY <1>2, ScanFacts DEF ScanLockLower, ScanType, ScanPCs
<1>4. LowerMap(l.cur) = LowerMap(u) /\ l.cur # cleaner.cur
  BY <1>3 DEF ScanLockLower, LockedExclusive
<1>5. /\ served' \subseteq 0 .. TimeMod - 1
      /\ UNCHANGED <<uppers, entry, m_card, markers, clock, rx, cleaner, crashed>>
  BY DEF ScanLockLower, IInv, TypeOK
<1>6. l.todo \subseteq LowerMap(l.cur)
  BY <1>3, <1>4
<1> HIDE DEF l
<1> QED
  BY <1>1, <1>3, <1>4, <1>5, <1>6, FrameScan

LEMMA SelectVisitKeeps ==
  ASSUME IInv, NEW t \in Scanners, NEW s \in Stations, SelectVisit(t, s)
  PROVE  IInv'
<1> DEFINE l == [scan[t] EXCEPT !.todo = @ \ {s}, !.got = @ \cup {entry[s].ts}]
<1>1. scan' = [scan EXCEPT ![t] = l]
  BY ScanFacts DEF SelectVisit
<1>2. entry[s].ts \in 0 .. MaxTime
  BY DEF IInv, TypeOK, EntryType
<1>3. l \in ScanType /\ l.pc = "entry" /\ l.todo \subseteq scan[t].todo /\ l.cur = scan[t].cur
  BY <1>2, ScanFacts DEF SelectVisit, ScanType
<1>5. /\ served' \subseteq 0 .. TimeMod - 1
      /\ UNCHANGED <<uppers, entry, m_card, markers, clock, rx, cleaner, crashed>>
  BY DEF SelectVisit, IInv, TypeOK
<1> HIDE DEF l
<1> QED
  BY <1>1, <1>3, ScanFacts, <1>5, FrameScan

LEMMA UpdateVisitKeeps ==
  ASSUME IInv, NEW t \in Scanners, NEW s \in Stations, UpdateVisit(t, s)
  PROVE  IInv'
<1> DEFINE l == [scan[t] EXCEPT !.pc = "send", !.at = s, !.id = entry[s].id]
<1>1. scan' = [scan EXCEPT ![t] = l]
  BY ScanFacts DEF UpdateVisit
<1>2. entry[s].id \in Stations \cup {ZeroId, "none"}
  BY DEF IInv, TypeOK, EntryType
<1>3. /\ l \in ScanType /\ l.pc = "send" /\ l.todo = scan[t].todo /\ l.cur = scan[t].cur
      /\ l.at = s /\ l.id = entry[s].id /\ s \in l.todo
  BY <1>2, ScanFacts DEF UpdateVisit, ScanType, ScanPCs
<1>5. /\ served' \subseteq 0 .. TimeMod - 1
      /\ UNCHANGED <<uppers, entry, m_card, markers, clock, rx, cleaner, crashed>>
  BY DEF UpdateVisit, IInv, TypeOK
<1> HIDE DEF l
<1> QED
  BY <1>1, <1>3, ScanFacts, <1>5, FrameScan

\* What is drawn is a vehicle of the lower map the scan holds, so not the one the
\* cleaner is about to erase.
LEMMA UpdateSendKeeps ==
  ASSUME IInv, NEW t \in Scanners, UpdateSend(t)
  PROVE  IInv'
<1> DEFINE s == scan[t].at
           l == [scan[t] EXCEPT !.pc = "entry", !.todo = @ \ {s}, !.at = NoStation, !.id = "none"]
<1>1. s \in scan[t].todo /\ s \in Stations /\ entry[s] # NoEntry /\ scan[t].id = entry[s].id
      /\ UpperOf[s] = scan[t].cur
  BY ScanFacts DEF UpdateSend, IInv, SendingAt, LowerMap, Present
<1>2. scan[t].id \in {s, ZeroId}
  BY <1>1 DEF IInv, IdsRight
<1>3. scan' = [scan EXCEPT ![t] = l]
  BY ScanFacts DEF UpdateSend
<1>4. l \in ScanType /\ l.pc = "entry" /\ l.todo \subseteq scan[t].todo /\ l.cur = scan[t].cur
  BY ScanFacts DEF UpdateSend, ScanType, ScanPCs
<1> HIDE DEF l
<1>5. /\ scan'[t] = l
      /\ \A x \in Scanners : x # t => scan'[x] = scan[x]
      /\ scan' \in [Scanners -> ScanType]
  BY <1>3, <1>4, ScanFacts
<1>6. TypeOK'
  BY <1>1, <1>2, <1>5 DEF IInv, TypeOK, UpdateSend
<1>7. IdsRight'
  BY DEF IInv, IdsRight, UpdateSend
<1>8. IteratorsValid'
  <2>1. /\ cleaner.todo \subseteq LowerMap(cleaner.cur)
        /\ \A x \in Scanners : scan'[x].todo \subseteq LowerMap(scan'[x].cur)
    BY <1>4, <1>5, ScanFacts DEF IInv, IteratorsValid
  <2> QED
    BY <2>1 DEF UpdateSend, IteratorsValid, LowerMap, Present
<1>9. LocksNest'
  BY <1>4, <1>5, ScanFacts DEF IInv, LocksNest, UpdateSend
<1>10. ErasingAt'
  <2> SUFFICES ASSUME cleaner.pc = "erase"
               PROVE  cleaner.at \in cleaner.todo /\ cleaner.at \notin markers'
    BY DEF ErasingAt, UpdateSend
  <2>1. cleaner.at \in cleaner.todo /\ cleaner.at \notin markers
    BY DEF IInv, ErasingAt
  <2>2. cleaner.at \in Stations /\ UpperOf[cleaner.at] = cleaner.cur
    BY <2>1, CleanerFacts DEF LowerMap, Present
  <2>3. scan[t].cur # cleaner.cur
    BY <1>1, ScanFacts, LDMThreadsAssumption
  <2> QED
    BY <1>1, <1>2, <2>1, <2>2, <2>3, LDMThreadsAssumption DEF UpdateSend
<1>11. SendingAt'
  BY <1>4, <1>5 DEF IInv, SendingAt, UpdateSend
<1>12. MarkersTracked'
  BY <1>1, <1>2, LDMThreadsAssumption DEF IInv, MarkersTracked, UpdateSend
<1> QED
  BY <1>6, <1>7, <1>8, <1>9, <1>10, <1>11, <1>12 DEF IInv

LEMMA ScanUnlockLowerKeeps ==
  ASSUME IInv, NEW t \in Scanners, ScanUnlockLower(t)
  PROVE  IInv'
<1> DEFINE l == [scan[t] EXCEPT !.pc = "next", !.cur = NoUpper, !.ups = @ \ {scan[t].cur}]
<1>1. scan' = [scan EXCEPT ![t] = l]
  BY ScanFacts DEF ScanUnlockLower
<1>2. l \in ScanType /\ l.pc = "next" /\ l.todo = {} /\ l.cur = NoUpper
  BY ScanFacts DEF ScanUnlockLower, ScanType, ScanPCs
<1>3. /\ served' \subseteq 0 .. TimeMod - 1
      /\ UNCHANGED <<uppers, entry, m_card, markers, clock, rx, cleaner, crashed>>
  BY DEF ScanUnlockLower, IInv, TypeOK
<1> HIDE DEF l
<1> QED
  BY <1>1, <1>2, <1>3, FrameScan

LEMMA ScanDoneKeeps ==
  ASSUME IInv, NEW t \in Scanners, ScanDone(t)
  PROVE  IInv'
<1>1. scan' = [scan EXCEPT ![t] = ScanIdle]
  BY DEF ScanDone
<1>2. ScanIdle.pc = "idle" /\ ScanIdle.todo = {} /\ ScanIdle.cur = NoUpper
  BY DEF ScanIdle
<1>3. served' \subseteq 0 .. TimeMod - 1
  <2>1. \A ts \in scan[t].got : (scan[t].now - ts) % TimeMod \in 0 .. TimeMod - 1
    BY ScanFacts, LDMThreadsAssumption DEF ScanType
  <2> QED
    BY <2>1 DEF ScanDone, IInv, TypeOK
<1>4. UNCHANGED <<uppers, entry, m_card, markers, clock, rx, cleaner, crashed>>
  BY DEF ScanDone
<1> QED
  BY <1>1, <1>2, <1>3, <1>4, ScanIdleType, FrameScan

LEMMA ScanStepKeeps ==
  ASSUME IInv, NEW t \in Scanners, ScanStep(t)
  PROVE  IInv'
BY ScanLockMainKeeps, ScanUnlockLowerKeeps, ScanDoneKeeps, UpdateSendKeeps, SelectVisitKeeps,
   UpdateVisitKeeps DEF ScanStep

-----------------------------------------------------------------------------
(* The theorems                                                            *)

LEMMA InitIInv == Init => IInv
<1> SUFFICES ASSUME Init PROVE IInv
  OBVIOUS
<1>1. 0 \in 0 .. MaxTime /\ 0 \in 0 .. CardMod - 1 /\ NoEntry \in EntryType
  BY LDMThreadsAssumption DEF NoEntry, EntryType
<1>2. TypeOK
  BY <1>1, RxIdleType, CleanerIdleType, ScanIdleType DEF Init, TypeOK
<1>3. IdsRight /\ IteratorsValid /\ LocksNest /\ ErasingAt /\ SendingAt /\ MarkersTracked
  BY DEF Init, IdsRight, IteratorsValid, LocksNest, ErasingAt, SendingAt, MarkersTracked,
         RxIdle, CleanerIdle, ScanIdle
<1> QED
  BY <1>2, <1>3 DEF IInv

LEMMA NextIInv == IInv /\ [Next]_vars => IInv'
<1> SUFFICES ASSUME IInv, [Next]_vars PROVE IInv'
  OBVIOUS
<1>1. CASE UNCHANGED vars
  BY <1>1 DEF vars, IInv, TypeOK, IdsRight, IteratorsValid, LocksNest, ErasingAt, SendingAt,
              MarkersTracked, LowerMap, Present
<1>2. CASE Dead
  BY <1>1, <1>2 DEF Dead
<1>3. CASE \E s \in Stations, gn \in GNValues, lf \in BOOLEAN : Receive(s, gn, lf)
  BY <1>3, ReceiveKeeps
<1>4. CASE RxStep \/ RxLockStep
  BY <1>4, RxStepKeeps, RxLockStepKeeps
<1>5. CASE RaceCrash \/ RehashCrash
  BY <1>5, CrashKeeps DEF RaceCrash, RehashCrash
<1>6. CASE CleanerStep \/ \E u \in UpperKeys : CleanerLockLower(u)
  BY <1>6, CleanerStepKeeps, CleanerLockLowerKeeps
<1>7. CASE \E t \in Scanners : ScanStart(t) \/ ScanStep(t)
  BY <1>7, ScanStartKeeps, ScanStepKeeps
<1>8. CASE \E t \in Scanners, u \in UpperKeys : ScanLockLower(t, u)
  BY <1>8, ScanLockLowerKeeps
<1>9. CASE Tick
  BY <1>9, TickKeeps
<1> QED
  BY <1>1, <1>2, <1>3, <1>4, <1>5, <1>6, <1>7, <1>8, <1>9 DEF Next

LEMMA IInvAlways == Spec => []IInv
<1>1. Init => IInv
  BY InitIInv
<1>2. IInv /\ [Next]_vars => IInv'
  BY NextIInv
<1> QED
  BY <1>1, <1>2, PTL DEF Spec

\* The threads of AIM keep the database, the counter and their own locals well typed.
THEOREM TypeCorrect == Spec => []TypeOK
<1>1. IInv => TypeOK
  BY DEF IInv
<1> QED
  BY <1>1, IInvAlways, PTL

\* No loop of LDMmap.cpp over a lower map ever stands on an entry another thread has
\* erased.
THEOREM IteratorsStayValid == Spec => []IteratorsValid
<1>1. IInv => IteratorsValid
  BY DEF IInv
<1> QED
  BY <1>1, IInvAlways, PTL

\* No vehicle is drawn on the map that the database has forgotten.
THEOREM MarkersAreTracked == Spec => []MarkersTracked
<1>1. IInv => MarkersTracked
  BY DEF IInv
<1> QED
  BY <1>1, IInvAlways, PTL

-----------------------------------------------------------------------------
(* The age check                                                           *)

\* No other vehicle shares the lower map of a vehicle: the cleaner never changes it
\* for the sake of a neighbour.
AloneInLowerMap == \A s, x \in Stations : UpperOf[s] = UpperOf[x] => s = x

\* A message without a GN timestamp is never compared.
AgeAsked == rx.pc \in {"ageCount", "ageRead"} => rx.gn # NoGN

\* Where a message is between the age check and the write of its data.
Checked == {"stamp", "logCount", "logRead", "insert", "upper", "count", "inc", "write"}

\* A message that passed the check is not older than what is stored for its vehicle,
\* unless that is about to be erased.
NewerThanStored ==
    rx.pc \in Checked =>
        \/ entry[rx.s].id # rx.s
        \/ ~ OlderGN(rx.gn, entry[rx.s].gn)
        \/ cleaner.pc = "erase" /\ cleaner.at = rx.s

GNRange == (0 .. GNMod - 1) \cup {NoGN}

\* The difference of two timestamps on their circle.
LEMMA GNDifference ==
  ASSUME NEW a \in 0 .. GNMod - 1, NEW b \in 0 .. GNMod - 1
  PROVE  (a - b) % GNMod = IF a >= b THEN a - b ELSE a - b + GNMod
<1> USE LDMThreadsAssumption
<1>1. CASE a >= b
  <2>1. a - b \in 0 .. GNMod - 1
    BY <1>1
  <2> QED
    BY <1>1, <2>1
<1>2. CASE a < b
  <2> DEFINE d == a - b
             q == d \div GNMod
             r == d % GNMod
  <2>1. d \in Int /\ d < 0 /\ d > -GNMod /\ GNMod \in Nat /\ GNMod > 0
    BY <1>2
  <2>2. q \in Int /\ r \in 0 .. GNMod - 1 /\ d = q * GNMod + r
    BY <2>1
  <2> HIDE DEF q, r, d
  <2>3. q * GNMod > -GNMod - GNMod
    BY <2>1, <2>2
  <2>4. q > -2
    BY <2>1, <2>2, <2>3
  <2>5. q < 0
    BY <2>1, <2>2
  <2>6. q = -1
    BY <2>2, <2>4, <2>5
  <2>7. r = d + GNMod
    BY <2>1, <2>2, <2>6
  <2> QED
    BY <1>2, <2>7 DEF r, d
<1> QED
  BY <1>1, <1>2

\* The comparison of the code decides as the circle does: what it lets pass is not
\* older, what it stops is not newer, and nothing is older than itself.
LEMMA PassesNoOlder ==
  ASSUME NEW g \in GNRange, NEW h \in GNRange, ~ TooOld(g, h)
  PROVE  ~ OlderGN(g, h)
BY GNDifference, LDMThreadsAssumption DEF GNRange, TooOld, OlderGN, NoGN

LEMMA StopsNoNewer ==
  ASSUME NEW g \in GNRange, NEW h \in GNRange, g # NoGN, TooOld(g, h)
  PROVE  ~ OlderGN(h, g)
BY GNDifference, LDMThreadsAssumption DEF GNRange, TooOld, OlderGN, NoGN

LEMMA NotOlderThanItself ==
  ASSUME NEW g \in GNRange
  PROVE  ~ OlderGN(g, g)
BY GNDifference, LDMThreadsAssumption DEF GNRange, OlderGN, NoGN

LEMMA GNTypes ==
  ASSUME IInv, NEW s \in Stations
  PROVE  /\ rx.gn \in GNRange /\ entry[s].gn \in GNRange
         /\ NoEntry.id # s /\ Ghost.id # s /\ Ghost.gn \in GNRange
         /\ entry[s].id = s => entry[s] # NoEntry
<1>1. rx.gn \in GNValues \cup {0} /\ entry[s].gn \in GNValues \cup {0}
  BY DEF IInv, TypeOK, RxType, EntryType
<1>2. GNValues \cup {0} \subseteq GNRange
  BY LDMThreadsAssumption DEF GNRange
<1>3. NoEntry.id # s /\ Ghost.id # s /\ Ghost.gn = 0
  BY LDMThreadsAssumption DEF NoEntry, Ghost, NoStation, ZeroId
<1> QED
  BY <1>1, <1>2, <1>3

\* While the cleaner erases from the lower map of a vehicle that is alone in it, it
\* erases that vehicle.
LEMMA ErasesItself ==
  ASSUME IInv, AloneInLowerMap, NEW s \in Stations, BeingChanged(UpperOf[s])
  PROVE  cleaner.pc = "erase" /\ cleaner.at = s
BY DEF IInv, ErasingAt, IteratorsValid, LowerMap, Present, BeingChanged, AloneInLowerMap

\* A lookup makes an entry where there was none and leaves the others as they were.
LEMMA LookupKeepsData ==
  ASSUME IInv, NEW at \in RxPCs \ {"idle"}, NEW next, LookupRead(at, next), NEW s \in Stations
  PROVE  /\ entry'[s] = entry[s] \/ entry'[s] = Ghost
         /\ entry'[s].id = s => entry'[s] = entry[s] /\ entry[s].id = s
BY GNTypes, RxStation DEF LookupRead, IInv, TypeOK

-----------------------------------------------------------------------------
(* What the check found stays true until the write                         *)

LEMMA AgeAskedStep ==
  ASSUME IInv, AgeAsked, [Next]_vars
  PROVE  AgeAsked'
<1>0. UNCHANGED rx => AgeAsked'
  BY DEF AgeAsked
<1>1. CASE UNCHANGED vars \/ Dead
  BY <1>0, <1>1 DEF vars, Dead
<1>2. CASE \E s \in Stations, gn \in GNValues, lf \in BOOLEAN : Receive(s, gn, lf)
  BY <1>2 DEF Receive, AgeAsked, RxIdle
<1>3. CASE RxStep
  <2>0. rx \in RxType
    BY DEF IInv, TypeOK
  <2>1. CASE AgeEnter \/ AgeCount
    BY <2>0, <2>1 DEF AgeEnter, AgeCount, LookupCount, RxGoto, RxType, AgeAsked
  <2>2. CASE LfCount \/ LogCount \/ Stamp
    BY <2>0, <2>2 DEF LfCount, LogCount, LookupCount, Stamp, RxGoto, RxType, AgeAsked
  <2>3. CASE InsertTest \/ InsertCount
    BY <2>0, <2>3 DEF InsertTest, InsertCount, RxType, AgeAsked
  <2>4. CASE InsertIncrement \/ Finish
    BY <2>0, <2>4 DEF InsertIncrement, Finish, RxIdle, RxType, AgeAsked
  <2>5. CASE InsertPoint
    BY <1>0, <2>0, <2>5 DEF InsertPoint, Crash, RxGoto, RxType, AgeAsked
  <2> QED
    BY <1>3, <2>1, <2>2, <2>3, <2>4, <2>5 DEF RxStep
<1>4. CASE RxLockStep
  BY <1>4 DEF IInv, TypeOK, RxType, AgeAsked, RxLockStep, LfRead, AgeRead, LogRead, InsertUpper,
     InsertWrite, LookupRead
<1>5. CASE RaceCrash \/ RehashCrash \/ Tick
  BY <1>0, <1>5 DEF RaceCrash, RehashCrash, Crash, Tick
<1>6. CASE CleanerStep \/ \E u \in UpperKeys : CleanerLockLower(u)
  BY <1>0, <1>6 DEF CleanerStep, CleanerStart, CleanerLockMain, CleanerDecrement,
     CleanerUnlockLower, CleanerDone, CleanerErase, CleanerCallback, CleanerKeep, CleanerLockLower
<1>7. CASE \E t \in Scanners : ScanStart(t) \/ ScanStep(t)
  BY <1>0, <1>7 DEF ScanStart, ScanStep, ScanLockMain, ScanUnlockLower, ScanDone, UpdateSend,
     SelectVisit, UpdateVisit
<1>8. CASE \E t \in Scanners, u \in UpperKeys : ScanLockLower(t, u)
  BY <1>0, <1>8 DEF ScanLockLower
<1> QED
  BY <1>1, <1>2, <1>3, <1>4, <1>5, <1>6, <1>7, <1>8 DEF Next

\* The thread moves on, or the cleaner does before it erases.
LEMMA NewerFrame ==
  ASSUME IInv, NewerThanStored, UNCHANGED entry, cleaner.pc = "erase" => UNCHANGED cleaner,
         rx'.pc \in Checked => rx.pc \in Checked /\ rx'.s = rx.s /\ rx'.gn = rx.gn
  PROVE  NewerThanStored'
BY DEF NewerThanStored

LEMMA NewerRxStep ==
  ASSUME IInv, NewerThanStored, AgeCheck, AloneInLowerMap, RxStep
  PROVE  NewerThanStored'
<1> USE DEF RxGoto
<1>0. rx \in RxType
  BY DEF IInv, TypeOK
<1>1. CASE AgeEnter
  <2>1. rx.pc = "age" /\ (rx'.pc \in Checked => rx'.gn = NoGN)
    BY <1>0, <1>1 DEF AgeEnter, RxType, Checked
  <2> QED
    BY <2>1 DEF NewerThanStored, OlderGN
<1>2. CASE AgeCount
  <2> SUFFICES ASSUME rx'.pc \in Checked PROVE NewerThanStored'
    BY DEF NewerThanStored
  <2>1. rx.s \in Stations /\ rx'.s = rx.s /\ UNCHANGED <<entry, cleaner>>
    BY <1>0, <1>2, RxStation DEF AgeCount, LookupCount, RxType
  <2>2. FALSE \in CountOutcomes(rx.s)
    <3>1. PICK hit \in CountOutcomes(rx.s) : rx' = [rx EXCEPT !.pc = IF hit THEN "ageRead" ELSE "stamp"]
      BY <1>2 DEF AgeCount, LookupCount
    <3>2. hit \in BOOLEAN
      BY DEF CountOutcomes
    <3>3. hit # TRUE
      BY <1>0, <3>1 DEF RxType, Checked
    <3> QED
      BY <3>2, <3>3
  <2>3. entry[rx.s] = NoEntry \/ BeingChanged(UpperOf[rx.s])
    BY <2>1, <2>2 DEF CountOutcomes, Present
  <2> QED
    BY <2>1, <2>3, GNTypes, ErasesItself DEF NewerThanStored
<1>3. CASE LfCount \/ Stamp \/ LogCount
  <2>1. /\ rx'.pc \in Checked => rx.pc \in Checked /\ rx'.s = rx.s /\ rx'.gn = rx.gn
        /\ UNCHANGED <<entry, cleaner>>
    BY <1>0, <1>3 DEF LfCount, LogCount, Stamp, LookupCount, RxType, Checked
  <2> QED
    BY <2>1, NewerFrame
<1>4. CASE InsertTest \/ InsertIncrement \/ InsertPoint \/ Finish
  <2>1. rx'.pc \in Checked => rx.pc \in Checked /\ rx'.s = rx.s /\ rx'.gn = rx.gn
    <3>1. CASE InsertTest
      BY <1>0, <3>1 DEF InsertTest, RxType, Checked
    <3>2. CASE InsertIncrement
      BY <1>0, <3>2 DEF InsertIncrement, RxType, Checked
    <3>3. CASE InsertPoint
      BY <1>0, <3>3 DEF InsertPoint, Crash, RxType, Checked
    <3>4. CASE Finish
      BY <3>4 DEF Finish, RxIdle, Checked
    <3> QED
      BY <1>4, <3>1, <3>2, <3>3, <3>4
  <2>2. UNCHANGED <<entry, cleaner>>
    BY <1>4 DEF InsertTest, InsertIncrement, InsertPoint, Finish, Crash
  <2> QED
    BY <2>1, <2>2, NewerFrame
<1>5. CASE InsertCount
  <2>1. /\ rx.pc \in Checked /\ rx'.s = rx.s /\ rx'.gn = rx.gn
        /\ UNCHANGED <<entry, cleaner>>
    BY <1>0, <1>5 DEF InsertCount, RxType, Checked
  <2> QED
    BY <2>1, NewerFrame
<1> QED
  BY <1>1, <1>2, <1>3, <1>4, <1>5 DEF RxStep

LEMMA NewerRxLockStep ==
  ASSUME IInv, NewerThanStored, Logging, RxLockStep
  PROVE  NewerThanStored'
<1>0. rx \in RxType
  BY DEF IInv, TypeOK
<1>1. CASE LfRead \/ InsertUpper \/ InsertWrite
  <2>1. rx'.pc \notin Checked
    BY <1>0, <1>1 DEF LfRead, LookupRead, InsertUpper, InsertWrite, RxType, Checked
  <2> QED
    BY <2>1 DEF NewerThanStored
<1>2. CASE AgeRead
  <2> SUFFICES ASSUME rx'.pc \in Checked PROVE NewerThanStored'
    BY DEF NewerThanStored
  <2>1. rx.s \in Stations /\ rx'.s = rx.s /\ rx'.gn = rx.gn
    BY <1>0, <1>2, RxStation DEF AgeRead, LookupRead, RxType
  <2>2. ~ TooOld(rx.gn, Looked(rx.s).gn)
    BY <1>0, <1>2 DEF AgeRead, LookupRead, Discards, Checked, RxType
  <2>3. Looked(rx.s).gn \in GNRange /\ rx.gn \in GNRange
    BY <2>1, GNTypes DEF Looked
  <2>4. ~ OlderGN(rx.gn, Looked(rx.s).gn)
    BY <2>2, <2>3, PassesNoOlder
  <2>5. entry'[rx.s].id = rx.s => Looked(rx.s) = entry'[rx.s]
    BY <1>2, <2>1, LookupKeepsData, GNTypes DEF AgeRead, RxPCs, Looked
  <2> QED
    BY <2>1, <2>4, <2>5 DEF NewerThanStored
<1>3. CASE LogRead
  <2>1. /\ rx.pc \in Checked /\ rx.s \in Stations /\ rx'.s = rx.s /\ rx'.gn = rx.gn
        /\ UNCHANGED cleaner
    BY <1>0, <1>3, RxStation DEF LogRead, LookupRead, RxType, Checked
  <2>2. entry'[rx.s].id = rx.s => entry'[rx.s] = entry[rx.s] /\ entry[rx.s].id = rx.s
    BY <1>3, <2>1, LookupKeepsData DEF LogRead, RxPCs
  <2> QED
    BY <2>1, <2>2 DEF NewerThanStored
<1> QED
  BY <1>1, <1>2, <1>3 DEF RxLockStep

LEMMA NewerCleanerErase ==
  ASSUME IInv, NewerThanStored, CleanerErase
  PROVE  NewerThanStored'
<1> SUFFICES ASSUME rx'.pc \in Checked PROVE NewerThanStored'
  BY DEF NewerThanStored
<1>1. /\ UNCHANGED rx /\ rx.pc # "idle" /\ cleaner.pc = "erase"
      /\ entry' = [entry EXCEPT ![cleaner.at] = NoEntry]
  BY DEF CleanerErase, Checked
<1>2. rx.s \in Stations /\ entry \in [Stations -> EntryType]
  BY <1>1, RxStation DEF IInv, TypeOK
<1>3. CASE cleaner.at = rx.s
  BY <1>1, <1>2, <1>3, GNTypes DEF NewerThanStored
<1>4. CASE cleaner.at # rx.s
  BY <1>1, <1>2, <1>4 DEF NewerThanStored
<1> QED
  BY <1>3, <1>4

LEMMA NewerStep ==
  ASSUME IInv, NewerThanStored, AgeCheck, Logging, AloneInLowerMap, [Next]_vars
  PROVE  NewerThanStored'
<1>0. UNCHANGED <<rx, entry>> /\ (cleaner.pc = "erase" => UNCHANGED cleaner) => NewerThanStored'
  BY NewerFrame
<1>1. CASE UNCHANGED vars \/ Dead
  BY <1>0, <1>1 DEF vars, Dead
<1>2. CASE \E s \in Stations, gn \in GNValues, lf \in BOOLEAN : Receive(s, gn, lf)
  <2>1. rx'.pc \notin Checked
    BY <1>2 DEF Receive, Checked, RxIdle
  <2> QED
    BY <2>1 DEF NewerThanStored
<1>3. CASE RxStep \/ RxLockStep
  BY <1>3, NewerRxStep, NewerRxLockStep
<1>4. CASE RaceCrash \/ RehashCrash \/ Tick
  BY <1>0, <1>4 DEF RaceCrash, RehashCrash, Crash, Tick
<1>5. CASE CleanerErase
  BY <1>5, NewerCleanerErase
<1>6. CASE CleanerStep /\ ~ CleanerErase
  BY <1>0, <1>6 DEF CleanerStep, CleanerStart, CleanerLockMain, CleanerDecrement,
     CleanerUnlockLower, CleanerDone, CleanerCallback, CleanerKeep
<1>7. CASE \E u \in UpperKeys : CleanerLockLower(u)
  BY <1>0, <1>7 DEF CleanerLockLower
<1>8. CASE \E t \in Scanners : ScanStart(t) \/ ScanStep(t)
  BY <1>0, <1>8 DEF ScanStart, ScanStep, ScanLockMain, ScanUnlockLower, ScanDone, UpdateSend,
     SelectVisit, UpdateVisit
<1>9. CASE \E t \in Scanners, u \in UpperKeys : ScanLockLower(t, u)
  BY <1>0, <1>9 DEF ScanLockLower
<1> QED
  BY <1>1, <1>2, <1>3, <1>4, <1>5, <1>6, <1>7, <1>8, <1>9 DEF Next

-----------------------------------------------------------------------------
(* The theorems about the age check                                        *)

\* A message is dropped in the step that reads what is stored, and nowhere else.
LEMMA DroppedByCheck ==
  ASSUME IInv, [Next]_vars, rx.pc = "ageRead", rx'.pc = "idle"
  PROVE  AgeRead
<1>0. ~ UNCHANGED rx
  OBVIOUS
<1>1. ~ RxStep
  BY <1>0 DEF RxStep, LfCount, AgeEnter, AgeCount, Stamp, LogCount, InsertTest, InsertCount,
     InsertIncrement, InsertPoint, Finish, LookupCount
<1>2. RxLockStep => AgeRead
  BY DEF RxLockStep, LfRead, LogRead, LookupRead, InsertUpper, InsertWrite
<1>3. ~ \E s \in Stations, gn \in GNValues, lf \in BOOLEAN : Receive(s, gn, lf)
  BY DEF Receive
<1>4. ~ (UNCHANGED vars \/ Dead \/ RaceCrash \/ RehashCrash \/ Tick)
  BY <1>0 DEF vars, Dead, RaceCrash, RehashCrash, Crash, Tick
<1>5. ~ (CleanerStep \/ \E u \in UpperKeys : CleanerLockLower(u))
  BY <1>0 DEF CleanerStep, CleanerStart, CleanerLockMain, CleanerDecrement,
     CleanerUnlockLower, CleanerDone, CleanerErase, CleanerCallback, CleanerKeep, CleanerLockLower
<1>6. ~ \E t \in Scanners : ScanStart(t) \/ ScanStep(t)
  BY <1>0 DEF ScanStart, ScanStep, ScanLockMain, ScanUnlockLower, ScanDone, UpdateSend,
     SelectVisit, UpdateVisit
<1>7. ~ \E t \in Scanners, u \in UpperKeys : ScanLockLower(t, u)
  BY <1>0 DEF ScanLockLower
<1> QED
  BY <1>1, <1>2, <1>3, <1>4, <1>5, <1>6, <1>7 DEF Next

LEMMA KeepsNewStep ==
  ASSUME IInv, AgeAsked, [Next]_vars, rx.pc = "ageRead", rx'.pc = "idle", entry[rx.s].id = rx.s
  PROVE  ~ OlderGN(entry[rx.s].gn, rx.gn)
<1>1. rx \in RxType /\ rx.s \in Stations /\ rx.gn # NoGN
  BY RxStation DEF AgeAsked
<1>2. AgeRead /\ Looked(rx.s) = entry[rx.s]
  BY <1>1, DroppedByCheck, GNTypes DEF Looked
<1>3. TooOld(rx.gn, entry[rx.s].gn)
  BY <1>1, <1>2 DEF AgeRead, LookupRead, Discards, RxType
<1> QED
  BY <1>1, <1>3, GNTypes, StopsNoNewer

\* The age check never drops data stamped later than what is stored for the same
\* vehicle by no more than the gap, wherever on their circle the two timestamps lie:
\* for any modulus, any gap below its half, and whatever the other threads do.
THEOREM NewDataKept == Spec => AgeCheckKeepsNew
<1>1. Init => AgeAsked
  BY DEF Init, RxIdle, AgeAsked
<1>2. IInv /\ AgeAsked /\ [Next]_vars => AgeAsked'
  BY AgeAskedStep
<1>3. IInv /\ AgeAsked /\ [Next]_vars
        => [rx.pc = "ageRead" /\ rx'.pc = "idle" /\ entry[rx.s].id = rx.s
              => ~ OlderGN(entry[rx.s].gn, rx.gn)]_vars
  BY KeepsNewStep
<1> QED
  BY <1>1, <1>2, <1>3, IInvAlways, PTL DEF Spec, AgeCheckKeepsNew

\* Who writes an entry that was the vehicle's and still is: the insertion alone.
LEMMA WritesAreNewer ==
  ASSUME IInv, NewerThanStored, [Next]_vars, NEW s \in Stations,
         entry[s].id = s, entry'[s].id = s
  PROVE  ~ OlderGN(entry'[s].gn, entry[s].gn)
<1>0. entry \in [Stations -> EntryType] /\ entry[s].gn \in GNRange
  BY GNTypes DEF IInv, TypeOK
<1>1. entry'[s] = entry[s] => ~ OlderGN(entry'[s].gn, entry[s].gn)
  BY <1>0, NotOlderThanItself
<1>2. CASE LfRead \/ AgeRead \/ LogRead
  <2>1. entry'[s] = entry[s]
    BY <1>2, LookupKeepsData DEF LfRead, AgeRead, LogRead, RxPCs
  <2> QED
    BY <1>1, <2>1
<1>3. CASE InsertUpper \/ InsertWrite
  <2>1. rx.s \in Stations /\ rx.pc \in Checked
    BY <1>3, RxStation DEF InsertUpper, InsertWrite, Checked
  <2>2. /\ entry'[rx.s].gn = rx.gn
        /\ \A x \in Stations : x # rx.s => entry'[x] = entry[x]
    BY <1>0, <1>3, <2>1 DEF InsertUpper, InsertWrite, Received
  <2>3. ~ (cleaner.pc = "erase" /\ cleaner.at = rx.s)
    <3> SUFFICES ASSUME cleaner.pc = "erase", cleaner.at = rx.s PROVE FALSE
      OBVIOUS
    <3>1. cleaner.cur = UpperOf[rx.s]
      BY DEF IInv, ErasingAt, IteratorsValid, LowerMap
    <3> QED
      BY <1>3, <3>1 DEF InsertUpper, InsertWrite, MainReaders, LockedExclusive
  <2> QED
    BY <1>1, <2>1, <2>2, <2>3 DEF NewerThanStored
<1>4. CASE CleanerErase
  <2>1. entry'[s] = entry[s] \/ entry'[s] = NoEntry
    BY <1>0, <1>4 DEF CleanerErase
  <2> QED
    BY <1>1, <2>1, GNTypes
<1>5. CASE CleanerStep /\ ~ CleanerErase
  BY <1>1, <1>5 DEF CleanerStep, CleanerStart, CleanerLockMain, CleanerDecrement,
     CleanerUnlockLower, CleanerDone, CleanerCallback, CleanerKeep
<1>6. CASE RxStep
  BY <1>1, <1>6 DEF RxStep, LfCount, AgeEnter, AgeCount, Stamp, LogCount, InsertTest, InsertCount,
     InsertIncrement, InsertPoint, Finish, LookupCount, RxGoto, Crash
<1>7. CASE UNCHANGED vars \/ Dead \/ RaceCrash \/ RehashCrash \/ Tick
  BY <1>1, <1>7 DEF vars, Dead, RaceCrash, RehashCrash, Crash, Tick
<1>8. CASE \E x \in Stations, gn \in GNValues, lf \in BOOLEAN : Receive(x, gn, lf)
  BY <1>1, <1>8 DEF Receive
<1>9. CASE \E u \in UpperKeys : CleanerLockLower(u)
  BY <1>1, <1>9 DEF CleanerLockLower
<1>10. CASE \E t \in Scanners : ScanStart(t) \/ ScanStep(t)
  BY <1>1, <1>10 DEF ScanStart, ScanStep, ScanLockMain, ScanUnlockLower, ScanDone, UpdateSend,
     SelectVisit, UpdateVisit
<1>11. CASE \E t \in Scanners, u \in UpperKeys : ScanLockLower(t, u)
  BY <1>1, <1>11 DEF ScanLockLower
<1> QED
  BY <1>2, <1>3, <1>4, <1>5, <1>6, <1>7, <1>8, <1>9, <1>10, <1>11 DEF Next, RxLockStep

\* With the age check on and a log file, the data of a vehicle that is alone in its
\* lower map is never replaced by data its sender had stamped earlier by less than the
\* gap, although the check and the write are steps apart and the cleaner may erase the
\* entry in between.  Without any of the three hypotheses it is false.
THEOREM AgeCheckHolds ==
  ASSUME AgeCheck, Logging, AloneInLowerMap
  PROVE  Spec => AgeCheckProtects
<1>1. Init => NewerThanStored
  BY DEF Init, RxIdle, NewerThanStored, Checked
<1>2. IInv /\ NewerThanStored /\ [Next]_vars => NewerThanStored'
  BY NewerStep
<1>3. IInv /\ NewerThanStored /\ [Next]_vars
        => [\A s \in Stations :
              entry[s].id = s /\ entry'[s].id = s => ~ OlderGN(entry'[s].gn, entry[s].gn)]_vars
  BY WritesAreNewer
<1> QED
  BY <1>1, <1>2, <1>3, IInvAlways, PTL DEF Spec, AgeCheckProtects
=============================================================================
