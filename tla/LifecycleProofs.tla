--------------------------- MODULE LifecycleProofs ---------------------------
(***************************************************************************)
(* Proofs of the invariants of Lifecycle: the types, that the database is  *)
(* cleared by the last thread that can use it, and that the cleaner sweeps *)
(* after the map was drawn.                                                *)
(***************************************************************************)
EXTENDS Lifecycle, TLAPS

\* What main knows of the other threads where it stands.
JoinsKeep ==
    /\ main \in {"joinViz", "clear", "return"} => cleaner = "done"
    /\ main \in {"clear", "return"} => viz = "done"
    /\ jsonRunning => main = "receive"
    /\ dbCleared => main = "return"

\* The visualizer is there before the notification, and the cleaner past its wait after.
NotifiedAfterMap ==
    /\ viz = "notify" => globVehVizPtr # "null"
    /\ cleaner \in {"loop", "sweep"} /\ ~ spurious => globVehVizPtr # "null"

IInv == TypeOK /\ JoinsKeep /\ NotifiedAfterMap

\* The inductive invariant holds at the start.
LEMMA InitIInv == Init => IInv
BY DEF Init, IInv, TypeOK, JoinsKeep, NotifiedAfterMap

\* The inductive invariant implies what is to be shown.
LEMMA IInvSuffices == IInv => TypeOK /\ ClearedAlone /\ SweepAfterMap
BY DEF IInv, TypeOK, JoinsKeep, NotifiedAfterMap, ClearedAlone, SweepAfterMap

\* No step of main, its errors included, breaks it.
LEMMA MainKeeps == IInv /\ MainStep => IInv'
<1> SUFFICES ASSUME IInv, MainStep PROVE IInv'
  OBVIOUS
<1> USE DEF IInv, TypeOK, JoinsKeep, NotifiedAfterMap, MainGoto, MainFails, ExitFailure
<1>1. CASE CreateCleaner
  BY <1>1 DEF CreateCleaner
<1>2. CASE CreateViz
  BY <1>2 DEF CreateViz
<1>3. CASE OpenSocket
  <2>1. CASE MainGoto("socket", "check")
    BY <2>1
  <2>2. CASE MainFails("socket")
    BY <2>2
  <2> QED
    BY <1>3, <2>1, <2>2 DEF OpenSocket
<1>4. CASE CheckFlag
  BY <1>4 DEF CheckFlag
<1>5. CASE Bind
  <2>1. CASE MainGoto("bind", "json")
    BY <2>1
  <2>2. CASE MainFails("bind")
    BY <2>2
  <2>3. CASE ExitFailure
    BY <2>3
  <2> QED
    BY <1>5, <2>1, <2>2, <2>3 DEF Bind
<1>6. CASE StartJSON
  <2>1. CASE MainFails("json")
    BY <2>1
  <2>2. CASE main = "json" /\ main' = "receive" /\ jsonRunning' = TRUE
             /\ UNCHANGED <<cleaner, viz, terminatorFlag, globVehVizPtr, dbCleared, spurious, ended>>
    <3>1. TypeOK'
      BY <2>2
    <3>2. JoinsKeep'
      BY <2>2
    <3>3. NotifiedAfterMap'
      BY <2>2
    <3> QED
      BY <3>1, <3>2, <3>3
  <2> QED
    BY <1>6, <2>1, <2>2 DEF StartJSON
<1>7. CASE JoinCleaner
  BY <1>7 DEF JoinCleaner
<1>8. CASE JoinViz
  BY <1>8 DEF JoinViz
<1>9. CASE ClearDatabase
  BY <1>9 DEF ClearDatabase
<1>10. CASE Return
  BY <1>10 DEF Return
<1> QED
  BY <1>1, <1>2, <1>3, <1>4, <1>5, <1>6, <1>7, <1>8, <1>9, <1>10 DEF MainStep

\* No step of the cleaner breaks it.
LEMMA CleanerKeeps ==
    IInv /\ (CleanerStep \/ SpuriousWakeup \/ CleanerSweep \/ CleanerCrash) => IInv'
<1> SUFFICES ASSUME IInv, CleanerStep \/ SpuriousWakeup \/ CleanerSweep \/ CleanerCrash
             PROVE  IInv'
  OBVIOUS
<1> USE DEF IInv, TypeOK, JoinsKeep, NotifiedAfterMap, CleanerGoto
<1>1. CASE CleanerTimer
  <2>1. CASE CleanerGoto("timer", "wait")
    BY <2>1
  <2>2. CASE CleanerTimerFails
    BY <2>2 DEF CleanerTimerFails
  <2> QED
    BY <1>1, <2>1, <2>2 DEF CleanerTimer
<1>2. CASE CleanerWait
  BY <1>2 DEF CleanerWait
<1>3. CASE CleanerSwept
  BY <1>3 DEF CleanerSwept
<1>4. CASE CleanerLeave
  BY <1>4 DEF CleanerLeave
<1>5. CASE SpuriousWakeup
  BY <1>5 DEF SpuriousWakeup
<1>6. CASE CleanerSweep
  BY <1>6 DEF CleanerSweep
<1>7. CASE CleanerCrash
  BY <1>7 DEF CleanerCrash
<1> QED
  BY <1>1, <1>2, <1>3, <1>4, <1>5, <1>6, <1>7 DEF CleanerStep

\* No step of the visualizer breaks it: the notification comes after the pointer is set.
LEMMA VizKeeps == IInv /\ (VizStep \/ VizUpdate) => IInv'
<1> SUFFICES ASSUME IInv, VizStep \/ VizUpdate PROVE IInv'
  OBVIOUS
<1> USE DEF IInv, TypeOK, JoinsKeep, NotifiedAfterMap, VizGoto
<1>1. CASE VizStart
  BY <1>1 DEF VizStart, ExitFailure
<1>2. CASE VizPublish
  BY <1>2 DEF VizPublish
<1>3. CASE VizNotify
  BY <1>3 DEF VizNotify
<1>4. CASE VizTimer
  <2>1. CASE VizGoto("timer", "loop")
    BY <2>1
  <2>2. CASE VizTimerFails
    BY <2>2 DEF VizTimerFails
  <2> QED
    BY <1>4, <2>1, <2>2 DEF VizTimer
<1>5. CASE VizUpdated
  BY <1>5 DEF VizUpdated
<1>6. CASE VizStop
  BY <1>6 DEF VizStop
<1>7. CASE VizExit
  BY <1>7 DEF VizExit
<1>8. CASE VizUpdate
  BY <1>8 DEF VizUpdate
<1> QED
  BY <1>1, <1>2, <1>3, <1>4, <1>5, <1>6, <1>7, <1>8 DEF VizStep

\* Nor does the end of the thread of the JSON server.
LEMMA JSONDiesKeeps == IInv /\ JSONDies => IInv'
<1> SUFFICES ASSUME IInv, jsonRunning, jsonRunning' = FALSE,
                    UNCHANGED <<main, cleaner, viz, terminatorFlag, globVehVizPtr,
                                dbCleared, spurious, ended>>
             PROVE  IInv'
  BY DEF JSONDies
<1>1. TypeOK'
  <2>1. jsonRunning' \in BOOLEAN
    OBVIOUS
  <2>2. TypeOK
    BY DEF IInv
  <2> QED
    BY <2>1, <2>2 DEF TypeOK
<1>2. JoinsKeep'
  BY DEF IInv, JoinsKeep
<1>3. NotifiedAfterMap'
  BY DEF IInv, NotifiedAfterMap
<1> QED
  BY <1>1, <1>2, <1>3 DEF IInv

\* IInv is inductive.
LEMMA NextIInv == IInv /\ [Next]_vars => IInv'
<1> SUFFICES ASSUME IInv, [Next]_vars PROVE IInv'
  OBVIOUS
<1>1. CASE JSONDies
  BY <1>1, JSONDiesKeeps
<1>2. CASE UNCHANGED vars
  BY <1>2 DEF vars, IInv, TypeOK, JoinsKeep, NotifiedAfterMap
<1> QED
  BY <1>1, <1>2, MainKeeps, CleanerKeeps, VizKeeps DEF Next, Over

\* IInv is an invariant.
LEMMA Invariant == Spec => []IInv
BY InitIInv, NextIInv, PTL DEF Spec

\* main has created a thread before it can be anywhere, on every path of main.cpp.
THEOREM TypeCorrect == Spec => []TypeOK
BY Invariant, IInvSuffices, PTL

\* main clears the database when the cleaner, the visualizer and the JSON server are
\* through with it, whatever failed before.
THEOREM ClearsAlone == Spec => []ClearedAlone
BY Invariant, IInvSuffices, PTL

\* The cleaner sweeps after the map is drawn, unless it was woken without a notification.
THEOREM SweepsAfterMap == Spec => []SweepAfterMap
BY Invariant, IInvSuffices, PTL
=============================================================================
