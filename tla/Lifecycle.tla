------------------------------ MODULE Lifecycle ------------------------------
(***************************************************************************)
(* Start and end of the AIM process (src/src/main.cpp): main, the thread   *)
(* of the database cleaner and the thread of the vehicle visualizer, the   *)
(* condition variable that holds the cleaner back until the visualizer is  *)
(* there, and terminatorFlag.  What the cleaner and the visualizer do to   *)
(* the database is the business of LDMThreads.                             *)
(*                                                                         *)
(* Nothing in the program calls stopReception or sets m_stopflg, so the    *)
(* reception, once started, has no end.                                    *)
(***************************************************************************)

VARIABLES
    main,               \* where the main thread stands
    cleaner,            \* where DBcleaner_callback stands
    viz,                \* where VehVizUpdater_callback stands
    terminatorFlag,
    globVehVizPtr,      \* what the global pointer points to
    jsonRunning,        \* m_thread_running of the JSON server
    dbCleared,          \* db_ptr->clear() was called
    spurious,           \* the cleaner's wait ended without a notification
    ended               \* how the process ended, "no" as long as it runs

vars == <<main, cleaner, viz, terminatorFlag, globVehVizPtr, jsonRunning, dbCleared, spurious, ended>>

Running == ended = "no"

\* exit(EXIT_FAILURE), called by any thread.
ExitFailure ==
    /\ ended' = "failure"
    /\ UNCHANGED <<main, cleaner, viz, terminatorFlag, globVehVizPtr, jsonRunning, dbCleared, spurious>>

-----------------------------------------------------------------------------
(* main                                                                    *)

MainGoto(from, to) ==
    /\ main = from
    /\ main' = to
    /\ UNCHANGED <<cleaner, viz, terminatorFlag, globVehVizPtr, jsonRunning, dbCleared, spurious, ended>>

MainFailsQuietly(from) == MainGoto(from, "joinCleaner")

\* An error of the start: the flag is raised and main goes to its end.
MainFails(from) ==
    /\ main = from
    /\ main' = "joinCleaner"
    /\ terminatorFlag' = TRUE
    /\ UNCHANGED <<cleaner, viz, globVehVizPtr, jsonRunning, dbCleared, spurious, ended>>

CreateNoCleaner == MainGoto("createCleaner", "createViz")

CreateCleaner ==
    /\ main = "createCleaner"
    /\ main' = "createViz"
    /\ cleaner' = "timer"
    /\ UNCHANGED <<viz, terminatorFlag, globVehVizPtr, jsonRunning, dbCleared, spurious, ended>>

CreateViz ==
    /\ main = "createViz"
    /\ main' = "socket"
    /\ viz' = "start"
    /\ UNCHANGED <<cleaner, terminatorFlag, globVehVizPtr, jsonRunning, dbCleared, spurious, ended>>

\* The raw socket and the MAC address of its interface.
OpenSocket == MainGoto("socket", "check") \/ MainFails("socket")

\* The one place where main looks at what the other threads said of themselves.
CheckFlag == MainGoto("check", IF terminatorFlag THEN "joinCleaner" ELSE "bind")

\* The index of the interface, the binding, and gpsd when it is asked for.
Bind ==
    \/ MainGoto("bind", "json")
    \/ MainFails("bind")
    \/ main = "bind" /\ ExitFailure

StartJSON ==
    \/ MainFails("json")
    \/ /\ main = "json"
       /\ main' = "receive"
       /\ jsonRunning' = TRUE
       /\ UNCHANGED <<cleaner, viz, terminatorFlag, globVehVizPtr, dbCleared, spurious, ended>>

JoinCleaner == cleaner = "done" /\ MainGoto("joinCleaner", "joinViz")

JoinNoViz == MainGoto("joinViz", "clear")

JoinViz == viz = "done" /\ MainGoto("joinViz", "clear")

ClearDatabase ==
    /\ main = "clear"
    /\ main' = "return"
    /\ dbCleared' = TRUE
    /\ UNCHANGED <<cleaner, viz, terminatorFlag, globVehVizPtr, jsonRunning, spurious, ended>>

Return ==
    /\ main = "return"
    /\ ended' = "returned"
    /\ UNCHANGED <<main, cleaner, viz, terminatorFlag, globVehVizPtr, jsonRunning, dbCleared, spurious>>

MainStep ==
    \/ CreateCleaner \/ CreateViz \/ OpenSocket \/ CheckFlag \/ Bind \/ StartJSON
    \/ JoinCleaner \/ JoinViz \/ ClearDatabase \/ Return

\* select() of the JSON server fails: its thread says so and exits.
JSONDies ==
    /\ jsonRunning
    /\ jsonRunning' = FALSE
    /\ UNCHANGED <<main, cleaner, viz, terminatorFlag, globVehVizPtr, dbCleared, spurious, ended>>

-----------------------------------------------------------------------------
(* The cleaner                                                             *)

CleanerGoto(from, to) ==
    /\ cleaner = from
    /\ cleaner' = to
    /\ UNCHANGED <<main, viz, terminatorFlag, globVehVizPtr, jsonRunning, dbCleared, spurious, ended>>

CleanerTimerFails ==
    /\ cleaner = "timer"
    /\ cleaner' = "done"
    /\ terminatorFlag' = TRUE
    /\ UNCHANGED <<main, viz, globVehVizPtr, jsonRunning, dbCleared, spurious, ended>>

CleanerTimer == CleanerGoto("timer", "wait") \/ CleanerTimerFails

CleanerSkipsWait == CleanerGoto("wait", "loop")

\* synccv.wait, with no predicate: from here on a notification is heard.
CleanerWait == CleanerGoto("wait", "waiting")

\* wait may also return without one.
SpuriousWakeup ==
    /\ cleaner = "waiting"
    /\ cleaner' = "loop"
    /\ spurious' = TRUE
    /\ UNCHANGED <<main, viz, terminatorFlag, globVehVizPtr, jsonRunning, dbCleared, ended>>

CleanerLeave == terminatorFlag /\ CleanerGoto("loop", "done")

\* The timer fired.
CleanerSweep == ~ terminatorFlag /\ CleanerGoto("loop", "sweep")

CleanerSwept == CleanerGoto("sweep", "loop")

\* sendObjectClean through a pointer to no object, for an entry that is too old.
CleanerCrash ==
    /\ cleaner = "sweep"
    /\ globVehVizPtr # "object"
    /\ ended' = "crash"
    /\ UNCHANGED <<main, cleaner, viz, terminatorFlag, globVehVizPtr, jsonRunning, dbCleared, spurious>>

CleanerStep == CleanerTimer \/ CleanerWait \/ CleanerSwept \/ CleanerLeave

-----------------------------------------------------------------------------
(* The visualizer                                                          *)

VizGoto(from, to) ==
    /\ viz = from
    /\ viz' = to
    /\ UNCHANGED <<main, cleaner, terminatorFlag, globVehVizPtr, jsonRunning, dbCleared, spurious, ended>>

\* startServer, connectToServer and sendMapDraw.  They end the process on an error,
\* and wait on a FIFO for ever when the Node.js server ends before it writes there.
VizStart ==
    \/ VizGoto("start", "publish")
    \/ VizGoto("start", "hung")
    \/ viz = "start" /\ ExitFailure

VizPublish ==
    /\ viz = "publish"
    /\ viz' = "notify"
    /\ globVehVizPtr' = "object"
    /\ UNCHANGED <<main, cleaner, terminatorFlag, jsonRunning, dbCleared, spurious, ended>>

\* synccv.notify_all wakes the cleaner if it waits, and is forgotten if not.
VizNotify ==
    /\ viz = "notify"
    /\ viz' = "timer"
    /\ cleaner' = IF cleaner = "waiting" THEN "loop" ELSE cleaner
    /\ UNCHANGED <<main, terminatorFlag, globVehVizPtr, jsonRunning, dbCleared, spurious, ended>>

VizTimerFails ==
    /\ viz = "timer"
    /\ viz' = "leave"
    /\ terminatorFlag' = TRUE
    /\ UNCHANGED <<main, cleaner, globVehVizPtr, jsonRunning, dbCleared, spurious, ended>>

VizTimer == VizGoto("timer", "loop") \/ VizTimerFails

VizStop == terminatorFlag /\ VizGoto("loop", "leave")

VizUpdate == ~ terminatorFlag /\ VizGoto("loop", "update")

VizUpdated == VizGoto("update", "loop")

\* pthread_exit unwinds the stack: the visualizer goes, the global pointer stays.
VizExit ==
    /\ viz = "leave"
    /\ viz' = "done"
    /\ globVehVizPtr' = "gone"
    /\ UNCHANGED <<main, cleaner, terminatorFlag, jsonRunning, dbCleared, spurious, ended>>

VizStep ==
    VizStart \/ VizPublish \/ VizNotify \/ VizTimer \/ VizUpdated \/ VizStop \/ VizExit

-----------------------------------------------------------------------------
Init ==
    /\ main = "createCleaner"
    /\ cleaner = "none"
    /\ viz = "none"
    /\ terminatorFlag = FALSE
    /\ globVehVizPtr = "null"
    /\ jsonRunning = FALSE
    /\ dbCleared = FALSE
    /\ spurious = FALSE
    /\ ended = "no"

Over == ~ Running /\ UNCHANGED vars

Next ==
    \/ /\ Running
       /\ \/ MainStep \/ JSONDies
          \/ CleanerStep \/ SpuriousWakeup \/ CleanerSweep \/ CleanerCrash
          \/ VizStep \/ VizUpdate
    \/ Over

Spec == Init /\ [][Next]_vars

\* The three threads go on; that a timer fires, the JSON server fails or a wait ends
\* without a notification is up to the system.
Fairness ==
    /\ WF_vars(Running /\ MainStep)
    /\ WF_vars(Running /\ CleanerStep)
    /\ WF_vars(Running /\ VizStep)

FairSpec == Spec /\ Fairness

-----------------------------------------------------------------------------
(* Properties                                                              *)

\* Where each thread can be, and the values of the state they share: main goes on
\* only once it has created the thread it was to create.
TypeOK ==
    /\ main \in {"createCleaner", "createViz", "socket", "check", "bind", "json", "receive",
                 "joinCleaner", "joinViz", "clear", "return"}
    /\ cleaner \in {"none", "timer", "wait", "waiting", "loop", "sweep", "done"}
    /\ viz \in {"none", "start", "hung", "publish", "notify", "timer", "loop", "update",
                "leave", "done"}
    /\ cleaner = "none" <=> main = "createCleaner"
    /\ viz = "none" <=> main \in {"createCleaner", "createViz"}
    /\ terminatorFlag \in BOOLEAN /\ jsonRunning \in BOOLEAN
    /\ dbCleared \in BOOLEAN /\ spurious \in BOOLEAN
    /\ globVehVizPtr \in {"null", "object", "gone"}
    /\ ended \in {"no", "failure", "returned", "crash"}

\* LDMmap.h: clear is for a database that is not going to be accessed again.  main
\* clears it once no other thread is left that could: on every path to the end.
ClearedAlone == dbCleared => cleaner = "done" /\ viz = "done" /\ ~ jsonRunning

\* Unless its wait ends without a notification, the condition variable keeps the
\* cleaner from using the visualizer before it is there and has drawn the map
\* (sendObjectClean would end the process).
SweepAfterMap == cleaner = "sweep" /\ ~ spurious => globVehVizPtr # "null"

\* The cleaner missed the notification, or there will be none.
NeverNotified ==
    \/ viz = "hung"
    \/ cleaner \in {"timer", "wait", "waiting"} /\ viz \in {"timer", "loop", "update", "leave", "done"}

\* An error of the start ends the process: the flag reaches both threads and both can
\* be joined, unless the cleaner is left without its notification.
FailedStartEnds == []~NeverNotified => (main = "joinCleaner" ~> ~ Running)

\* main.cpp: the cleaner reads the database periodically; once the visualizer runs it
\* has been let go.
CleanerStarts == viz = "loop" ~> cleaner = "loop" \/ terminatorFlag \/ ~ Running

\* main.cpp: terminatorFlag terminates all the threads in case of errors.
FlagStopsAll == []~NeverNotified => (terminatorFlag ~> ~ Running)

\* main.cpp: the mutex and the condition variable synchronize the threads that use
\* the visualizer: the cleaner only sweeps while there is one.
SweepHasVisualizer == cleaner = "sweep" => globVehVizPtr = "object"
=============================================================================
