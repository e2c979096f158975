# A TLA+ model of AIM

AIM (Automotive Integrated Map) receives V2X messages of vehicles from a raw
socket, keeps the latest state of each vehicle in an in-memory database, shows
the vehicles on a web map and serves them to clients as JSON. This directory
models it from the octets of a frame to the marker on a page: the reception, the
decoder with its ASN.1 descriptors, the database, the threads around it, the path
history of each vehicle, the JSON server, the web map, and the start and end of the
process. Paths below are relative to the repository (`src/`).

## Inventory

| Component | State | Operations | Shared with |
|---|---|---|---|
| `LDMMap` (`src/LDMmap.cpp`) | two-level hash map, one lock per lower map, a main lock, the counter `m_card` | `insert`, `remove`, `lookup`, `rangeSelect`, `deleteOlderThan[AndExecute]`, `executeOnAllContents`, `clear` | all threads |
| `PHpoints` (`src/PHpoints.cpp`) | a ring of points, three indices and counters, the stored distance, two policies | `insert`, `iterate`, `switchRemoveOnlyOne`, `setIterateFull`, `clear` | reception inserts, JSON server iterates, no lock |
| `SocketClient` (`src/SocketClient.cpp`) | stop flag, unlock pipe, log file | `rxThr`, `manageMessage`, `startReception`, `stopReception` | database |
| cleaner (`DBcleaner_callback`, `src/main.cpp`) | timer | a sweep every 5 s of the entries older than 7 s | database, visualizer, condition variable |
| visualizer updater (`VehVizUpdater_callback`) | timer, the `vehicleVisualizer` on its stack | redraws every entry | database, condition variable |
| JSON server (`src/JSONserver.cpp`) | listening socket, set of clients, `m_thread_running` | `startServer`, `stopServer`, the select loop, `make_AIM_json` | database, `PHpoints` |
| `main` (`src/main.cpp`) | `terminatorFlag`, `globVehVizPtr`, `syncmtx`/`synccv` | creation of the threads, error paths, joins, `clear` | everything |
| `vehicleVisualizer` (`vehicle-visualizer/`) | connected, map sent, server active | `startServer` (FIFO handshake), `sendMapDraw`, `sendObjectUpdate`, `sendObjectClean`, `terminateServer` | Node.js server by UDP |
| Node.js server and page (`js/`) | `mapmsg`; `map_rx`, `markers` per browser | forward, keep the map message, terminate | browsers by socket.io |
| decoder frontend (`decoder-module/src`) | `m_enhanced_CAMs` | `decodeEtsi`: detection of the layers, GeoNetworking and BTP headers, choice of the descriptor | reception |
| ASN.1 codec (`decoder-module/asn1`) | none; it fills the object it is given | descriptors of CAM and DENM, unaligned PER decoding (and encoding) | decoder frontend |
| options, GNSS, utilities, sample client | none that others see | parsing, wrappers | - |

How they interact. The reception thread looks up and inserts; the cleaner sweeps
and has the marker of each erased vehicle removed by a callback that runs under
the lock; the updater scans and has every vehicle drawn, also under the lock;
the JSON server copies entries and then follows their `PHpoints` pointers without
any lock. `main` creates the threads, then blocks in the reception; the cleaner
first waits on a condition variable for the visualizer to be there.

What is hard, and what correctness means per component:

* database, sequentially: the counter kept by hand is the number of entries; keys
  do not collide; no path history is shared or used after it was freed; each call
  does what `include/LDMmap.h` says of it;
* database, concurrently: tests done before a lock and used after it (`insert`,
  `lookup`), a clock read before a wait (`deleteOlderThanAndExecute`,
  `make_AIM_json`), iterators across erasures, markers against entries, the age
  check against the cleaner, starvation;
* path history: a ring whose size, oldest index and next index are kept apart and
  can disagree;
* reception: a buffer and a structure used again for every frame, results that mean
  success and error at once, objects left behind, a stop that races with frames;
* decoder: lengths that are trusted, streams that end anywhere, extensions of newer
  protocol versions, objects decoded into twice;
* JSON server: one loop and one buffer for all clients, descriptors that are reused and
  run out, clients that vanish;
* web map: processes that start, crash and overlap, datagrams that are lost, pages that
  come late;
* process: a condition variable without predicate, a flag some threads ignore, an
  object that dies with the stack of its thread, joins that may wait for ever.

The complete list, line by line, is `hazards` in `PROJECT.json`.

## Modules

| Module | Models | Abstraction it implements |
|---|---|---|
| `LDMMap` | `LDMmap.cpp`, each call one action | `VehicleStore`, checked as the property `ImplementsVehicleStore` |
| `VehicleStore` | what the database promises: one record per identifier, the answers, the garbage | - |
| `LDMThreads` | the same code, split where another thread can act, with the reception of a CAM, the cleaner, the updater and the JSON query | - |
| `PHpoints` | `PHpoints.cpp`, each call one action | `PathHistory`, checked as `ImplementsPathHistory` |
| `PathHistory` | a list that loses points at its old end and is read from its new end | - |
| `Lifecycle` | `main.cpp`: start, synchronisation, failure and end | - |
| `VehVisualizer` | `vehicle-visualizer.cc`, `server.js`, `map_render.js`: AIM, its Node.js servers, the pages | - |
| `JSONServer` | `JSONserver.cpp`: start and the select loop, with its clients | - |
| `Reception` | `SocketClient.cpp`: the poll loop, start and stop, what becomes of each frame | - |
| `EtsiDecoder` | `etsiDecoderFrontend.cpp` for a station, a network that damages datagrams, and a caller, over any codec | - |
| `EtsiCodec` | the codec of `asn1/src` as `EtsiDecoder` takes one, with sample messages | - |
| `GeoNetworking` | the headers: `geonet.cpp`, `btp.cpp`, `*Header.cpp` | - |
| `UPERPrimitives` | bits and lengths, and the decoders and encoders of the types without parts: `asn_bit_data.c`, `per_support.c`, `INTEGER.c`, `NativeEnumerated.c`, `BIT_STRING.c`, ... | - |
| `UPER` | those of the types with parts, and open types: `per_opentype.c`, `constr_*.c`, ... | - |
| `ASN1Types`, `ITSContainer`, `CAMDescriptions`, `DENMDescriptions` | the descriptors `UPER` interprets, one definition for each `asn_DEF_` | - |
| `ASN1Values` | values of a type, and what it means to satisfy its constraints: the reference `UPER` is checked against | - |
| `LDMMapProofs`, `LDMThreadsProofs`, `PHpointsProofs`, `LifecycleProofs`, `JSONServerProofs`, `ReceptionProofs`, `VehVisualizerProofs`, `EtsiDecoderProofs` | theorems and proofs | - |
| `MC...` | the instances TLC checks | - |

Some modules contain, before a definition, a faulty variant of it (for example
`UnmaskedKeyLower` before `KeyLower`, `JoinNoViz` before `JoinViz`). They are not
used by the specifications: each is a plausible mistake in the code, and putting it
in the place of the definition makes TLC find a property violated. `mutants` in
`PROJECT.json` lists which; it is how we know that a property says something.

### LDMMap

`m_ldmmap` is a function of functions, keyed by `KeyUpper` and `KeyLower` as
`DEFINE_KEYS` computes them with `KeyBase` for 2^16. `m_card` counts modulo `CardMod`
(2^64) and timestamps modulo `TimeMod` (2^64). `heap` is the set of allocated
`PHpoints` objects with the stations whose points each one got, so that sharing,
leaks and use after free can be told. `answer` is what the last call returned.
Positions are points of a line: the great-circle distance matters to `rangeSelect`
only through its comparison with the radius. `printAllContents` changes nothing.

### LDMThreads

Each thread has a program counter and its locals (`rx`, `cleaner`, `scan["viz"]`,
`scan["json"]`). A step ends where another thread can see or change something: before
a lock is taken, between an unlocked read and its use, between the read and the write
of `m_card++`. Locks are not variables: who holds which lock follows from the program
counters, and `MainReaders`, `LockedExclusive` and `LockedShared` say it.

* Reception (`Receive` to `Finish`): the lookup for the low frequency container, the
  lookup of the age check, the time stamp, the lookup of the log, the insertion. Each
  `lookup` is two steps, the `count` without the lock of the lower map and the read with
  `operator[]` under it; `insert` has the unlocked test, the unlocked increment, the
  write, and the unlocked use of `phData`.
* Undefined behaviour: an unlocked read of a lower map while the cleaner changes it may
  work, may miss the entry (`CountOutcomes`), or may crash (`RaceCrash`); an insertion by
  `operator[]` below the iterator of another reader may crash (`RehashCrash`).
* `markers` is the set of vehicles the visualizer was told to draw. What becomes of the
  messages after the socket is not in this module.
* GN timestamps live on a circle of `GNMod` values (2^32), the plausible gap is `Gap`
  (300000 ms). The early return of the age check stands inside the test for a log file
  (`Discards`), as in the code.

### PHpoints

`StoredValues` is what the memory of `m_stored_distance` may hold, since no constructor
sets it. The removal loop is the operator `ToRemove`: the number of points it takes away,
computed with the recursive function `StoredWithout`. The vector is reserved but never
resized; writing past `size()` is treated as the memory access it compiles to.

### Lifecycle

`main`, `cleaner` and `viz` are program counters. `MainFails` is every path that raises
`terminatorFlag` and goes to the joins, `ExitFailure` every call of `exit`. `VizStart` has
the three outcomes of the start of the Node.js server: ready, `exit`, or blocked in the
read of the FIFO for ever. `VizExit` is `pthread_exit` in the updater, which unwinds the
stack that holds the visualizer. `spurious` remembers that the wait of the cleaner ended
without a notification. Nothing follows "receive": the reception has no end, since
nothing calls `stopReception` and nothing sets `m_stopflg`.

### VehVisualizer

`client` holds the flags of the object in AIM, `server` the process, the two ports, `mapmsg` and the FIFO of
the server of each run, `udp` the datagrams in the socket of the server that has the port. A datagram sent to a
full socket or to a port nobody has is lost (`Send`). AIM and its servers may die at any point and AIM is run
again (`Respawn`, the procd service of the OpenWrt package). A server does not end with its AIM: it has inherited the descriptor of
the FIFO, which AIM opens for reading and writing and never closes before `std::system`, so that its write finds a reader even when AIM is dead
(`BindUDP` never waits). It keeps its ports, serves pages, takes the messages of a later run, the map included, and is in the way of the server of
that run: then `PortTaken`. socket.io is a queue for each page that is connected. The page keeps `map_rx` and its markers; a marker has the
`look` of the last update and the icon `ChangedMarker` left. The heading is a number of tenths of a degree as `Printed` leaves
it. `missed` and `early` are ghosts: removals lost on the way, and pages that came before the map.

### JSONServer

Two sets (`sockdescrs`, `sockdescrs_set`), the copy `select` returned, the iterator `currd_it`, the buffer `rx_buff` as
a sequence of pieces, and the table of descriptors `fd`, which other code uses up (`OtherOpens`: `get_rssi_from_iw` opens a
pipe and never closes it). A client connects, asks, reads its replies and leaves, with data unread ("rst") or without. The body of the loop is one step for each
descriptor; the reply is one more. A descriptor that is not ready is a step that changes nothing, which is what the code does for ever.

### Reception

`rxThr` as steps between system calls, and `startReception` and `stopReception` of another thread at any point. A frame is a record of what its
sender made of it; the code reads from it what it reads from the octets (`IsGeoNet`, `LayersFail`, `Type`). Damaged headers and ports that
`decodeBTP` does not know are answered with `ETSI_DECODED_ERROR`, which is success to `manageMessage`: it then goes on with what `decodedData` held. A refusal
leaves a type of its own beside the object of an earlier frame there. `heap` is
the set of allocated objects, with what was made of those no pointer leads to any more (a `rest`, `discarded`, `warned`); `last` says which frame was handled, how, and
whose object that was. To handle an object that was released may end the process (`Dangling`). `pipe` may fail, and the thread then runs without a pipe to stop it. `recvfrom` may fail at any time; the frame before it is then still in `msgbuf`.

### EtsiDecoder and below

Messages are octets here. `UPER`, with `UPERPrimitives` for the types without parts, is an interpreter of descriptors, as the C code is: `Decode(td, old, s, p)` reads a value of `td` from the stream `s`
at `p` into the object `old`, and says OK, WMORE or FAIL. `GeoNetworking` reads the headers from the octets. In `EtsiDecoder` a
station encodes a message and frames it (or hands a value of any type to `asn_decode` directly), the network may cut the
datagram or invert one bit, and `decodeEtsi` is called as `SocketClient` does, on a buffer of 2048 octets that goes on behind the datagram with
what earlier ones left there (`StaleOctets`). A station of a newer protocol version has an addition of `AdditionSizes` octets behind an extension
marker. `Mixed` is an object decoded as a CAM and then as a CAMEnhanced, about which nothing is said.

`decodeEtsi` calls the codec through `asn_decode` and knows nothing of what is in it. In the same way the messages, their encodings and the decoders are
constant operators of `EtsiDecoder` (`Message`, `Encoding`, `Decoded`, `Satisfying`). `EtsiCodec` gives them: sample values encoded with `Encode`,
decoded with `Decode`, the additions of a newer version (`Newer`), and `Satisfies` of `ASN1Values`. TLC checks the two together; the proofs are about the
frontend with any codec.

## Runs

| Run | Instance | What it shows |
|---|---|---|
| `database` (`MCLDMMap.cfg`) | 3 vehicles, `KeyBase` 2: two share an upper key; 3 objects, so that allocation runs out only after leaks; `CardMod` 3, so that the map gets full with 2 entries; 3 clock values | `CardExact`, `HistoriesOwned`, and the refinement of `VehicleStore` |
| `threads` (`MCLDMThreads.cfg`) | 2 vehicles in one lower map, reception, cleaner, updater; expiry at 1 tick of 2 | `IteratorsValid`, `MarkersTracked`; `ExpiredGoes`, `MessageHandled` under fairness |
| `age_check` (`MCLDMThreadsAge.cfg`) | 1 vehicle, log file, cleaner and JSON query, timestamps 6, 7, 1 (a wrap modulo 8) and none | `AgeCheckProtects`, `AgeCheckKeepsNew` |
| `path_history` (`MCPHpoints.cfg`) | a ring of 3 slots, 3 positions, 2 headings, initial stored distance negative, zero or huge, both policies changed at any time | `ReadsWritten`, refinement of `PathHistory` |
| `lifecycle` (`MCLifecycle.cfg`) | the whole state space | `ClearedAlone`, `SweepAfterMap`, `FailedStartEnds` |
| `visualizer` (`MCVehVisualizer.cfg`) | 3 runs of AIM and their servers, 1 vehicle, 1 page, station types known and unknown; 2 datagrams in a socket and 2 messages to a page | `OneMapPerServer`, `NoGhost`, `MapFirst`, `IconRight`; `VehicleAppears` under fairness |
| `json_server` (`MCJSONServer.cfg`) | 2 clients, 3 descriptors (so that they run out), a long and a short request, both closed by a NUL as the sample client does | `DescriptorsAgree`, `RepliesMatch`; `AloneAnswered`, `AloneReleased` under fairness |
| `reception` (`MCReception.cfg`) | 7 kinds of frames: own, CAM and DENM packets, damaged headers, a packet for an unknown port, a truncated and a long bare CAM; 2 in the socket; one stop | `FramesJudged`, `StoredReleased`, `StopDrains`; `StopHeard` under fairness |
| `decoder` (`MCEtsiDecoder.cfg`) | 9 kinds of values of the three messages, as SHB and GBC packets over BTP-A and BTP-B and bare, of this and of a newer version; of all 167 other types by themselves; for a CAM, a DENM and each type every cut and every inverted bit | `DeliveredAsSent`, `TruncationRefused`, `InRange`, `NothingStale` |
| `fresh_swept` (`MCLDMThreadsSweep.cfg`) | 1 vehicle | violated: a sweep deletes an entry refreshed after the sweep read the clock |
| `json_starved` (`MCJSONServerStarved.cfg`) | as `json_server` | violated: with a second client connected the loop stands still at a descriptor that is not ready |
| `unknown_extension` (`MCEtsiDecoderSkip.cfg`) | as `decoder`, additions of one octet | violated: an addition whose length is no multiple of 3 octets makes the decoder refuse the message |

The violated properties quote comments of the repository; `findings` in `PROJECT.json`
gives both sides. More configurations of the same kind are kept beside the runs, each of
them with a counterexample. "X with" means the configuration X with the property in the place of its
own and the changes named:

| Configuration | Property | Behaviour |
|---|---|---|
| `MCLDMThreadsUpdated.cfg` | `UpdatedExists` | `insert` reports an update of an entry it creates, without a path history; the next step goes through a null pointer (`LDMmap.cpp:57`) |
| `MCLDMThreadsFull.cfg` | `NeverFull` | `m_card` wraps below zero and the map is full for good (`LDMmap.cpp:191`) |
| `MCLDMThreadsNoLog.cfg` | `AgeCheckProtects` | without a log file the age check discards nothing (`SocketClient.cpp:278`) |
| `MCLDMThreadsLookup.cfg` | `LookupReturnsStored` | `lookup` creates the entry it returns (`LDMmap.cpp:113`) |
| `MCLDMThreads.cfg` with `Spec` | `CardExactAtRest` | `m_card` differs from the number of entries although no call is under way |
| `MCLDMThreadsAge.cfg` with it | `ServedAgesReal` | a JSON reply with a wrapped age (`JSONserver.cpp:140`) |
| `MCLDMThreadsAge.cfg` with `Stations <- MCStations`, `UpperOf <- MCSameUpper`, `Scanners = {}` | `AgeCheckProtects` | with a second vehicle in the lower map, the unlocked `count` may miss the first one while the second is erased, and older data gets in |
| `MCLDMMapRemove.cfg` | `RemovedIsGone` | `remove` erases the whole identifier in a map keyed by its lower half (`LDMmap.cpp:92`); no caller of `remove` exists yet |
| `MCLDMMapClock.cfg` | `SweepTakesOnlyOld` | a clock set back makes new entries old |
| `MCPHpointsCover.cfg` | `StoredReachesLimit` | the stored distance falls below the limit |
| `MCPHpointsCover.cfg` with it | `PreviousIsNewest` | after a wrap and a removal, `prev_idx` is not the point saved last |
| `MCPHpoints.cfg` with it | `RemovesIfNeeded` | an uninitialised `m_stored_distance` removes points |
| `MCLifecycleStarts.cfg` | `CleanerStarts` | `notify_all` before the wait leaves the cleaner waiting for ever |
| `MCLifecycle.cfg` with it | `FlagStopsAll` | `terminatorFlag` does not end the reception |
| `MCLifecycle.cfg` with `Spec` | `SweepHasVisualizer` | the cleaner sweeps without a visualizer: before it is there (spurious wakeup) or after it is gone |
| `MCVehVisualizerMap.cfg` | `EveryPageGetsMap` | a page that connects before the map message gets `null` and no map later (`server.js:126`) |
| `MCVehVisualizerMap.cfg` with it | `ServerAwaited` | the server ends before it has written to the FIFO and AIM waits in `read` for ever, since its own descriptor keeps the FIFO open (`vehicle-visualizer.cc:284`) |
| `MCVehVisualizer.cfg` with `Spec`, `Headings <- MCUnavailable` | `CircleIfUnavailable` | the heading 360.1 that means "unavailable" is printed as 360 and drawn as a heading (`vehicle-visualizer.cc:166`); no heading makes a marker a circle |
| `MCJSONServer.cfg` with `Spec` | `SurvivesClients` | `send` to a client that reset its connection raises SIGPIPE, which nothing ignores (`JSONserver.cpp:106`) |
| `MCJSONServer.cfg` with `Spec` | `RunningMeansThread` | the thread dies before `startServer` sets `m_thread_running` (`JSONserver.cpp:378`) |
| `MCJSONServer.cfg` with `Requests <- MCSameLength`, `Segmented = TRUE` | `RepliesMatch` | the first piece of a request goes on into the rest of an earlier one, and another question is answered (`JSONserver.cpp:95`) |
| `MCJSONServer.cfg` with `Clients = {"a"}`, `Requests <- MCUnterminated` | `AloneAnswered` | a request without a NUL after a longer one does not parse and is not answered |
| `MCJSONServer.cfg` with `Clients = {"a"}`, `Outstanding = 2` | `AloneAnswered` | of two requests that arrive together the second is lost |
| `MCReceptionStop.cfg` | `StopEnds` | frames that go on to arrive keep the thread from looking at the pipe (`SocketClient.cpp:100`) |
| `MCReceptionStop.cfg` with it | `StopAlwaysHeard` | `pipe` has failed, the thread runs all the same, and no stop reaches it (`SocketClient.cpp:135`) |
| `MCReceptionError.cfg` | `ErrorIsNoFrame` | after a failed `recvfrom` the frame before is handled again (`SocketClient.cpp:94`) |
| `MCReceptionError.cfg` with it | `LogOpen` | `stopReception` closes the log while the thread writes to it (`SocketClient.cpp:161`) |
| `MCReceptionError.cfg` with it | `OnlyDecodedManaged` | `ETSI_DECODED_ERROR` equals `ETSI_DECODER_OK`: a packet with damaged headers, or for an unknown port (`btp.cpp:23`), is managed with what `decodedData` holds (`etsiDecoderFrontend.cpp:67`) |
| `MCReception.cfg` with it | `NothingLeft` | messages that are discarded, warned of or refused half decoded stay allocated (`SocketClient.cpp:278`) |
| `MCEtsiDecoder.cfg` with it | `ListsOnce` | a bare CAM is decoded twice into the same object: its lists are there twice (`etsiDecoderFrontend.cpp:133`) |
| `MCEtsiDecoder.cfg` with it | `SizesInRange` | the sizes of lists and strings are not compared with their upper bound (`per_support.c:25`) |
| `MCEtsiDecoder.cfg` with it | `CutPacketRefused` | a packet that lost its end is delivered from what an earlier one left in the buffer (`btp.cpp:52`) |
| `MCEtsiDecoder.cfg` with it | `HeaderFlipHarmless` | one wrong bit in the reserved second octet has the GeoNetworking headers decoded as a DENM (`etsiDecoderFrontend.cpp:43`) |
| `MCEtsiDecoder.cfg` with `ValueKinds = {9}` | `DeliveredAsSent` | the encoder drops the zero bits at the end of a BIT STRING |

### Bounds

Two vehicles are what it takes for the locks of one lower map to matter (an iterator on one
entry, an erasure of the other), and one for every race between an unlocked test and its
use, which concern a single key. Two clock values give one entry that is too old and one
that is not, and a difference that wraps. `CardMod` 3 or 4 has the boundary in reach;
`MCLDMThreadsFull.cfg` uses 8, to show that the boundary is reached from below zero and not by filling the map.
`GNMod` 8 with `Gap` 3 keeps the two regions of the age check (a plausible step, a wrap) apart,
as 2^32 and 300000 do (`LDMThreadsAssumption`). A ring of three slots wraps, fills, and loses
one or two points in a call. 

Three runs of AIM are a server that outlives its AIM, the run whose map it takes, and one more that meets it; one page sees every order of
connection, map and updates, and two pages pass as well (every property is about one). Sockets of two places overflow. Two clients and three descriptors have the
listening socket, a client and one more descriptor compete; `BuffSize` 3 holds a long request with its NUL. The frames of `reception` go each of the ways through filters, detection
and decoders. In `decoder` the kinds of values spread over every integer range, reach every enumeration item and alternative at the ends,
all lists and strings empty, at their upper bound, and extensions; the faults are tried on one kind in the middle.
A `DigitalMap` of more than 200 positions does not fit into the buffer and so the special case of `SET_OF_decode_uper` for 200 elements that consume nothing is not reached.

Deadlock is checked in the modules where nothing ends, which are `LDMMap`, `LDMThreads`, `PHpoints` and `EtsiDecoder`; in the others the process really may stop: a
thread that waits for ever, a server that died, a reception that was left.

### Fairness

* `LDMThreads`: weak fairness for the steps of the reception, the cleaner and the scans once
  started, since nothing but a lock stops them, and for the timer of the cleaner; strong
  fairness for the steps that take a lock, since the lock is free again and again (sweeps and scans
  last microseconds, their timers seconds). Nothing makes messages, requests or time arrive.
* `MessageHandled` also assumes that the main mutex is free of readers again and again. It is needed:
  `std::shared_mutex` promises no priority for writers, and readers that overlap without end keep
  `insert` of a new upper key out. `ExpiredGoes` needs no such assumption.
* `Lifecycle`: weak fairness for each thread. `FailedStartEnds` is stated for the behaviours in which the
  cleaner gets its notification (`NeverNotified` describes the others, which `MCLifecycleStarts.cfg` exhibits).
* `VehVisualizer`: weak fairness for the event loops of server and page, strong fairness for an update of each vehicle that
  finds room in the socket, since the updater draws every half second and the server empties the socket. No process has to
  start, and none to die.
* `JSONServer` and `Reception`: weak fairness for the thread alone; clients, frames and failures need not come.
  `StopHeard` assumes that frames and failures of `recvfrom` cease; without it `MCReceptionStop.cfg` shows a reception without end. `AloneAnswered` and
  `AloneReleased` are about a client that has the server for itself, and end when the thread has died or spins.

## Proofs

TLAPS checks all of them; the theorems hold for every value of the constants that satisfies
the named assumptions (`LDMMapAssumption`, `LDMThreadsAssumption`, `PHpointsAssumption`, `JSONServerAssumption`,
`ReceptionAssumption`, `VehVisualizerAssumption`, `BufferAssumption`, `UnwrittenAssumption`, `EncodingAssumption`), which TLC evaluates in the runs.

* `LDMMapProofs`: `TypeCorrect`, `CounterExact`, `OwnedHistories` - `TypeOK`, `CardExact` and `HistoriesOwned`
  are invariants. The inductive invariant `IInv` is their conjunction: the counter is exact only if
  `remove` erases the entry it found, which needs the entry under the keys of an identifier to be
  that identifier's, and cardinalities need the set of keys to be finite, which follows from the types. They are proved under
  `RemoveIsSafe`: `remove` is only called for identifiers below `KeyBase`. Without it `CardExact` is false, as
  `MCLDMMapRemove.cfg` shows; the program never calls `remove`.
  In the same module `RefinesStore`: `LDMMap` implements `VehicleStore`, and `SweepsOld`: the collection takes old entries alone. Beside
  `RemoveIsSafe` this assumes `ClockForward`: `MCLDMMapClock.cfg` shows that a clock set back makes the collection take new
  entries, which the store does not allow. `RInv` is `IInv` with `Past`: no entry is newer than the clock, so that the unsigned
  age of line 164 is the age (`AgeLemma`). The stations stored and the keys used are as many (`ViewCardinality`, a bijection), so
  `m_card` is the size of the store. One lemma per call shows that its results are those of the store and that its effect on the
  two-level map is, seen through `KeyOf`, the effect on the plain one.
* `LDMThreadsProofs`: `TypeCorrect`, `IteratorsStayValid`, `MarkersAreTracked`, with no further assumption, for
  any number of vehicles, keys and scanners. `IInv` adds to these the facts that make them inductive:
  `IdsRight` (an entry holds its own identifier or that of a zeroed entry), `LocksNest` (the
  cleaner and a scan are never in the same lower map), `ErasingAt` and `SendingAt` (an entry about to be erased or drawn is
  in the set still to visit). One lemma per action carries the proof, and frame lemmas say what the steps of one
  thread cannot disturb. `NewDataKept` (data newer than what is stored are never discarded) rests on `AgeAsked`: a message without
  a GN timestamp is never compared. `AgeCheckHolds` (newer data are never replaced) rests on
  `NewerThanStored`: from the check to the store, the entry of the vehicle is gone, or about to be erased, or not newer than the message. It has three hypotheses, and each is
  needed: the check is on (`AgeCheck`), there is a log file (`Logging`; `MCLDMThreadsNoLog.cfg`), and no other vehicle
  is in the lower map (`AloneInLowerMap`; the table above has the counterexample with a neighbour).
* `PHpointsProofs`: `AlwaysReadsWritten`, for a ring of any size, any policies and any initial stored distance. The ring is either
  in its first round (`FirstRound`: the points lie side by side below `m_next_idx`, all of them written) or in a later one, where
  every slot is (`LaterRound`); a removal takes away held points alone (`RemovesHeld`). `TypeCorrect`: that the stored distance
  stays a distance goes through the recursive function `StoredWithout`, which exists and has its values by the least
  argument where it would not (`LeastMember`). `RefinesPathHistory`: the ring implements `PathHistory`. The history is the points from
  `m_oldest_idx` on (`HistoryOf`); `SaveAppends` says that saving a point drops some at the old end and appends it, also when a full
  ring overwrites its oldest, and `WalkBack` that the indices `iterate` goes through are those places backwards, across the wrap.
* `LifecycleProofs`: `TypeCorrect`, `ClearsAlone`, `SweepsAfterMap`, with no assumption. `IInv` adds what main knows where it stands
  (`JoinsKeep`: past a join the thread has ended, and the JSON server only runs once main is in the reception) and that the
  pointer is set before the notification is given (`NotifiedAfterMap`). The state space is finite and TLC covers it; the proof says why it holds.
* `VehVisualizerProofs`: `TypeCorrect`, `OneMapOnly`, `NoGhostLeft`, `MapComesFirst`, `IconsRight`, for any runs, vehicles, pages and sizes of
  the sockets. Of `IInv`: a port has one server and a socket without a server is empty (`Ports`); AIM connects only when the server of its own run has
  written to the FIFO, and so has had the port (`Ready`); while its map is still due (`MapDue`), the server that has the port, be it one of an earlier run, got it
  after all servers that ever received a map had ended, so one map message at most is in the
  socket or was kept (`OneMap`); behind an update under way of a vehicle that has left the database comes its
  removal, unless that was lost (`Followed`).
* `JSONServerProofs`: `TypeCorrect`; `RepliesAlwaysMatch`, for any number of clients and of requests each sends before it waits, if requests are closed by
  a NUL and arrive whole (`Orderly`, as with the sample client). Both are needed: the table above has the reply to another question for a
  request in pieces, and TLC finds one with `Requests <- MCUnterminated`. `Order` says which request each thing belongs to: the replies that wait,
  the string in the buffer and the requests under way are, in this order, ever later ones of those the client counts, and what `recv` leaves over of a request
  never begins with its first piece. `DescriptorsAlwaysAgree`, for any clients, descriptors and requests, if the names of clients
  differ from those of the other uses of a descriptor (`JSONServerAssumption`). `IInv` says that an open connection has one descriptor, that
  `sockdescrs_set` is the set of the descriptors of clients at every step of the loop and not at `select` alone (`Owned`), that the
  listening socket is one and the other member of `sockdescrs` (`Listening`), and that the connections in the queue have no descriptor yet (`Queued`).
  That a new descriptor is free rests on the least number being taken (`Smallest`).
* `ReceptionProofs`: `TypeCorrect`, `FramesAreJudged`, `StopsDrained`, `StoredIsReleased`, for any frames that a sender can make
  (`ReceptionAssumption`). `IInv`: what is owed to a stop is still in the socket (`SocketHolds`), the thread turns to the pipe only
  when the socket is empty (`LeavesDrained`), what is managed was decoded from the frame in the buffer (`Valid`), unless its headers could not be read (`Managed`), when
  the structure may say anything (`DataKnown`), and the heap holds leftovers and the object the structure points to alone (`HeapKnown`). `FramesAreJudged` is therefore about the frames
  that can be read (`Readable`); the others are `OnlyDecodedManaged` in the table above.
* `EtsiDecoderProofs`, first about the headers. `PacketIsRead`: what `decodeGN` and `decodeBTP` take out of a
  packet is what the station put in (position vector, area, port, payload), for payloads of any length below 2^16 - 4. The packet is seen as
  parts at their offsets (`Part`, `Joins`), and a field of a part is a field of the memory (`FieldOfPart`). `StaleIgnored`: what lies in `msgbuf`
  behind a packet does not change what is read, if the length the packet gives is within what was received; `CutPacketRefused`, in the
  table above, shows what happens otherwise, since the code does not compare the two.
* Then about `decodeEtsi` with any codec and any messages that are sequences of octets: all five invariants of the run `decoder`.
  `IInv` is `TypeOK` with three facts. `SentKnown`: what was sent is a message with its framing, of the kind of CAM the program takes, or a value; `FrameKnown`:
  the datagram is the one of that message, or a beginning of it, or differs from it in one octet; `DataKnown`: `decoded_data` is empty until
  the call. Without `FrameKnown` nothing relates what is decoded to what was sent, and without `DataKnown` a refused packet could leave what an earlier one
  delivered, as `ETSI_DECODED_ERROR` is success to the caller.
  `TypeCorrect` needs no hypothesis. The others hold by what the codec does, and say of it no more than they need:

  | Theorem | Property | Hypotheses |
  |---|---|---|
  | `WholeMessagesDelivered` | `DeliveredAsSent` | `RoundTrip`: a decoder gives back what the encoder wrote, if it fits the buffer, and a CAM without lists also when decoded into itself; `HeaderFirst`: the second octet of a message is its messageID |
  | `TruncationNeverDelivered` | `TruncationRefused` | `CutRefused`: no decoder takes an encoding without its end, or a single octet of any value; `HeaderFirst` |
  | `StaleNeverDelivered` | `NothingStale` | `TrailingIgnored`: octets behind an encoding do not change what is decoded; `PortsApart`: no message has the number of a port where that of a packet would be if its headers were of another length; `HeaderFirst` |
  | `OnlyInRange` | `InRange` | `DecodedInRange`: a decoder gives values within the constraints of its type |

  `TruncationNeverDelivered` goes over every length: a datagram cut to one octet has its messageID read from what an earlier one left, hence
  the single octets. `StaleNeverDelivered` goes over every octet that may be wrong: the length of the payload, which may then reach beyond
  the packet into what lies behind (`TrailingIgnored`), the type of the header, so that the port is looked for 16 octets off (`PortsApart`), the next header, the
  second octet, behind which the packet is no packet any more. That the code compares no length does no harm here, since a packet that arrives whole begins with a whole
  message; it does for packets that lost their end (`CutPacketRefused`).

  `RoundTrip`, `HeaderFirst`, `CutRefused`, `TrailingIgnored` and `PortsApart` are finite for given constants. TLC has evaluated them to true for those of
  `MCEtsiDecoder.cfg`, one kind of values at a time, in a module that extends the proofs and `EtsiCodec`. They are stated with the proofs and not in
  `EtsiDecoder`, since TLC evaluates definitions without variables before every run, and no run has the time for all of them. `DecodedInRange` speaks of all sequences of octets and cannot be evaluated. `OnlyInRange` is thus what it
  says, a reduction: no result of one decoder leaves the frontend as a value of another type. That the decoders themselves respect the
  constraints is what the run checks, for every inverted bit.

* Last about the types of the codec that have no parts (`UPERPrimitives`), on any stream of bits. `IntegersInRange` and `EnumerationsInRange`: whatever is read
  for an INTEGER with a signed range, or for an ENUMERATED, satisfies its constraint, and it is read from bits of the stream alone. A StationID is
  unsigned; `INTEGER_decode_uper` does not compare it with its range, so nothing is said of it here. `IntegersReadOnce`, `EnumerationsReadOnce` and `BitStringsReadOnce` compare
  two streams that agree where both have bits (`Agreeing`): what is read from one is read from the other if it has the bits, whatever follows them, and if it was cut before, nothing is
  read (`Repeats`). These are what `DecodedInRange`, `TrailingIgnored` and `CutRefused` come down to at the leaves of a message. Each decoder is a sequence of
  reads, and has a lemma for where it ends (`...Reads`) and one for the second stream (`...Again`). All rest on what `get_many_bits` checks, and on
  the recursive function `Value` giving a number (`ValueIsNat`, by the least argument where it would not).

Only model-checked: the codec of the types with parts and of character strings, and every liveness property (fairness and ENABLED are out of the prover's reach). The types with
parts stay with TLC for good: `UPER` is recursive over descriptors, and recursive operators are out of the prover's reach too. Every invariant and action property of a passing run
is a theorem, under the hypotheses named above. Those of `LDMMap`, `LDMThreads` and `JSONServer` are needed: without each of them TLC has a counterexample.

## Not modelled

* `PHpoints::iterate` racing with `PHpoints::insert` (`JSONserver.cpp:326`): a data race that is listed as a hazard and not modelled yet.
* `stopServer` and what else follows the reception in `main`: unreachable, since nothing calls `stopReception`. (`stopReception` itself is modelled, as the class offers it.)
* What the DENM branch prints, the text of the JSON reply, the layout of the page.
* Options, GNSS, the parsing of the RSSI tool's output: sequential code without state the rest depends on.
* The rules of `asn1` that AIM never calls (BER, DER, OER, XER, printing, comparing, random values, constraint checks of types that are only decoded), and json11, Leaflet and socket.io.

Read while modelling and stated by no property: `disableDENMdecoding` sets the flag to true (`SocketClient.h:99`); the two
`ASN_STRUCT_FREE` calls for CAM and enhanced CAM have each other's descriptor (`SocketClient.cpp:475`); nothing sets `m_stopflg`; the
speed of a GeoNetworking header loses a bit to the mask 0x7f (`shbHeader.cpp`, `gbcHeader.cpp`), which nobody reads.

## Plan

In this order, most important first; 7 is left.

1. `LDMMap` over `VehicleStore`, with proofs of its invariants.
2. `LDMThreads`, with proofs of the lock-protected invariants.
3. `PHpoints` over `PathHistory`.
4. `Lifecycle`, with proofs of its invariants.
5. `VehVisualizer`, `JSONServer`, `Reception`.
6. `EtsiDecoder` over `GeoNetworking` and `UPER`.
7. `PathHistoryRace`: `insert` and `iterate` of one `PHpoints` in steps. Property: what a reply contains was once in the history.
8. Proofs: the refinements of `VehicleStore` and `PathHistory`, the web map, the replies of the JSON server, the age check.
9. Proofs of `GeoNetworking`, which has no recursion: which octets the headers are read from, and what is read from a packet.
10. Proofs of `EtsiDecoder` over any codec, for which the codec became a parameter, and of the types without parts, for which `UPERPrimitives` was taken out of `UPER`.
