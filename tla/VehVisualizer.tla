---------------------------- MODULE VehVisualizer ----------------------------
(***************************************************************************)
(* The way of a vehicle from the database to the map on a web page:        *)
(*   - the client in AIM (vehicle-visualizer/src/vehicle-visualizer.cc),   *)
(*     which starts a Node.js server, waits on a FIFO for it, and then     *)
(*     sends it datagrams;                                                 *)
(*   - the Node.js server (js/server.js), which keeps the map message and  *)
(*     forwards the others to the pages by socket.io;                      *)
(*   - the pages (js/map_render.js), which draw markers.                   *)
(*                                                                         *)
(* AIM runs again after its end (the procd service of README.md respawns   *)
(* it): each run has a server of its own, named by the number of the run   *)
(* as the FIFO is named by the process identifier.  UDP on the loopback    *)
(* loses a datagram when the buffer of the receiver is full or nobody is   *)
(* bound to the port; socket.io delivers in order to the pages that are    *)
(* connected and replays nothing to those that are not.                    *)
(***************************************************************************)
EXTENDS Integers, Sequences, FiniteSets

CONSTANTS
    Vehicles,
    Pages,
    StationTypes,   \* station types of the CAMs; 0 stands for "unknown"
    Headings,       \* headings of the CAMs, in tenths of a degree, 3601 if unavailable
    MaxRun,         \* how often AIM is run
    UDPBuffer,      \* datagrams the socket of a server holds
    PageBuffer      \* bound: messages under way to a page

ASSUME VehVisualizerAssumption ==
    /\ StationTypes \subseteq Nat /\ Headings \subseteq 0 .. 3601
    /\ MaxRun \in Nat \ {0} /\ UDPBuffer \in Nat \ {0} /\ PageBuffer \in Nat \ {0}

VARIABLES
    run,            \* number of the present run of AIM
    aim,            \* where VehVizUpdater_callback stands
    client,         \* m_is_connected, m_is_map_sent and m_is_server_active
    db,             \* vehicles in the database
    server,         \* the server of each run: its process, its ports, mapmsg, the FIFO
    udp,            \* datagrams in the socket of the server that has the port
    page,           \* "closed", "connected" or "offline"
    chan,           \* messages under way to each page
    map_rx,
    markers,        \* of each page: vehicle -> marker
    missed,         \* vehicles an objclean of which was lost on its way to the page
    early           \* pages that connected when their server had no map yet

aimVars == <<run, aim, client, db>>
pageVars == <<page, chan, map_rx, markers, missed, early>>
vars == <<aimVars, server, udp, pageVars>>

Runs == 1 .. MaxRun

VIS_HEADING_INVALID == 361

\* sendObjectUpdate prints the heading with three significant digits: from 100 degrees
\* on the tenths are rounded away.  (The page reads tenths again.)
Printed(heading) ==
    IF heading < 1000 THEN heading ELSE 10 * ((heading + 5) \div 10)

Looks == [stationtype : StationTypes, heading : {Printed(h) : h \in Headings}]

MapMsg == [kind |-> "map"]
NullMsg == [kind |-> "null"]
Terminate == [kind |-> "terminate"]
Object(v, look) == [kind |-> "object", id |-> v, look |-> look]
ObjClean(v) == [kind |-> "objclean", id |-> v]

Objects == {Object(v, look) : v \in Vehicles, look \in Looks}
ObjCleans == {ObjClean(v) : v \in Vehicles}

NoServer == [process |-> "none", udp |-> FALSE, http |-> FALSE, mapmsg |-> FALSE, fifo |-> FALSE]

Within(msgs, m) == \E i \in 1 .. Len(msgs) : msgs[i] = m
Cleaned(msgs) == {v \in Vehicles : Within(msgs, ObjClean(v))}
Drawn(msgs) == {v \in Vehicles : \E look \in Looks : Within(msgs, Object(v, look))}

Open == {b \in Pages : page[b] # "closed"}
Connected == {b \in Pages : page[b] = "connected"}

\* The pages in bs can no longer hear that the vehicles in vs are gone.
Miss(bs, vs) == [b \in Pages |-> IF b \in bs THEN missed[b] \cup vs ELSE missed[b]]

-----------------------------------------------------------------------------
(* The client                                                              *)

NewClient == [m_is_connected |-> FALSE, m_is_map_sent |-> FALSE, m_is_server_active |-> FALSE]

Bound == {n \in Runs : server[n].udp}

\* send() on the connected UDP socket, whose result nobody reads: a full buffer, or a
\* port without a server, loses the datagram.
Send(m) ==
    IF Bound # {} /\ Len(udp) < UDPBuffer
    THEN udp' = Append(udp, m) /\ UNCHANGED missed
    ELSE udp' = udp /\ missed' = Miss(Pages, Cleaned(<<m>>))

\* startServer up to the read of the FIFO.  A failure of the steps before (mkfifo,
\* open, no node command) ends the process: see AimDies.
StartServer ==
    /\ aim = "start"
    /\ aim' = "reading"
    /\ client' = [client EXCEPT !.m_is_server_active = TRUE]
    /\ server' = [server EXCEPT ![run].process = "starting"]
    /\ UNCHANGED <<run, db, udp, pageVars>>

ReadNothing ==
    /\ aim = "reading"
    /\ aim' = "connect"
    /\ UNCHANGED <<run, client, db, server, udp, pageVars>>

\* The FIFO is open for reading and writing, so the read waits until the server of
\* this run writes, for ever if it does not.
ReadFifo == server[run].fifo /\ ReadNothing

ConnectToServer ==
    /\ aim = "connect"
    /\ aim' = "map"
    /\ client' = [client EXCEPT !.m_is_connected = TRUE]
    /\ UNCHANGED <<run, db, server, udp, pageVars>>

SendMapDraw ==
    /\ aim = "map"
    /\ client.m_is_connected /\ ~ client.m_is_map_sent
    /\ aim' = "running"
    /\ client' = [client EXCEPT !.m_is_map_sent = TRUE]
    /\ Send(MapMsg)
    /\ UNCHANGED <<run, db, server, page, chan, map_rx, markers, early>>

\* The reception stores a vehicle.
VehicleArrives(v) ==
    /\ aim \notin {"dead", "ended"}
    /\ v \notin db
    /\ db' = db \cup {v}
    /\ UNCHANGED <<run, aim, client, server, udp, pageVars>>

CanSend == aim = "running" /\ client.m_is_connected /\ client.m_is_map_sent

\* The updater draws a vehicle it finds in the database.
SendObjectUpdate(v, stationtype, heading) ==
    /\ CanSend /\ v \in db
    /\ Send(Object(v, [stationtype |-> stationtype, heading |-> Printed(heading)]))
    /\ UNCHANGED <<aimVars, server, page, chan, map_rx, markers, early>>

\* The cleaner has a marker removed and erases the vehicle.
SendObjectClean(v) ==
    /\ CanSend /\ v \in db
    /\ db' = db \ {v}
    /\ Send(ObjClean(v))
    /\ UNCHANGED <<run, aim, client, server, page, chan, map_rx, markers, early>>

\* The updater ends by terminatorFlag: the destructor sends "terminate", and nothing
\* that is left in the database is cleaned any more.
Destroy ==
    /\ aim = "running" /\ client.m_is_server_active
    /\ aim' = "ended"
    /\ db' = {}
    /\ client' = [client EXCEPT !.m_is_connected = FALSE, !.m_is_server_active = FALSE]
    /\ udp' = IF Bound # {} /\ Len(udp) < UDPBuffer THEN Append(udp, Terminate) ELSE udp
    /\ missed' = Miss(Pages, Vehicles)
    /\ UNCHANGED <<run, server, page, chan, map_rx, markers, early>>

\* exit() in another thread, a crash or a kill: no destructor runs.
AimDies ==
    /\ aim \notin {"dead", "ended"}
    /\ aim' = "dead"
    /\ db' = {}
    /\ missed' = Miss(Pages, Vehicles)
    /\ UNCHANGED <<run, client, server, udp, page, chan, map_rx, markers, early>>

Respawn ==
    /\ aim \in {"dead", "ended"}
    /\ run < MaxRun
    /\ run' = run + 1
    /\ aim' = "start"
    /\ client' = NewClient
    /\ UNCHANGED <<db, server, udp, pageVars>>

-----------------------------------------------------------------------------
(* The Node.js server                                                      *)

\* The process of server n ends: its ports are free, what is in its socket is lost,
\* and the pages are on their own.
Exit(n, how) ==
    /\ server' = [server EXCEPT ![n] = [@ EXCEPT !.process = how, !.udp = FALSE, !.http = FALSE]]
    /\ udp' = IF server[n].udp THEN <<>> ELSE udp
    /\ missed' = [b \in Pages |->
                     missed[b] \cup (IF server[n].udp THEN Cleaned(udp) ELSE {})
                               \cup (IF server[n].http THEN Cleaned(chan[b]) ELSE {})]
    /\ IF server[n].http
       THEN /\ page' = [b \in Pages |-> IF b \in Connected THEN "offline" ELSE page[b]]
            /\ chan' = [b \in Pages |-> <<>>]
       ELSE UNCHANGED <<page, chan>>
    /\ UNCHANGED <<aimVars, map_rx, markers, early>>

BindSharedUDP(n) ==
    /\ server[n].process = "starting" /\ ~ server[n].udp
    /\ server' = [server EXCEPT ![n] = [@ EXCEPT !.udp = TRUE, !.fifo = TRUE]]
    /\ UNCHANGED <<aimVars, udp, pageVars>>

\* udpSocket.bind, and the callback that writes to the FIFO of the run.  The server has
\* inherited the descriptor AIM has opened the FIFO with, for reading too: the write does
\* not wait for AIM, which may have died, and the server then lives on without it.
BindUDP(n) ==
    /\ server[n].process = "starting" /\ ~ server[n].udp
    /\ Bound = {}
    /\ server' = [server EXCEPT ![n] = [@ EXCEPT !.udp = TRUE, !.fifo = TRUE]]
    /\ UNCHANGED <<aimVars, udp, pageVars>>

HTTPBound == {n \in Runs : server[n].http}

ListenHTTP(n) ==
    /\ server[n].process = "starting" /\ ~ server[n].http
    /\ HTTPBound = {}
    /\ server' = [server EXCEPT ![n].http = TRUE]
    /\ UNCHANGED <<aimVars, udp, pageVars>>

\* A port taken by another server is an error nobody handles: the process ends.
PortTaken(n) ==
    /\ server[n].process = "starting"
    /\ \/ ~ server[n].udp /\ Bound # {}
       \/ ~ server[n].http /\ HTTPBound # {}
    /\ Exit(n, "exited")

\* killall, or no mapbox_token file.
NodeDies(n) == server[n].process = "starting" /\ Exit(n, "exited")

\* io.sockets.send: to every page connected.
Broadcast(bs, m) == [b \in Pages |-> IF b \in bs THEN Append(chan[b], m) ELSE chan[b]]

Room(bs) == \A b \in bs : Len(chan[b]) < PageBuffer

Served(n) == server[n].process = "starting" /\ server[n].udp /\ udp # <<>>

\* The first map message is kept, a second one ends the server.
KeepMap(n) ==
    /\ Served(n) /\ Head(udp) = MapMsg
    /\ IF server[n].mapmsg
       THEN Exit(n, "mapTwice")
       ELSE /\ server' = [server EXCEPT ![n].mapmsg = TRUE]
            /\ udp' = Tail(udp)
            /\ UNCHANGED <<aimVars, pageVars>>

TerminateServer(n) ==
    /\ Served(n) /\ Head(udp) = Terminate
    /\ Exit(n, "exited")

ForwardRemovalsFirst(n) ==
    /\ Served(n) /\ Head(udp) \in Objects \cup ObjCleans
    /\ Room(Connected)
    /\ \E i \in 1 .. Len(udp) :
          /\ udp[i] \in ObjCleans \/ i = 1
          /\ udp' = SubSeq(udp, 1, i - 1) \o SubSeq(udp, i + 1, Len(udp))
          /\ chan' = Broadcast(Connected, udp[i])
          /\ missed' = Miss(Pages \ Connected, Cleaned(<<udp[i]>>))
    /\ UNCHANGED <<aimVars, server, page, map_rx, markers, early>>

\* Every other message goes to the pages, those offline miss it.
Forward(n) ==
    /\ Served(n) /\ Head(udp) \in Objects \cup ObjCleans
    /\ Room(Connected)
    /\ udp' = Tail(udp)
    /\ chan' = Broadcast(Connected, Head(udp))
    /\ missed' = Miss(Pages \ Connected, Cleaned(<<Head(udp)>>))
    /\ UNCHANGED <<aimVars, server, page, map_rx, markers, early>>

ConnectToOthers(n, b) ==
    /\ server[n].process = "starting" /\ server[n].http
    /\ page[b] # "connected"
    /\ Room(Connected)
    /\ page' = [page EXCEPT ![b] = "connected"]
    /\ chan' = Broadcast(Connected, IF server[n].mapmsg THEN MapMsg ELSE NullMsg)
    /\ early' = IF server[n].mapmsg THEN early \ {b} ELSE early \cup {b}
    /\ missed' = [missed EXCEPT ![b] = IF page[b] = "closed" THEN @ \cap Drawn(udp) ELSE @]
    /\ UNCHANGED <<aimVars, server, udp, map_rx, markers>>

\* io.on('connection'): the map message, or null, goes to every page connected.
Connect(n, b) ==
    /\ server[n].process = "starting" /\ server[n].http
    /\ page[b] # "connected"
    /\ Room(Connected \cup {b})
    /\ page' = [page EXCEPT ![b] = "connected"]
    /\ chan' = Broadcast(Connected \cup {b}, IF server[n].mapmsg THEN MapMsg ELSE NullMsg)
    /\ early' = IF server[n].mapmsg THEN early \ {b} ELSE early \cup {b}
    /\ missed' = [missed EXCEPT ![b] = IF page[b] = "closed" THEN @ \cap Drawn(udp) ELSE @]
    /\ UNCHANGED <<aimVars, server, udp, map_rx, markers>>

-----------------------------------------------------------------------------
(* The page                                                                *)

NoMarkers == [v \in {} |-> 0]

\* The connection breaks: socket.io will connect the same page again.
Disconnect(b) ==
    /\ page[b] = "connected"
    /\ page' = [page EXCEPT ![b] = "offline"]
    /\ chan' = [chan EXCEPT ![b] = <<>>]
    /\ missed' = Miss({b}, Cleaned(chan[b]))
    /\ UNCHANGED <<aimVars, server, udp, map_rx, markers, early>>

\* The page is closed, or loaded again.
Close(b) ==
    /\ page[b] # "closed"
    /\ page' = [page EXCEPT ![b] = "closed"]
    /\ chan' = [chan EXCEPT ![b] = <<>>]
    /\ map_rx' = [map_rx EXCEPT ![b] = FALSE]
    /\ markers' = [markers EXCEPT ![b] = NoMarkers]
    /\ early' = early \ {b}
    /\ UNCHANGED <<aimVars, server, udp, missed>>

Receive(b, m) ==
    /\ page[b] = "connected"
    /\ chan[b] # <<>> /\ Head(chan[b]) = m
    /\ chan' = [chan EXCEPT ![b] = Tail(@)]
    /\ UNCHANGED <<aimVars, server, udp, page, missed, early>>

ReceiveNull(b) == Receive(b, NullMsg) /\ UNCHANGED <<map_rx, markers>>

ReceiveMap(b) ==
    /\ Receive(b, MapMsg)
    /\ map_rx' = [map_rx EXCEPT ![b] = TRUE]
    /\ UNCHANGED markers

Unavailable(look) == look.heading >= 10 * VIS_HEADING_INVALID

\* update_marker: the icon and the popup of a marker that is new.
NewMarker(look) ==
    [icon |-> IF look.stationtype = 0 THEN "greenCircle"
              ELSE IF Unavailable(look) THEN "circle" ELSE "car",
     popup |-> IF Unavailable(look) THEN "unavailable" ELSE "degrees",
     look |-> look]

StickyMarker(old, look) ==
    [icon |-> IF look.stationtype = 0 /\ old.icon = "circle" THEN "greenCircle"
              ELSE IF Unavailable(look) /\ old.icon = "car" THEN "circle"
              ELSE IF ~ Unavailable(look) /\ old.icon = "circle" THEN "car" ELSE old.icon,
     popup |-> IF Unavailable(look) /\ old.icon = "car" THEN "unavailable"
               ELSE IF ~ Unavailable(look) THEN "degrees" ELSE old.popup,
     look |-> look]

\* ... and of one that is there, which depend on the icon it has.
ChangedMarker(old, look) ==
    [icon |-> IF look.stationtype = 0
              THEN IF old.icon \in {"car", "circle"} THEN "greenCircle" ELSE old.icon
              ELSE IF Unavailable(look)
              THEN IF old.icon \in {"car", "greenCircle"} THEN "circle" ELSE old.icon
              ELSE IF old.icon \in {"circle", "greenCircle"} THEN "car" ELSE old.icon,
     popup |-> IF Unavailable(look) /\ old.icon = "car" THEN "unavailable"
               ELSE IF ~ Unavailable(look) THEN "degrees" ELSE old.popup,
     look |-> look]

ReceiveKnownObject(b) ==
    \E v \in Vehicles, look \in Looks :
        /\ Receive(b, Object(v, look))
        /\ markers' = [markers EXCEPT ![b] =
                          [w \in DOMAIN @ |-> IF w = v THEN ChangedMarker(@[v], look) ELSE @[w]]]
        /\ UNCHANGED map_rx

\* Without a map an object is refused.
ReceiveObject(b) ==
    \E v \in Vehicles, look \in Looks :
        /\ Receive(b, Object(v, look))
        /\ markers' =
              IF ~ map_rx[b] THEN markers
              ELSE [markers EXCEPT ![b] =
                       [w \in DOMAIN @ \cup {v} |->
                           IF w # v THEN @[w]
                           ELSE IF v \in DOMAIN @ THEN ChangedMarker(@[v], look) ELSE NewMarker(look)]]
        /\ UNCHANGED map_rx

ReceiveObjClean(b) ==
    \E v \in Vehicles :
        /\ Receive(b, ObjClean(v))
        /\ markers' = [markers EXCEPT ![b] = [w \in DOMAIN @ \ {v} |-> @[w]]]
        /\ UNCHANGED map_rx

-----------------------------------------------------------------------------
Init ==
    /\ run = 1
    /\ aim = "start"
    /\ client = NewClient
    /\ db = {}
    /\ server = [n \in Runs |-> NoServer]
    /\ udp = <<>>
    /\ page = [b \in Pages |-> "closed"]
    /\ chan = [b \in Pages |-> <<>>]
    /\ map_rx = [b \in Pages |-> FALSE]
    /\ markers = [b \in Pages |-> NoMarkers]
    /\ missed = [b \in Pages |-> {}]
    /\ early = {}

AimNext ==
    \/ StartServer \/ ReadFifo \/ ConnectToServer \/ SendMapDraw
    \/ \E v \in Vehicles :
          \/ VehicleArrives(v) \/ SendObjectClean(v)
          \/ \E t \in StationTypes, h \in Headings : SendObjectUpdate(v, t, h)
    \/ Destroy \/ AimDies \/ Respawn

ServerNext ==
    \E n \in Runs :
        \/ BindUDP(n) \/ ListenHTTP(n) \/ PortTaken(n) \/ NodeDies(n)
        \/ KeepMap(n) \/ TerminateServer(n) \/ Forward(n)
        \/ \E b \in Pages : Connect(n, b)

PageReceives(b) == ReceiveNull(b) \/ ReceiveMap(b) \/ ReceiveObject(b) \/ ReceiveObjClean(b)

PageNext == \E b \in Pages : Disconnect(b) \/ Close(b) \/ PageReceives(b)

Next == AimNext \/ ServerNext \/ PageNext

Spec == Init /\ [][Next]_vars

\* A server handles what its socket holds, a page what reaches it, and the updater,
\* every half second, draws each vehicle: again and again with room in the socket.
Fairness ==
    /\ \A n \in Runs : WF_vars(KeepMap(n) \/ TerminateServer(n) \/ Forward(n))
    /\ \A b \in Pages : WF_vars(PageReceives(b))
    /\ \A v \in Vehicles :
          SF_vars(/\ Len(udp) < UDPBuffer
                  /\ \E t \in StationTypes, h \in Headings : SendObjectUpdate(v, t, h))

FairSpec == Spec /\ Fairness

-----------------------------------------------------------------------------
(* Properties                                                              *)

\* The types, and: a port has one server, a socket without a server is empty.
TypeOK ==
    /\ run \in Runs
    /\ aim \in {"start", "reading", "connect", "map", "running", "ended", "dead"}
    /\ client \in [m_is_connected : BOOLEAN, m_is_map_sent : BOOLEAN, m_is_server_active : BOOLEAN]
    /\ db \subseteq Vehicles
    /\ \A n \in Runs :
          /\ server[n].process \in {"none", "starting", "exited", "mapTwice"}
          /\ {server[n].udp, server[n].http, server[n].mapmsg, server[n].fifo} \subseteq BOOLEAN
    /\ Cardinality(Bound) <= 1 /\ Cardinality(HTTPBound) <= 1
    /\ Len(udp) <= UDPBuffer /\ (Bound = {} => udp = <<>>)
    /\ \A i \in 1 .. Len(udp) : udp[i] \in Objects \cup ObjCleans \cup {MapMsg, Terminate}
    /\ \A b \in Pages :
          /\ page[b] \in {"closed", "connected", "offline"}
          /\ Len(chan[b]) <= PageBuffer
          /\ \A i \in 1 .. Len(chan[b]) : chan[b][i] \in Objects \cup ObjCleans \cup {MapMsg, NullMsg}
          /\ map_rx[b] \in BOOLEAN
          /\ DOMAIN markers[b] \subseteq Vehicles /\ missed[b] \subseteq Vehicles
    /\ early \subseteq Pages

\* server.js ends the server that receives a second map message.  None does, through
\* every crash and restart, though a server whose AIM has died lives on and may take the
\* port, and the map, of a later run: AIM waits for its own server to have the port, and a
\* server that has it keeps it to its end.
OneMapPerServer == \A n \in Runs : server[n].process # "mapTwice"

\* A marker on a page stands for a vehicle in the database, unless its removal is under
\* way, or was lost to a full socket, to a page offline, or to the end of AIM or of the
\* server: no interleaving of updates and removals leaves one behind.
NoGhost ==
    \A b \in Open : \A v \in DOMAIN markers[b] :
        \/ v \in db \/ v \in missed[b]
        \/ Within(udp, ObjClean(v)) \/ Within(chan[b], ObjClean(v))

\* server.js: the first message to a page is the map, before any moving object - for a
\* page that connects once the server has it.
MapFirst ==
    \A b \in Connected \ early :
        ~ map_rx[b] =>
            \E i \in 1 .. Len(chan[b]) :
                /\ chan[b][i] = MapMsg
                /\ \A j \in 1 .. i : chan[b][j] \notin Objects

\* The icon of a marker says what the last update said, whatever icons it had before.
IconRight ==
    \A b \in Pages : \A v \in DOMAIN markers[b] :
        markers[b][v].icon = NewMarker(markers[b][v].look).icon

\* A vehicle that stays in the database comes to be on every page that has the map and
\* stays connected, though single updates are lost.
VehicleAppears ==
    \A v \in Vehicles, b \in Pages :
        v \in db /\ CanSend /\ page[b] = "connected" /\ map_rx[b] /\ server[run].http
            ~> \/ v \in DOMAIN markers[b] \/ v \notin db
               \/ page[b] # "connected" \/ ~ CanSend \/ ~ server[run].udp

\* vehicle-visualizer.cc: AIM waits until its server has come up - or has failed to.
ServerAwaited == aim = "reading" ~> aim # "reading"

\* server.js: every page gets the map as its first message.
EveryPageGetsMap ==
    \A b \in Pages :
        page[b] = "connected" /\ server[run].mapmsg /\ server[run].http
            ~> map_rx[b] \/ page[b] # "connected"

\* map_render.js: a vehicle whose heading is not available is a circle, not a triangle.
CircleIfUnavailable ==
    \A b \in Pages : \A v \in DOMAIN markers[b] :
        LET look == markers[b][v].look
        IN  look.stationtype # 0 /\ look.heading = Printed(3601) => markers[b][v].icon = "circle"
=============================================================================
