-------------------------- MODULE VehVisualizerProofs --------------------------
(***************************************************************************)
(* Proofs of the invariants of VehVisualizer: a server gets one map        *)
(* message, no marker is left behind without a reason, the map comes       *)
(* first, and icons are those of the last update - for any number of       *)
(* vehicles, pages and runs of AIM, and any size of the buffers.           *)
(***************************************************************************)
EXTENDS VehVisualizer, FiniteSetTheorems, TLAPS

-----------------------------------------------------------------------------
(* The inductive invariant                                                 *)

UdpMsgs == Objects \cup ObjCleans \cup {MapMsg, Terminate}
PageMsgs == Objects \cup ObjCleans \cup {MapMsg, NullMsg}

Processes == {"none", "starting", "exited", "mapTwice"}

Servers == [process : Processes, udp : BOOLEAN, http : BOOLEAN, mapmsg : BOOLEAN, fifo : BOOLEAN]

AimTypes ==
    /\ run \in Runs
    /\ aim \in {"start", "reading", "connect", "map", "running", "ended", "dead"}
    /\ client \in [m_is_connected : BOOLEAN, m_is_map_sent : BOOLEAN, m_is_server_active : BOOLEAN]
    /\ db \subseteq Vehicles

ServerTypes ==
    /\ server \in [Runs -> Servers]
    /\ udp \in Seq(UdpMsgs) /\ Len(udp) <= UDPBuffer

PageTypes ==
    /\ page \in [Pages -> {"closed", "connected", "offline"}]
    /\ chan \in [Pages -> Seq(PageMsgs)]
    /\ \A b \in Pages : Len(chan[b]) <= PageBuffer
    /\ map_rx \in [Pages -> BOOLEAN]
    /\ markers = [b \in Pages |-> markers[b]]
    /\ \A b \in Pages : DOMAIN markers[b] \subseteq Vehicles
    /\ missed \in [Pages -> SUBSET Vehicles]
    /\ early \subseteq Pages

\* A port has one server, and a socket without a server is empty.
Ports ==
    /\ \A m, n \in Runs : server[m].udp /\ server[n].udp => m = n
    /\ \A m, n \in Runs : server[m].http /\ server[n].http => m = n
    /\ (\A n \in Runs : ~ server[n].udp) => udp = <<>>

\* A server that reads its socket.
Live(n) == server[n].process = "starting" /\ server[n].udp

\* The servers of the runs to come are not there, and one without a socket has no map.
Started ==
    /\ \A n \in Runs : n > run => server[n] = NoServer
    /\ aim = "start" => server[run] = NoServer
    /\ \A n \in Runs : ~ server[n].udp /\ server[n].process = "starting" => ~ server[n].mapmsg

\* AIM only connects and sends its map once the server of its run has had the port.
Ready == aim \in {"connect", "map"} => server[run].fifo

\* The server of the run has had the port and the map of the run is not sent yet.
MapDue == server[run].fifo /\ aim \in {"reading", "connect", "map"}

Single(msgs) == \A i, j \in 1 .. Len(msgs) : msgs[i] = MapMsg /\ msgs[j] = MapMsg => i = j

\* One map message at most is in the socket or was kept, and none while one is due: the
\* server that has the port then, be it of an earlier run, bound it after the end of all
\* that got a map.
OneMap ==
    /\ \A n \in Runs : Live(n) =>
          /\ Single(udp)
          /\ server[n].mapmsg => ~ Within(udp, MapMsg)
          /\ MapDue => ~ Within(udp, MapMsg) /\ ~ server[n].mapmsg
    /\ OneMapPerServer

Later(msgs, i, m) == \E j \in i + 1 .. Len(msgs) : msgs[j] = m

\* Only a page that is connected has messages under way, and a closed one shows nothing.
Silent ==
    \A b \in Pages :
        /\ page[b] # "connected" => chan[b] = <<>>
        /\ page[b] = "closed" => DOMAIN markers[b] = {}

\* An update that is under way is of a vehicle in the database, or its removal follows,
\* or was missed.
UdpFollowed ==
    \A v \in Vehicles, look \in Looks : \A i \in 1 .. Len(udp) :
        udp[i] = Object(v, look) =>
            v \in db \/ Later(udp, i, ObjClean(v)) \/ \A b \in Pages : v \in missed[b]

ChanFollowed ==
    \A b \in Pages, v \in Vehicles, look \in Looks : \A i \in 1 .. Len(chan[b]) :
        chan[b][i] = Object(v, look) =>
            \/ v \in db \/ v \in missed[b]
            \/ Within(udp, ObjClean(v)) \/ Later(chan[b], i, ObjClean(v))

Followed == UdpFollowed /\ ChanFollowed /\ NoGhost

IInv ==
    /\ AimTypes /\ ServerTypes /\ PageTypes
    /\ Ports /\ Started /\ Ready /\ OneMap
    /\ Silent /\ Followed /\ MapFirst /\ IconRight

-----------------------------------------------------------------------------
(* Messages and sequences                                                  *)

\* Messages are told apart by their kind, and a vehicle by its identifier.
LEMMA Kinds ==
  /\ MapMsg # Terminate /\ MapMsg # NullMsg
  /\ \A v \in Vehicles : /\ ObjClean(v) # MapMsg /\ ObjClean(v) # Terminate /\ ObjClean(v) # NullMsg
                         /\ \A w \in Vehicles : ObjClean(v) = ObjClean(w) => v = w
  /\ \A v \in Vehicles, look \in Looks :
        /\ Object(v, look) # MapMsg /\ Object(v, look) # Terminate /\ Object(v, look) # NullMsg
        /\ \A w \in Vehicles : Object(v, look) # ObjClean(w)
        /\ \A w \in Vehicles, other \in Looks : Object(v, look) = Object(w, other) => v = w /\ look = other
<1>1. \A v \in Vehicles : ObjClean(v).kind = "objclean" /\ ObjClean(v).id = v
  BY DEF ObjClean
<1>2. \A v \in Vehicles, look \in Looks :
         Object(v, look).kind = "object" /\ Object(v, look).id = v /\ Object(v, look).look = look
  BY DEF Object
<1>3. MapMsg.kind = "map" /\ NullMsg.kind = "null" /\ Terminate.kind = "terminate"
  BY DEF MapMsg, NullMsg, Terminate
<1> QED
  BY <1>1, <1>2, <1>3

LEMMA Sorts ==
  /\ \A m \in Objects : \E v \in Vehicles, look \in Looks : m = Object(v, look)
  /\ \A v \in Vehicles, look \in Looks : Object(v, look) \in Objects
  /\ \A m \in ObjCleans : \E v \in Vehicles : m = ObjClean(v)
  /\ \A v \in Vehicles : ObjClean(v) \in ObjCleans
  /\ MapMsg \notin Objects \cup ObjCleans /\ Terminate \notin Objects \cup ObjCleans
  /\ NullMsg \notin Objects
  /\ Objects \cap ObjCleans = {}
BY Kinds DEF Objects, ObjCleans

LEMMA AppendFacts ==
  ASSUME NEW T, NEW s \in Seq(T), NEW m \in T
  PROVE  /\ Append(s, m) \in Seq(T)
         /\ Len(s) \in Nat /\ Len(Append(s, m)) = Len(s) + 1
         /\ \A i \in 1 .. Len(s) : Append(s, m)[i] = s[i]
         /\ Append(s, m)[Len(s) + 1] = m
OBVIOUS

LEMMA TailFacts ==
  ASSUME NEW T, NEW s \in Seq(T), s # <<>>
  PROVE  /\ Tail(s) \in Seq(T)
         /\ Len(s) \in Nat \ {0} /\ Len(Tail(s)) = Len(s) - 1
         /\ \A i \in 1 .. Len(s) - 1 : Tail(s)[i] = s[i + 1]
         /\ Head(s) = s[1] /\ Head(s) \in T
OBVIOUS

LEMMA WithinAppend ==
  ASSUME NEW T, NEW s \in Seq(T), NEW m \in T, NEW x
  PROVE  Within(Append(s, m), x) <=> Within(s, x) \/ m = x
<1>1. Len(s) + 1 \in 1 .. Len(Append(s, m)) /\ Append(s, m)[Len(s) + 1] = m
  BY AppendFacts
<1>2. \A i \in 1 .. Len(s) : i \in 1 .. Len(Append(s, m)) /\ Append(s, m)[i] = s[i]
  BY AppendFacts
<1>3. \A i \in 1 .. Len(Append(s, m)) : i = Len(s) + 1 \/ i \in 1 .. Len(s)
  BY AppendFacts
<1> QED
  BY <1>1, <1>2, <1>3 DEF Within

\* A message other than the first is still there when the first was taken.
LEMMA WithinTail ==
  ASSUME NEW T, NEW s \in Seq(T), s # <<>>, NEW x
  PROVE  Within(s, x) <=> s[1] = x \/ Within(Tail(s), x)
<1>1. /\ Len(s) \in Nat \ {0} /\ Len(Tail(s)) = Len(s) - 1
      /\ \A i \in 1 .. Len(s) - 1 : Tail(s)[i] = s[i + 1]
  BY TailFacts
<1>2. ASSUME Within(s, x), s[1] # x PROVE Within(Tail(s), x)
  <2>1. PICK i \in 1 .. Len(s) : s[i] = x
    BY <1>2 DEF Within
  <2>2. i - 1 \in 1 .. Len(Tail(s)) /\ Tail(s)[i - 1] = x
    BY <1>1, <1>2, <2>1
  <2> QED
    BY <2>2 DEF Within
<1>3. ASSUME Within(Tail(s), x) PROVE Within(s, x)
  <2>1. PICK i \in 1 .. Len(Tail(s)) : Tail(s)[i] = x
    BY <1>3 DEF Within
  <2>2. i + 1 \in 1 .. Len(s) /\ s[i + 1] = x
    BY <1>1, <2>1
  <2> QED
    BY <2>2 DEF Within
<1>4. s[1] = x => Within(s, x)
  BY <1>1 DEF Within
<1> QED
  BY <1>2, <1>3, <1>4

LEMMA SingleTail ==
  ASSUME NEW T, NEW s \in Seq(T), s # <<>>, Single(s)
  PROVE  Single(Tail(s)) /\ (s[1] = MapMsg => ~ Within(Tail(s), MapMsg))
<1>1. /\ Len(s) \in Nat \ {0} /\ Len(Tail(s)) = Len(s) - 1
      /\ \A i \in 1 .. Len(s) - 1 : Tail(s)[i] = s[i + 1]
  BY TailFacts
<1>2. \A i \in 1 .. Len(Tail(s)) : i + 1 \in 1 .. Len(s) /\ Tail(s)[i] = s[i + 1] /\ i + 1 # 1
  BY <1>1
<1>3. \A i, j \in 1 .. Len(Tail(s)) : i + 1 = j + 1 => i = j
  BY <1>1
<1>4. 1 \in 1 .. Len(s)
  BY <1>1
<1> QED
  BY <1>2, <1>3, <1>4 DEF Single, Within

LEMMA SingleAppend ==
  ASSUME NEW T, NEW s \in Seq(T), NEW m \in T, Single(s), m = MapMsg => ~ Within(s, MapMsg)
  PROVE  Single(Append(s, m))
<1>1. \A i \in 1 .. Len(Append(s, m)) : \/ i = Len(s) + 1 /\ Append(s, m)[i] = m
                                        \/ i \in 1 .. Len(s) /\ Append(s, m)[i] = s[i]
  <2>1. \A i \in 1 .. Len(Append(s, m)) : i = Len(s) + 1 \/ i \in 1 .. Len(s)
    BY AppendFacts
  <2>2. Append(s, m)[Len(s) + 1] = m /\ \A i \in 1 .. Len(s) : Append(s, m)[i] = s[i]
    BY AppendFacts
  <2> QED
    BY <2>1, <2>2
<1> QED
  BY <1>1 DEF Single, Within

\* What is sent comes to the end of the socket, or is lost, and every page misses it.
LEMMA SendFacts ==
  ASSUME IInv, NEW m \in UdpMsgs, Send(m)
  PROVE  /\ udp' \in Seq(UdpMsgs) /\ Len(udp') <= UDPBuffer /\ Len(udp) \in Nat
         /\ \/ Bound # {} /\ udp' = Append(udp, m) /\ missed' = missed
            \/ udp' = udp /\ missed' = Miss(Pages, Cleaned(<<m>>))
<1>1. UDPBuffer \in Nat /\ udp \in Seq(UdpMsgs) /\ Len(udp) <= UDPBuffer
  BY VehVisualizerAssumption DEF IInv, ServerTypes
<1>2. CASE Bound # {} /\ Len(udp) < UDPBuffer
  BY <1>1, <1>2, AppendFacts DEF Send
<1>3. CASE ~ (Bound # {} /\ Len(udp) < UDPBuffer)
  BY <1>1, <1>3 DEF Send
<1> QED
  BY <1>2, <1>3

LEMMA MissFacts ==
  ASSUME NEW bs, NEW vs \in SUBSET Vehicles, missed \in [Pages -> SUBSET Vehicles]
  PROVE  /\ Miss(bs, vs) \in [Pages -> SUBSET Vehicles]
         /\ \A b \in Pages : missed[b] \subseteq Miss(bs, vs)[b] /\ (b \in bs => vs \subseteq Miss(bs, vs)[b])
BY DEF Miss

LEMMA CleanedOne ==
  ASSUME NEW m
  PROVE  Cleaned(<<m>>) \subseteq Vehicles /\ \A v \in Vehicles : v \in Cleaned(<<m>>) <=> m = ObjClean(v)
BY DEF Cleaned, Within

LEMMA CleanedFacts ==
  ASSUME NEW s
  PROVE  Cleaned(s) \subseteq Vehicles /\ \A v \in Vehicles : Within(s, ObjClean(v)) => v \in Cleaned(s)
BY DEF Cleaned

\* What the end of a server leaves.
LEMMA ExitFacts ==
  ASSUME IInv, NEW n \in Runs, NEW how \in {"exited", "mapTwice"}, Exit(n, how)
  PROVE  /\ server' = [server EXCEPT ![n] = [@ EXCEPT !.process = how, !.udp = FALSE, !.http = FALSE]]
         /\ udp' = IF server[n].udp THEN <<>> ELSE udp
         /\ udp' \in Seq(UdpMsgs) /\ Len(udp') <= UDPBuffer
         /\ missed' \in [Pages -> SUBSET Vehicles] /\ \A b \in Pages : missed[b] \subseteq missed'[b]
         /\ server[n].udp => \A b \in Pages : Cleaned(udp) \subseteq missed'[b]
         /\ server[n].http => \A b \in Pages : /\ Cleaned(chan[b]) \subseteq missed'[b]
                                               /\ chan'[b] = <<>>
                                               /\ page'[b] = IF page[b] = "connected" THEN "offline" ELSE page[b]
         /\ page' \in [Pages -> {"closed", "connected", "offline"}]
         /\ chan' \in [Pages -> Seq(PageMsgs)]
         /\ ~ server[n].http => UNCHANGED <<page, chan>>
         /\ UNCHANGED <<aimVars, map_rx, markers, early>>
<1>1. UDPBuffer \in Nat /\ udp \in Seq(UdpMsgs) /\ Len(udp) <= UDPBuffer
  BY VehVisualizerAssumption DEF IInv, ServerTypes
<1>2. udp' \in Seq(UdpMsgs) /\ Len(udp') <= UDPBuffer
  BY <1>1 DEF Exit
<1>3. /\ \A b \in Pages : missed[b] \subseteq Vehicles
      /\ missed' = [b \in Pages |-> missed[b] \cup (IF server[n].udp THEN Cleaned(udp) ELSE {})
                                              \cup (IF server[n].http THEN Cleaned(chan[b]) ELSE {})]
  BY DEF IInv, PageTypes, Exit
<1>4. Cleaned(udp) \subseteq Vehicles /\ \A b \in Pages : Cleaned(chan[b]) \subseteq Vehicles
  BY DEF Cleaned
<1>5. missed' \in [Pages -> SUBSET Vehicles] /\ \A b \in Pages : missed[b] \subseteq missed'[b]
  BY <1>3, <1>4
<1>6. page \in [Pages -> {"closed", "connected", "offline"}] /\ chan \in [Pages -> Seq(PageMsgs)]
  BY DEF IInv, PageTypes
<1>7. <<>> \in Seq(PageMsgs)
  OBVIOUS
<1>8. CASE server[n].http
  <2>1. page' = [b \in Pages |-> IF b \in Connected THEN "offline" ELSE page[b]] /\ chan' = [b \in Pages |-> <<>>]
    BY <1>8 DEF Exit
  <2> QED
    BY <1>2, <1>3, <1>5, <1>6, <1>7, <1>8, <2>1 DEF Exit, Connected
<1>9. CASE ~ server[n].http
  BY <1>2, <1>3, <1>5, <1>6, <1>9 DEF Exit
<1> QED
  BY <1>8, <1>9

LEMMA ExitServer ==
  ASSUME IInv, NEW n \in Runs, NEW how \in {"exited", "mapTwice"}, Exit(n, how)
  PROVE  /\ server' \in [Runs -> Servers]
         /\ server'[n].process = how /\ ~ server'[n].udp /\ ~ server'[n].http
         /\ server'[n].mapmsg = server[n].mapmsg /\ server'[n].fifo = server[n].fifo
         /\ \A m \in Runs \ {n} : server'[m] = server[m]
<1>1. server \in [Runs -> Servers] /\ server[n] \in Servers
  BY DEF IInv, ServerTypes
<1> DEFINE r == [server[n] EXCEPT !.process = how, !.udp = FALSE, !.http = FALSE]
<1>2. /\ r \in Servers /\ r.process = how /\ ~ r.udp /\ ~ r.http
      /\ r.mapmsg = server[n].mapmsg /\ r.fifo = server[n].fifo
  BY <1>1 DEF Servers, Processes
<1>3. server' = [server EXCEPT ![n] = r]
  BY DEF Exit
<1> HIDE DEF r
<1> QED
  BY <1>1, <1>2, <1>3

\* A server that binds the port, whether AIM waits for it or not.
LEMMA BindFacts ==
  ASSUME IInv, NEW n \in Runs, BindUDP(n)
  PROVE  /\ \A m \in Runs : ~ server[m].udp
         /\ server[n].process = "starting" /\ server'[n].process = "starting"
         /\ server' \in [Runs -> Servers]
         /\ server'[n].udp /\ server'[n].http = server[n].http /\ server'[n].mapmsg = server[n].mapmsg
         /\ server'[n].fifo
         /\ \A m \in Runs \ {n} : server'[m] = server[m]
         /\ UNCHANGED <<aimVars, udp, pageVars>>
<1>1. server \in [Runs -> Servers] /\ server[n] \in Servers
  BY DEF IInv, ServerTypes
<1> DEFINE r == [server[n] EXCEPT !.udp = TRUE, !.fifo = TRUE]
<1>2. r \in Servers /\ r.udp /\ r.fifo /\ r.http = server[n].http /\ r.mapmsg = server[n].mapmsg
  BY <1>1 DEF Servers, Processes
<1>3. r.process = server[n].process
  BY <1>1 DEF Servers
<1>4. server' = [server EXCEPT ![n] = r] /\ server[n].process = "starting" /\ UNCHANGED <<aimVars, udp, pageVars>>
  BY DEF BindUDP
<1>5. \A m \in Runs : ~ server[m].udp
  BY DEF BindUDP, Bound
<1> HIDE DEF r
<1> QED
  BY <1>1, <1>2, <1>3, <1>4, <1>5

\* One that binds the other port.
LEMMA ListenFacts ==
  ASSUME IInv, NEW n \in Runs, ListenHTTP(n)
  PROVE  /\ \A m \in Runs : ~ server[m].http
         /\ server[n].process = "starting"
         /\ server' \in [Runs -> Servers]
         /\ server'[n].http /\ server'[n].process = server[n].process
         /\ server'[n].udp = server[n].udp /\ server'[n].mapmsg = server[n].mapmsg /\ server'[n].fifo = server[n].fifo
         /\ \A m \in Runs \ {n} : server'[m] = server[m]
         /\ UNCHANGED <<aimVars, udp, pageVars>>
<1>1. server \in [Runs -> Servers] /\ server[n] \in Servers
  BY DEF IInv, ServerTypes
<1> QED
  BY <1>1 DEF ListenHTTP, HTTPBound, Servers

-----------------------------------------------------------------------------
(* Types                                                                   *)

LEMMA OthersLeaveAim == ServerNext \/ PageNext => UNCHANGED aimVars
<1>1. ASSUME NEW n \in Runs,
             \/ BindUDP(n) \/ ListenHTTP(n) \/ PortTaken(n) \/ NodeDies(n)
             \/ KeepMap(n) \/ TerminateServer(n) \/ Forward(n)
             \/ \E b \in Pages : Connect(n, b)
      PROVE  UNCHANGED aimVars
  BY <1>1 DEF BindUDP, ListenHTTP, PortTaken, NodeDies, KeepMap, TerminateServer, Forward, Connect, Exit
<1>2. ASSUME NEW b \in Pages, Disconnect(b) \/ Close(b) \/ PageReceives(b)
      PROVE  UNCHANGED aimVars
  BY <1>2 DEF Disconnect, Close, PageReceives, ReceiveNull, ReceiveMap, ReceiveObject, ReceiveObjClean, Receive
<1> QED
  BY <1>1, <1>2 DEF ServerNext, PageNext

LEMMA NextAimTypes == ASSUME IInv, [Next]_vars PROVE AimTypes'
<1> USE DEF AimTypes
<1>0. AimTypes
  BY DEF IInv
<1>1. CASE StartServer \/ ReadFifo \/ ConnectToServer \/ SendMapDraw
  BY <1>0, <1>1 DEF StartServer, ReadFifo, ReadNothing, ConnectToServer, SendMapDraw
<1>2. ASSUME NEW v \in Vehicles, VehicleArrives(v) \/ SendObjectClean(v) PROVE AimTypes'
  BY <1>0, <1>2 DEF VehicleArrives, SendObjectClean
<1>3. ASSUME NEW v \in Vehicles, NEW t, NEW h, SendObjectUpdate(v, t, h) PROVE AimTypes'
  BY <1>0, <1>3 DEF SendObjectUpdate, aimVars
<1>4. CASE Destroy \/ AimDies
  BY <1>0, <1>4 DEF Destroy, AimDies
<1>5. CASE Respawn
  BY <1>0, <1>5, VehVisualizerAssumption DEF Respawn, NewClient, Runs
<1>6. CASE ServerNext \/ PageNext \/ UNCHANGED vars
  BY <1>0, <1>6, OthersLeaveAim DEF vars, aimVars
<1> QED
  BY <1>1, <1>2, <1>3, <1>4, <1>5, <1>6 DEF Next, AimNext

\* A datagram that is taken leaves the rest.
LEMMA ServedFacts ==
  ASSUME IInv, NEW n \in Runs, Served(n)
  PROVE  /\ server[n].udp /\ server[n].process = "starting"
         /\ udp # <<>> /\ Tail(udp) \in Seq(UdpMsgs) /\ Len(Tail(udp)) <= UDPBuffer
<1>1. udp \in Seq(UdpMsgs) /\ Len(udp) <= UDPBuffer /\ udp # <<>> /\ UDPBuffer \in Nat
  BY VehVisualizerAssumption DEF IInv, ServerTypes, Served
<1> QED
  BY <1>1, TailFacts DEF Served

LEMMA NextServerTypes == ASSUME IInv, [Next]_vars PROVE ServerTypes'
<1> USE DEF ServerTypes
<1>0. ServerTypes /\ run \in Runs
  BY DEF IInv, AimTypes
<1>1. ASSUME NEW m \in UdpMsgs, Send(m), UNCHANGED server PROVE ServerTypes'
  BY <1>0, <1>1, SendFacts
<1>2. CASE StartServer
  BY <1>0, <1>2 DEF StartServer, Servers, Processes
<1>3. CASE ReadFifo \/ ConnectToServer \/ AimDies \/ Respawn
  BY <1>0, <1>3 DEF ReadFifo, ReadNothing, ConnectToServer, AimDies, Respawn
<1>4. CASE SendMapDraw
  BY <1>1, <1>4 DEF SendMapDraw, UdpMsgs
<1>5. ASSUME NEW v \in Vehicles, VehicleArrives(v) \/ SendObjectClean(v) PROVE ServerTypes'
  BY <1>0, <1>1, <1>5, Sorts DEF VehicleArrives, SendObjectClean, UdpMsgs
<1>6. ASSUME NEW v \in Vehicles, NEW t \in StationTypes, NEW h \in Headings, SendObjectUpdate(v, t, h)
      PROVE  ServerTypes'
  <2>1. [stationtype |-> t, heading |-> Printed(h)] \in Looks
    BY DEF Looks
  <2> QED
    BY <1>1, <1>6, <2>1, Sorts DEF SendObjectUpdate, UdpMsgs
<1>7. CASE Destroy
  <2>1. Terminate \in UdpMsgs /\ udp \in Seq(UdpMsgs) /\ UDPBuffer \in Nat
    BY <1>0, VehVisualizerAssumption DEF UdpMsgs
  <2>2. udp' = (IF Bound # {} /\ Len(udp) < UDPBuffer THEN Append(udp, Terminate) ELSE udp) /\ UNCHANGED server
    BY <1>7 DEF Destroy
  <2> QED
    BY <1>0, <2>1, <2>2, AppendFacts
<1>8. ASSUME NEW n \in Runs, NEW how \in {"exited", "mapTwice"}, Exit(n, how) PROVE ServerTypes'
  BY <1>8, ExitFacts, ExitServer
<1>9. ASSUME NEW n \in Runs, BindUDP(n) \/ ListenHTTP(n) PROVE ServerTypes'
  BY <1>0, <1>9, BindFacts, ListenFacts DEF pageVars
<1>10. ASSUME NEW n \in Runs, PortTaken(n) \/ NodeDies(n) \/ TerminateServer(n) PROVE ServerTypes'
  BY <1>8, <1>10 DEF PortTaken, NodeDies, TerminateServer
<1>11. ASSUME NEW n \in Runs, KeepMap(n) PROVE ServerTypes'
  <2>1. CASE server[n].mapmsg
    BY <1>8, <1>11, <2>1 DEF KeepMap
  <2>2. CASE ~ server[n].mapmsg
    <3>1. server' = [server EXCEPT ![n].mapmsg = TRUE] /\ udp' = Tail(udp) /\ Served(n)
      BY <1>11, <2>2 DEF KeepMap
    <3>2. server' \in [Runs -> Servers]
      BY <1>0, <3>1 DEF Servers
    <3> QED
      BY <3>1, <3>2, ServedFacts
  <2> QED
    BY <2>1, <2>2
<1>12. ASSUME NEW n \in Runs, Forward(n) PROVE ServerTypes'
  BY <1>0, <1>12, ServedFacts DEF Forward
<1>13. ASSUME NEW n \in Runs, NEW b \in Pages, Connect(n, b) PROVE ServerTypes'
  BY <1>0, <1>13 DEF Connect
<1>14. ASSUME NEW b \in Pages, Disconnect(b) \/ Close(b) \/ PageReceives(b) PROVE ServerTypes'
  BY <1>0, <1>14 DEF Disconnect, Close, PageReceives, ReceiveNull, ReceiveMap, ReceiveObject, ReceiveObjClean, Receive
<1>15. CASE UNCHANGED vars
  BY <1>0, <1>15 DEF vars
<1> QED
  BY <1>2, <1>3, <1>4, <1>5, <1>6, <1>7, <1>9, <1>10, <1>11, <1>12, <1>13, <1>14, <1>15
     DEF Next, AimNext, ServerNext, PageNext

\* A message that reaches a page leaves the rest of its channel.
LEMMA ReceiveFacts ==
  ASSUME IInv, NEW b \in Pages, NEW m, Receive(b, m)
  PROVE  /\ page[b] = "connected" /\ chan[b] \in Seq(PageMsgs) /\ chan[b] # <<>>
         /\ chan[b][1] = m
         /\ chan' \in [Pages -> Seq(PageMsgs)]
         /\ chan'[b] = Tail(chan[b])
         /\ \A c \in Pages \ {b} : chan'[c] = chan[c]
         /\ UNCHANGED <<aimVars, server, udp, page, missed, early>>
<1>1. chan \in [Pages -> Seq(PageMsgs)] /\ chan[b] \in Seq(PageMsgs) /\ chan[b] # <<>>
  BY DEF IInv, PageTypes, Receive
<1>2. Tail(chan[b]) \in Seq(PageMsgs) /\ Head(chan[b]) = chan[b][1]
  BY <1>1, TailFacts
<1> QED
  BY <1>1, <1>2 DEF Receive

\* What goes to pages comes to the end of their channels.
LEMMA BroadcastFacts ==
  ASSUME IInv, NEW bs \in SUBSET Pages, Room(bs), NEW m \in PageMsgs, chan' = Broadcast(bs, m)
  PROVE  /\ chan' \in [Pages -> Seq(PageMsgs)]
         /\ \A b \in Pages : Len(chan'[b]) <= PageBuffer
         /\ \A b \in bs : chan'[b] = Append(chan[b], m)
         /\ \A b \in Pages \ bs : chan'[b] = chan[b]
<1>1. chan \in [Pages -> Seq(PageMsgs)] /\ \A b \in Pages : Len(chan[b]) <= PageBuffer
  BY DEF IInv, PageTypes
<1>2. chan' = [b \in Pages |-> IF b \in bs THEN Append(chan[b], m) ELSE chan[b]]
  BY DEF Broadcast
<1>3. \A b \in bs : Append(chan[b], m) \in Seq(PageMsgs) /\ Len(Append(chan[b], m)) <= PageBuffer
  <2> SUFFICES ASSUME NEW b \in bs
               PROVE  Append(chan[b], m) \in Seq(PageMsgs) /\ Len(Append(chan[b], m)) <= PageBuffer
    OBVIOUS
  <2>1. chan[b] \in Seq(PageMsgs) /\ Len(chan[b]) < PageBuffer /\ PageBuffer \in Nat
    BY <1>1, VehVisualizerAssumption DEF Room
  <2> QED
    BY <2>1, AppendFacts
<1> QED
  BY <1>1, <1>2, <1>3

\* What a page that connects gets, and the others with it.
LEMMA ConnectFacts ==
  ASSUME IInv, NEW n \in Runs, NEW b \in Pages, Connect(n, b)
  PROVE  LET m == IF server[n].mapmsg THEN MapMsg ELSE NullMsg
         IN  /\ m \in {MapMsg, NullMsg}
             /\ chan' \in [Pages -> Seq(PageMsgs)]
             /\ \A c \in Pages : Len(chan'[c]) <= PageBuffer
             /\ \A c \in Connected \cup {b} : chan'[c] = Append(chan[c], m)
             /\ \A c \in Pages \ (Connected \cup {b}) : chan'[c] = chan[c]
             /\ page[b] # "connected"
             /\ page' = [page EXCEPT ![b] = "connected"]
             /\ missed' \in [Pages -> SUBSET Vehicles]
             /\ missed'[b] = IF page[b] = "closed" THEN missed[b] \cap Drawn(udp) ELSE missed[b]
             /\ \A c \in Pages \ {b} : missed'[c] = missed[c]
             /\ UNCHANGED <<aimVars, server, udp, map_rx, markers>>
<1> DEFINE m == IF server[n].mapmsg THEN MapMsg ELSE NullMsg
<1>1. m \in {MapMsg, NullMsg} /\ m \in PageMsgs
  BY DEF PageMsgs
<1>2. Connected \cup {b} \in SUBSET Pages /\ Room(Connected \cup {b}) /\ chan' = Broadcast(Connected \cup {b}, m)
  BY DEF Connect, Connected
<1> HIDE DEF m
<1>3. /\ chan' \in [Pages -> Seq(PageMsgs)]
      /\ \A c \in Pages : Len(chan'[c]) <= PageBuffer
      /\ \A c \in Connected \cup {b} : chan'[c] = Append(chan[c], m)
      /\ \A c \in Pages \ (Connected \cup {b}) : chan'[c] = chan[c]
  BY <1>1, <1>2, BroadcastFacts
<1>4. /\ missed \in [Pages -> SUBSET Vehicles]
      /\ missed' = [missed EXCEPT ![b] = IF page[b] = "closed" THEN missed[b] \cap Drawn(udp) ELSE missed[b]]
      /\ page[b] # "connected" /\ page' = [page EXCEPT ![b] = "connected"]
      /\ UNCHANGED <<aimVars, server, udp, map_rx, markers>>
  BY DEF IInv, PageTypes, Connect
<1> QED
  BY <1>1, <1>3, <1>4 DEF m

LEMMA ForwardFacts ==
  ASSUME IInv, NEW n \in Runs, Forward(n)
  PROVE  /\ Served(n) /\ Head(udp) \in Objects \cup ObjCleans
         /\ udp' = Tail(udp)
         /\ chan' \in [Pages -> Seq(PageMsgs)]
         /\ \A b \in Pages : Len(chan'[b]) <= PageBuffer
         /\ \A b \in Connected : chan'[b] = Append(chan[b], Head(udp))
         /\ \A b \in Pages \ Connected : chan'[b] = chan[b]
         /\ missed' \in [Pages -> SUBSET Vehicles]
         /\ \A b \in Pages : missed[b] \subseteq missed'[b]
         /\ \A b \in Pages \ Connected : Cleaned(<<Head(udp)>>) \subseteq missed'[b]
         /\ UNCHANGED <<aimVars, server, page, map_rx, markers, early>>
<1>1. Head(udp) \in PageMsgs /\ Connected \in SUBSET Pages /\ Room(Connected) /\ chan' = Broadcast(Connected, Head(udp))
  BY DEF Forward, PageMsgs, Connected
<1>2. missed \in [Pages -> SUBSET Vehicles] /\ Cleaned(<<Head(udp)>>) \in SUBSET Vehicles
  BY CleanedOne DEF IInv, PageTypes
<1>3. missed' = Miss(Pages \ Connected, Cleaned(<<Head(udp)>>))
  BY DEF Forward
<1>4. /\ missed' \in [Pages -> SUBSET Vehicles]
      /\ \A b \in Pages : missed[b] \subseteq missed'[b]
      /\ \A b \in Pages \ Connected : Cleaned(<<Head(udp)>>) \subseteq missed'[b]
  BY <1>2, <1>3, MissFacts
<1>5. /\ chan' \in [Pages -> Seq(PageMsgs)]
      /\ \A b \in Pages : Len(chan'[b]) <= PageBuffer
      /\ \A b \in Connected : chan'[b] = Append(chan[b], Head(udp))
      /\ \A b \in Pages \ Connected : chan'[b] = chan[b]
  BY <1>1, BroadcastFacts
<1>6. /\ Served(n) /\ Head(udp) \in Objects \cup ObjCleans /\ udp' = Tail(udp)
      /\ UNCHANGED <<aimVars, server, page, map_rx, markers, early>>
  BY DEF Forward
<1> QED
  BY <1>4, <1>5, <1>6

LEMMA NextPageTypes == ASSUME IInv, [Next]_vars PROVE PageTypes'
<1>0. PageTypes /\ PageBuffer \in Nat
  BY VehVisualizerAssumption DEF IInv
<1>1. ASSUME missed' \in [Pages -> SUBSET Vehicles], UNCHANGED <<page, chan, map_rx, markers, early>>
      PROVE  PageTypes'
  BY <1>0, <1>1 DEF PageTypes
<1>2. ASSUME NEW m \in UdpMsgs, Send(m), UNCHANGED <<page, chan, map_rx, markers, early>> PROVE PageTypes'
  <2>1. missed \in [Pages -> SUBSET Vehicles] /\ Cleaned(<<m>>) \in SUBSET Vehicles
    BY <1>0, CleanedOne DEF PageTypes
  <2>2. missed' = missed \/ missed' = Miss(Pages, Cleaned(<<m>>))
    BY <1>2, SendFacts
  <2> QED
    BY <1>1, <1>2, <2>1, <2>2, MissFacts
<1>3. CASE StartServer \/ ReadFifo \/ ConnectToServer \/ Respawn \/ UNCHANGED vars
  BY <1>0, <1>1, <1>3 DEF StartServer, ReadFifo, ReadNothing, ConnectToServer, Respawn, pageVars, vars, PageTypes
<1>4. CASE SendMapDraw
  BY <1>2, <1>4 DEF SendMapDraw, UdpMsgs
<1>5. ASSUME NEW v \in Vehicles, SendObjectClean(v) PROVE PageTypes'
  BY <1>2, <1>5, Sorts DEF SendObjectClean, UdpMsgs
<1>6. ASSUME NEW v \in Vehicles, NEW t \in StationTypes, NEW h \in Headings, SendObjectUpdate(v, t, h)
      PROVE  PageTypes'
  <2>1. [stationtype |-> t, heading |-> Printed(h)] \in Looks
    BY DEF Looks
  <2> QED
    BY <1>2, <1>6, <2>1, Sorts DEF SendObjectUpdate, UdpMsgs
<1>7. CASE Destroy \/ AimDies
  BY <1>0, <1>1, <1>7, MissFacts DEF Destroy, AimDies, PageTypes
<1>8. ASSUME NEW v \in Vehicles, VehicleArrives(v) PROVE PageTypes'
  BY <1>0, <1>1, <1>8 DEF VehicleArrives, pageVars, PageTypes
<1>9. ASSUME NEW n \in Runs, NEW how \in {"exited", "mapTwice"}, Exit(n, how) PROVE PageTypes'
  <2>1. \A b \in Pages : Len(chan'[b]) <= PageBuffer
    <3>1. CASE server[n].http
      <4>1. \A b \in Pages : chan'[b] = <<>>
        BY <1>9, <3>1, ExitFacts
      <4> QED
        BY <1>0, <4>1
    <3>2. CASE ~ server[n].http
      BY <1>0, <1>9, <3>2, ExitFacts DEF PageTypes
    <3> QED
      BY <3>1, <3>2
  <2> QED
    BY <1>0, <1>9, <2>1, ExitFacts DEF PageTypes
<1>10. ASSUME NEW n \in Runs, PortTaken(n) \/ NodeDies(n) \/ TerminateServer(n) PROVE PageTypes'
  BY <1>9, <1>10 DEF PortTaken, NodeDies, TerminateServer
<1>11. ASSUME NEW n \in Runs, BindUDP(n) \/ ListenHTTP(n) PROVE PageTypes'
  BY <1>0, <1>1, <1>11 DEF BindUDP, ListenHTTP, pageVars, PageTypes
<1>12. ASSUME NEW n \in Runs, KeepMap(n) PROVE PageTypes'
  BY <1>0, <1>1, <1>9, <1>12 DEF KeepMap, pageVars, PageTypes
<1>13. ASSUME NEW n \in Runs, Forward(n) PROVE PageTypes'
  BY <1>0, <1>13, ForwardFacts DEF PageTypes
<1>14. ASSUME NEW n \in Runs, NEW b \in Pages, Connect(n, b) PROVE PageTypes'
  <2>1. early' \subseteq Pages
    BY <1>0, <1>14 DEF Connect, PageTypes
  <2>2. page' \in [Pages -> {"closed", "connected", "offline"}]
    BY <1>0, <1>14 DEF Connect, PageTypes
  <2> QED
    BY <1>0, <1>14, <2>1, <2>2, ConnectFacts DEF PageTypes
<1>15. ASSUME NEW b \in Pages, Disconnect(b) PROVE PageTypes'
  <2>1. Cleaned(chan[b]) \in SUBSET Vehicles
    BY CleanedFacts
  <2>2. missed' \in [Pages -> SUBSET Vehicles]
    BY <1>0, <1>15, <2>1, MissFacts DEF Disconnect, PageTypes
  <2>3. chan' \in [Pages -> Seq(PageMsgs)] /\ \A c \in Pages : Len(chan'[c]) <= PageBuffer
    BY <1>0, <1>15 DEF Disconnect, PageTypes
  <2> QED
    BY <1>0, <1>15, <2>2, <2>3 DEF Disconnect, PageTypes
<1>16. ASSUME NEW b \in Pages, Close(b) PROVE PageTypes'
  <2>1. chan' \in [Pages -> Seq(PageMsgs)] /\ \A c \in Pages : Len(chan'[c]) <= PageBuffer
    BY <1>0, <1>16 DEF Close, PageTypes
  <2>2. DOMAIN NoMarkers = {}
    BY DEF NoMarkers
  <2>3. markers' = [c \in Pages |-> markers'[c]] /\ \A c \in Pages : DOMAIN markers'[c] \subseteq Vehicles
    BY <1>0, <1>16, <2>2 DEF Close, PageTypes
  <2> QED
    BY <1>0, <1>16, <2>1, <2>3 DEF Close, PageTypes
<1>17. ASSUME NEW b \in Pages, NEW m, Receive(b, m)
       PROVE  /\ chan' \in [Pages -> Seq(PageMsgs)] /\ \A c \in Pages : Len(chan'[c]) <= PageBuffer
              /\ UNCHANGED <<page, missed, early>>
  <2>1. /\ chan[b] \in Seq(PageMsgs) /\ chan[b] # <<>> /\ chan'[b] = Tail(chan[b])
        /\ chan' \in [Pages -> Seq(PageMsgs)] /\ \A c \in Pages \ {b} : chan'[c] = chan[c]
        /\ UNCHANGED <<page, missed, early>>
    BY <1>17, ReceiveFacts
  <2>2. Len(chan'[b]) = Len(chan[b]) - 1 /\ Len(chan[b]) \in Nat
    BY <2>1, TailFacts
  <2>3. \A c \in Pages : Len(chan[c]) <= PageBuffer
    BY <1>0 DEF PageTypes
  <2>4. Len(chan'[b]) <= PageBuffer
    BY <1>0, <2>2, <2>3
  <2> QED
    BY <2>1, <2>3, <2>4
<1>18. ASSUME NEW b \in Pages, ReceiveNull(b) \/ ReceiveMap(b) PROVE PageTypes'
  BY <1>0, <1>17, <1>18 DEF ReceiveNull, ReceiveMap, PageTypes
<1>19. ASSUME NEW b \in Pages, NEW m, Receive(b, m), UNCHANGED map_rx,
              NEW f, markers' = [markers EXCEPT ![b] = f], DOMAIN f \subseteq Vehicles
       PROVE  PageTypes'
  BY <1>0, <1>17, <1>19 DEF PageTypes
<1>20. ASSUME NEW b \in Pages, ReceiveObject(b) PROVE PageTypes'
  <2>1. PICK v \in Vehicles, look \in Looks :
           /\ Receive(b, Object(v, look)) /\ UNCHANGED map_rx
           /\ markers' = IF ~ map_rx[b] THEN markers
                         ELSE [markers EXCEPT ![b] =
                                 [w \in DOMAIN @ \cup {v} |->
                                     IF w # v THEN @[w]
                                     ELSE IF v \in DOMAIN @ THEN ChangedMarker(@[v], look) ELSE NewMarker(look)]]
    BY <1>20 DEF ReceiveObject
  <2>2. CASE ~ map_rx[b]
    BY <1>0, <1>17, <2>1, <2>2 DEF PageTypes
  <2>3. CASE map_rx[b]
    <3> DEFINE f == [w \in DOMAIN markers[b] \cup {v} |->
                       IF w # v THEN markers[b][w]
                       ELSE IF v \in DOMAIN markers[b] THEN ChangedMarker(markers[b][v], look) ELSE NewMarker(look)]
    <3>1. markers' = [markers EXCEPT ![b] = f]
      BY <2>1, <2>3
    <3>2. DOMAIN f \subseteq Vehicles
      BY <1>0 DEF PageTypes
    <3> HIDE DEF f
    <3> QED
      BY <1>19, <2>1, <3>1, <3>2
  <2> QED
    BY <2>2, <2>3
<1>21. ASSUME NEW b \in Pages, ReceiveObjClean(b) PROVE PageTypes'
  <2>1. PICK v \in Vehicles :
           /\ Receive(b, ObjClean(v)) /\ UNCHANGED map_rx
           /\ markers' = [markers EXCEPT ![b] = [w \in DOMAIN @ \ {v} |-> @[w]]]
    BY <1>21 DEF ReceiveObjClean
  <2> DEFINE f == [w \in DOMAIN markers[b] \ {v} |-> markers[b][w]]
  <2>2. markers' = [markers EXCEPT ![b] = f] /\ DOMAIN f \subseteq Vehicles
    BY <1>0, <2>1 DEF PageTypes
  <2> HIDE DEF f
  <2> QED
    BY <1>19, <2>1, <2>2
<1> QED
  BY <1>3, <1>4, <1>5, <1>6, <1>7, <1>8, <1>10, <1>11, <1>12, <1>13, <1>14, <1>15, <1>16, <1>18, <1>20, <1>21
     DEF Next, AimNext, ServerNext, PageNext, PageReceives

-----------------------------------------------------------------------------
(* The ports                                                               *)

\* What a step does to the servers.
LEMMA ServerSteps ==
  ASSUME [Next]_vars
  PROVE  \/ UNCHANGED server
         \/ StartServer
         \/ \E n \in Runs : BindUDP(n) \/ ListenHTTP(n) \/ (KeepMap(n) /\ ~ server[n].mapmsg)
         \/ \E n \in Runs, how \in {"exited", "mapTwice"} :
               /\ Exit(n, how) /\ server[n].process # "none"
               /\ how = "mapTwice" => Served(n) /\ Head(udp) = MapMsg /\ server[n].mapmsg
<1>1. ASSUME AimNext PROVE StartServer \/ UNCHANGED server
  BY <1>1 DEF AimNext, ReadFifo, ReadNothing, ConnectToServer, SendMapDraw, VehicleArrives, SendObjectClean,
              SendObjectUpdate, Destroy, AimDies, Respawn
<1>2. ASSUME NEW n \in Runs, PortTaken(n) \/ NodeDies(n) \/ TerminateServer(n)
      PROVE  Exit(n, "exited") /\ server[n].process # "none"
  BY <1>2 DEF PortTaken, NodeDies, TerminateServer, Served
<1>3. ASSUME NEW n \in Runs, KeepMap(n), server[n].mapmsg
      PROVE  Exit(n, "mapTwice") /\ Served(n) /\ Head(udp) = MapMsg /\ server[n].process # "none"
  BY <1>3 DEF KeepMap, Served
<1>4. ASSUME NEW n \in Runs, Forward(n) \/ \E b \in Pages : Connect(n, b) PROVE UNCHANGED server
  BY <1>4 DEF Forward, Connect
<1>5. ASSUME NEW b \in Pages, Disconnect(b) \/ Close(b) \/ PageReceives(b) PROVE UNCHANGED server
  BY <1>5 DEF Disconnect, Close, PageReceives, ReceiveNull, ReceiveMap, ReceiveObject, ReceiveObjClean, Receive
<1>6. UNCHANGED vars => UNCHANGED server
  BY DEF vars
<1>7. CASE ServerNext
  <2>1. PICK n \in Runs : \/ BindUDP(n) \/ ListenHTTP(n) \/ PortTaken(n) \/ NodeDies(n)
                          \/ KeepMap(n) \/ TerminateServer(n) \/ Forward(n)
                          \/ \E b \in Pages : Connect(n, b)
    BY <1>7 DEF ServerNext
  <2>2. CASE PortTaken(n) \/ NodeDies(n) \/ TerminateServer(n)
    BY <1>2, <2>2
  <2>3. CASE KeepMap(n) /\ server[n].mapmsg
    BY <1>3, <2>3
  <2>4. CASE BindUDP(n) \/ ListenHTTP(n) \/ (KeepMap(n) /\ ~ server[n].mapmsg)
    BY <2>4
  <2>5. CASE Forward(n) \/ \E b \in Pages : Connect(n, b)
    BY <1>4, <2>5
  <2> QED
    BY <2>1, <2>2, <2>3, <2>4, <2>5
<1> QED
  BY <1>1, <1>5, <1>6, <1>7 DEF Next, PageNext

\* ... and to what AIM waits for.
LEMMA AimSteps ==
  ASSUME [Next]_vars
  PROVE  \/ UNCHANGED <<run, aim>>
         \/ StartServer \/ ReadFifo \/ ConnectToServer \/ SendMapDraw \/ Destroy \/ AimDies \/ Respawn
<1>1. ASSUME NEW v \in Vehicles, VehicleArrives(v) \/ SendObjectClean(v) \/ \E t, h : SendObjectUpdate(v, t, h)
      PROVE  UNCHANGED <<run, aim>>
  BY <1>1 DEF VehicleArrives, SendObjectClean, SendObjectUpdate, aimVars
<1>2. ServerNext \/ PageNext \/ UNCHANGED vars => UNCHANGED <<run, aim>>
  BY OthersLeaveAim DEF vars, aimVars
<1> QED
  BY <1>1, <1>2 DEF Next, AimNext

\* The end of the socket that nobody has: nothing is sent to it and nothing is read.
LEMMA NoSocket == ASSUME IInv, [Next]_vars, Bound = {} PROVE udp' = <<>>
<1>1. udp = <<>> /\ \A n \in Runs : ~ server[n].udp
  BY DEF IInv, Ports, Bound
<1>2. \A m : Send(m) => udp' = udp
  BY DEF Send
<1>3. ASSUME NEW v \in Vehicles, VehicleArrives(v) \/ SendObjectClean(v) \/ \E t, h : SendObjectUpdate(v, t, h)
      PROVE  udp' = udp
  BY <1>2, <1>3 DEF VehicleArrives, SendObjectClean, SendObjectUpdate
<1>4. CASE AimNext
  BY <1>1, <1>2, <1>3, <1>4 DEF AimNext, StartServer, ReadFifo, ReadNothing, ConnectToServer, SendMapDraw,
              Destroy, AimDies, Respawn
<1>5. CASE ServerNext
  BY <1>1, <1>5 DEF ServerNext, BindUDP, ListenHTTP, PortTaken, NodeDies, KeepMap, TerminateServer, Forward,
              Connect, Served, Exit
<1>6. CASE PageNext
  BY <1>1, <1>6 DEF PageNext, Disconnect, Close, PageReceives, ReceiveNull, ReceiveMap, ReceiveObject,
              ReceiveObjClean, Receive
<1> QED
  BY <1>1, <1>4, <1>5, <1>6 DEF Next, vars

\* The start of a server, and of its map.
LEMMA StartFacts ==
  ASSUME IInv, StartServer
  PROVE  /\ aim = "start" /\ aim' = "reading" /\ UNCHANGED <<run, db, udp, pageVars>>
         /\ run \in Runs /\ server[run] = NoServer
         /\ ~ server'[run].udp /\ ~ server'[run].http /\ ~ server'[run].mapmsg /\ ~ server'[run].fifo
         /\ server'[run].process = "starting"
         /\ \A m \in Runs \ {run} : server'[m] = server[m]
<1>1. run \in Runs /\ server \in [Runs -> Servers] /\ server[run] = NoServer
  BY DEF IInv, AimTypes, ServerTypes, Started, StartServer
<1> QED
  BY <1>1 DEF StartServer, NoServer

LEMMA KeepFacts ==
  ASSUME IInv, NEW n \in Runs, KeepMap(n), ~ server[n].mapmsg
  PROVE  /\ Live(n) /\ udp # <<>> /\ udp[1] = MapMsg /\ udp' = Tail(udp)
         /\ server'[n].udp = server[n].udp /\ server'[n].http = server[n].http
         /\ server'[n].process = server[n].process /\ server'[n].fifo = server[n].fifo
         /\ \A m \in Runs \ {n} : server'[m] = server[m]
         /\ UNCHANGED <<aimVars, pageVars>>
<1>1. server \in [Runs -> Servers] /\ server[n] \in Servers /\ udp \in Seq(UdpMsgs)
  BY DEF IInv, ServerTypes
<1>2. /\ Served(n) /\ Head(udp) = MapMsg /\ udp' = Tail(udp) /\ server' = [server EXCEPT ![n].mapmsg = TRUE]
      /\ UNCHANGED <<aimVars, pageVars>>
  BY DEF KeepMap
<1> QED
  BY <1>1, <1>2, TailFacts DEF Live, Served, Servers

LEMMA NextPorts == ASSUME IInv, [Next]_vars PROVE Ports'
<1>0. Ports /\ ServerTypes
  BY DEF IInv
<1>1. CASE Bound = {}
  <2>1. udp' = <<>>
    BY <1>1, NoSocket
  <2>2. \A n \in Runs : ~ server[n].udp
    BY <1>1 DEF Bound
  <2>3. CASE UNCHANGED server
    BY <1>0, <2>1, <2>3 DEF Ports
  <2>4. CASE StartServer
    BY <1>0, <2>1, <2>4, StartFacts DEF Ports
  <2>5. ASSUME NEW n \in Runs, BindUDP(n) PROVE Ports'
    <3>1. \A m \in Runs : server'[m].http = server[m].http /\ (m # n => ~ server'[m].udp)
      BY <2>5, BindFacts
    <3> QED
      BY <1>0, <2>1, <3>1 DEF Ports
  <2>6. ASSUME NEW n \in Runs, ListenHTTP(n) PROVE Ports'
    <3>1. \A m \in Runs : server'[m].udp = server[m].udp /\ (m # n => ~ server'[m].http)
      BY <2>6, ListenFacts
    <3> QED
      BY <1>0, <2>1, <3>1 DEF Ports
  <2>7. ASSUME NEW n \in Runs, KeepMap(n), ~ server[n].mapmsg PROVE FALSE
    BY <2>2, <2>7 DEF KeepMap, Served
  <2>8. ASSUME NEW n \in Runs, NEW how \in {"exited", "mapTwice"}, Exit(n, how) PROVE Ports'
    BY <1>0, <2>1, <2>8, ExitServer DEF Ports
  <2> QED
    BY <2>3, <2>4, <2>5, <2>6, <2>7, <2>8, ServerSteps
<1>2. CASE Bound # {}
  <2>1. PICK k \in Runs : server[k].udp
    BY <1>2 DEF Bound
  <2>2. \A m \in Runs \ {k} : ~ server[m].udp
    BY <1>0, <2>1 DEF Ports
  <2>3. CASE UNCHANGED server
    BY <1>0, <2>1, <2>3 DEF Ports
  <2>4. CASE StartServer
    BY <1>0, <2>1, <2>4, StartFacts DEF Ports, NoServer
  <2>5. ASSUME NEW n \in Runs, BindUDP(n) PROVE FALSE
    BY <1>2, <2>5 DEF BindUDP
  <2>6. ASSUME NEW n \in Runs, ListenHTTP(n) PROVE Ports'
    <3>1. \A m \in Runs : server'[m].udp = server[m].udp /\ (m # n => ~ server'[m].http)
      BY <2>6, ListenFacts
    <3> QED
      BY <1>0, <2>1, <3>1 DEF Ports
  <2>7. ASSUME NEW n \in Runs, KeepMap(n), ~ server[n].mapmsg PROVE Ports'
    <3>1. \A m \in Runs : server'[m].udp = server[m].udp /\ server'[m].http = server[m].http
      BY <2>7, KeepFacts
    <3> QED
      BY <1>0, <2>1, <3>1 DEF Ports
  <2>8. ASSUME NEW n \in Runs, NEW how \in {"exited", "mapTwice"}, Exit(n, how) PROVE Ports'
    <3>1. n = k => udp' = <<>>
      BY <2>1, <2>8 DEF Exit
    <3>2. n # k => server'[k] = server[k]
      BY <2>8, ExitServer
    <3> QED
      BY <1>0, <2>1, <2>8, <3>1, <3>2, ExitServer DEF Ports
  <2> QED
    BY <2>3, <2>4, <2>5, <2>6, <2>7, <2>8, ServerSteps
<1> QED
  BY <1>1, <1>2

-----------------------------------------------------------------------------
(* A server and the run it belongs to                                      *)

LEMMA NextStarted == ASSUME IInv, [Next]_vars PROVE Started'
<1>0. Started /\ run \in Runs /\ NoServer.process = "none"
  BY DEF IInv, AimTypes, NoServer
<1>1. ASSUME NEW n \in Runs, server[n].process # "none" PROVE n <= run /\ (aim = "start" => n # run)
  BY <1>0, <1>1 DEF Started, Runs
<1>2. CASE UNCHANGED server
  <2>1. CASE UNCHANGED <<run, aim>>
    BY <1>0, <1>2, <2>1 DEF Started
  <2>2. CASE StartServer
    BY <1>0, <1>2, <2>2, StartFacts
  <2>3. CASE ReadFifo \/ ConnectToServer \/ SendMapDraw \/ Destroy \/ AimDies
    BY <1>0, <1>2, <2>3 DEF Started, ReadFifo, ReadNothing, ConnectToServer, SendMapDraw, Destroy, AimDies
  <2>4. CASE Respawn
    <3>1. run' = run + 1 /\ run < MaxRun
      BY <2>4 DEF Respawn
    <3>2. run' \in Runs /\ run' > run /\ \A n \in Runs : n > run' => n > run
      BY <1>0, <3>1, VehVisualizerAssumption DEF Runs
    <3> QED
      BY <1>0, <1>2, <3>2 DEF Started
  <2> QED
    BY <2>1, <2>2, <2>3, <2>4, AimSteps
<1>3. CASE StartServer
  <2>1. run \in Runs /\ ~ (run > run)
    BY <1>0 DEF Runs
  <2> QED
    BY <1>0, <1>3, <2>1, StartFacts DEF Started
<1>4. ASSUME NEW n \in Runs, BindUDP(n) PROVE Started'
  <2>1. server[n].process # "none" /\ UNCHANGED <<run, aim>>
    BY <1>4, BindFacts DEF aimVars
  <2>2. ~ (n > run) /\ (aim = "start" => n # run)
    BY <1>0, <1>1, <2>1 DEF Runs
  <2> QED
    BY <1>0, <1>4, <2>1, <2>2, BindFacts DEF Started
<1>5. ASSUME NEW n \in Runs, ListenHTTP(n) PROVE Started'
  <2>1. server[n].process # "none" /\ UNCHANGED <<run, aim>>
    BY <1>5, ListenFacts DEF aimVars
  <2>2. ~ (n > run) /\ (aim = "start" => n # run)
    BY <1>0, <1>1, <2>1 DEF Runs
  <2> QED
    BY <1>0, <1>5, <2>1, <2>2, ListenFacts DEF Started
<1>6. ASSUME NEW n \in Runs, KeepMap(n), ~ server[n].mapmsg PROVE Started'
  <2>1. server[n].process # "none" /\ server[n].udp /\ UNCHANGED <<run, aim>>
    BY <1>6, KeepFacts DEF aimVars, Live
  <2>2. ~ (n > run) /\ (aim = "start" => n # run)
    BY <1>0, <1>1, <2>1 DEF Runs
  <2> QED
    BY <1>0, <1>6, <2>1, <2>2, KeepFacts DEF Started
<1>7. ASSUME NEW n \in Runs, NEW how \in {"exited", "mapTwice"}, Exit(n, how), server[n].process # "none"
      PROVE  Started'
  <2>1. UNCHANGED <<run, aim>>
    BY <1>7 DEF Exit, aimVars
  <2>2. ~ (n > run) /\ (aim = "start" => n # run)
    BY <1>0, <1>1, <1>7 DEF Runs
  <2>3. how # "starting"
    OBVIOUS
  <2> QED
    BY <1>0, <1>7, <2>1, <2>2, <2>3, ExitServer DEF Started
<1> QED
  BY <1>2, <1>3, <1>4, <1>5, <1>6, <1>7, ServerSteps

\* What was written to the FIFO of a run stays written.
LEMMA FifoStays ==
  ASSUME IInv, [Next]_vars, ~ StartServer, NEW n \in Runs, server[n].fifo
  PROVE  server'[n].fifo
BY ServerSteps, BindFacts, ListenFacts, KeepFacts, ExitServer

LEMMA NextReady == ASSUME IInv, [Next]_vars PROVE Ready'
<1>0. Ready /\ run \in Runs
  BY DEF IInv, AimTypes
<1>1. CASE StartServer
  BY <1>1 DEF StartServer, Ready
<1>2. CASE ~ StartServer
  <2>1. CASE UNCHANGED <<run, aim>>
    BY <1>0, <1>2, <2>1, FifoStays DEF Ready
  <2>2. CASE ReadFifo \/ ConnectToServer
    <3>1. server[run].fifo /\ run' = run
      BY <1>0, <2>2 DEF Ready, ReadFifo, ReadNothing, ConnectToServer
    <3> QED
      BY <1>0, <1>2, <3>1, FifoStays DEF Ready
  <2>3. CASE SendMapDraw \/ Destroy \/ AimDies \/ Respawn
    BY <2>3 DEF Ready, SendMapDraw, Destroy, AimDies, Respawn
  <2> QED
    BY <1>2, <2>1, <2>2, <2>3, AimSteps
<1> QED
  BY <1>1, <1>2

-----------------------------------------------------------------------------
(* One map message                                                         *)

LEMMA MapOnce == ASSUME IInv, NEW n \in Runs, NEW how, Exit(n, how),
                        how = "mapTwice" => Served(n) /\ Head(udp) = MapMsg /\ server[n].mapmsg
                 PROVE  how # "mapTwice"
<1> SUFFICES ASSUME how = "mapTwice" PROVE FALSE
  OBVIOUS
<1>1. Live(n) /\ server[n].mapmsg /\ udp # <<>> /\ udp[1] = MapMsg /\ udp \in Seq(UdpMsgs)
  BY TailFacts DEF Served, Live, IInv, ServerTypes
<1>2. Within(udp, MapMsg)
  BY <1>1, WithinTail
<1> QED
  BY <1>1, <1>2 DEF IInv, OneMap

\* What the steps that leave the servers do to the socket: only SendMapDraw adds a map.
LEMMA SocketSteps ==
  ASSUME IInv, [Next]_vars, UNCHANGED server
  PROVE  \/ UNCHANGED udp
         \/ \E m \in UdpMsgs : udp' = Append(udp, m) /\ (m = MapMsg => SendMapDraw)
         \/ udp # <<>> /\ udp' = Tail(udp) /\ UNCHANGED <<run, aim>>
<1>1. ASSUME NEW m \in UdpMsgs, Send(m) PROVE UNCHANGED udp \/ udp' = Append(udp, m)
  BY <1>1 DEF Send
<1>2. CASE SendMapDraw
  BY <1>1, <1>2 DEF SendMapDraw, UdpMsgs
<1>3. ASSUME NEW v \in Vehicles, SendObjectClean(v)
      PROVE  /\ ObjClean(v) # MapMsg /\ ObjClean(v) \in UdpMsgs
             /\ UNCHANGED udp \/ udp' = Append(udp, ObjClean(v))
  BY <1>1, <1>3, Kinds, Sorts DEF SendObjectClean, UdpMsgs
<1>4. ASSUME NEW v \in Vehicles, NEW t \in StationTypes, NEW h \in Headings, SendObjectUpdate(v, t, h)
      PROVE  UNCHANGED udp \/ \E m \in UdpMsgs : m # MapMsg /\ udp' = Append(udp, m)
  <2>1. [stationtype |-> t, heading |-> Printed(h)] \in Looks
    BY DEF Looks
  <2> DEFINE m == Object(v, [stationtype |-> t, heading |-> Printed(h)])
  <2>2. m \in UdpMsgs /\ m # MapMsg
    BY <2>1, Kinds, Sorts DEF UdpMsgs
  <2>3. Send(m)
    BY <1>4 DEF SendObjectUpdate
  <2> QED
    BY <1>1, <2>2, <2>3
<1>5. CASE Destroy
  <2>1. Terminate \in UdpMsgs /\ Terminate # MapMsg
    BY Kinds DEF UdpMsgs
  <2>2. UNCHANGED udp \/ udp' = Append(udp, Terminate)
    BY <1>5 DEF Destroy
  <2> QED
    BY <2>1, <2>2
<1>6. ASSUME NEW v \in Vehicles,
             StartServer \/ ReadFifo \/ ConnectToServer \/ VehicleArrives(v) \/ AimDies \/ Respawn
      PROVE  UNCHANGED udp
  BY <1>6 DEF StartServer, ReadFifo, ReadNothing, ConnectToServer, VehicleArrives, AimDies, Respawn
<1>7. StartServer \/ ReadFifo \/ ConnectToServer \/ AimDies \/ Respawn => UNCHANGED udp
  BY DEF StartServer, ReadFifo, ReadNothing, ConnectToServer, AimDies, Respawn
<1>8. CASE AimNext
  BY <1>2, <1>3, <1>4, <1>5, <1>6, <1>7, <1>8 DEF AimNext
<1>9. ASSUME NEW n \in Runs, BindUDP(n) \/ ListenHTTP(n) \/ \E b \in Pages : Connect(n, b) PROVE UNCHANGED udp
  BY <1>9 DEF BindUDP, ListenHTTP, Connect
<1>10. ASSUME NEW n \in Runs, NEW how \in {"exited", "mapTwice"}, Exit(n, how) PROVE UNCHANGED udp
  <2>1. ~ server[n].udp
    BY <1>10, ExitServer
  <2> QED
    BY <1>10, <2>1, ExitFacts
<1>11. ASSUME NEW n \in Runs, PortTaken(n) \/ NodeDies(n) \/ TerminateServer(n) PROVE UNCHANGED udp
  BY <1>10, <1>11 DEF PortTaken, NodeDies, TerminateServer
<1>12. ASSUME NEW n \in Runs, KeepMap(n) \/ Forward(n)
       PROVE  UNCHANGED udp \/ (udp # <<>> /\ udp' = Tail(udp) /\ UNCHANGED <<run, aim>>)
  <2>1. udp # <<>>
    BY <1>12 DEF KeepMap, Forward, Served
  <2>2. CASE Forward(n)
    BY <2>1, <2>2 DEF Forward, aimVars
  <2>3. CASE KeepMap(n) /\ server[n].mapmsg
    <3>1. Exit(n, "mapTwice")
      BY <2>3 DEF KeepMap
    <3> QED
      BY <1>10, <3>1
  <2>4. CASE KeepMap(n) /\ ~ server[n].mapmsg
    BY <2>1, <2>4 DEF KeepMap, aimVars
  <2> QED
    BY <1>12, <2>2, <2>3, <2>4
<1>13. CASE ServerNext
  BY <1>9, <1>11, <1>12, <1>13 DEF ServerNext
<1>14. CASE PageNext \/ UNCHANGED vars
  BY <1>14 DEF PageNext, Disconnect, Close, PageReceives, ReceiveNull, ReceiveMap, ReceiveObject,
               ReceiveObjClean, Receive, vars
<1> QED
  BY <1>8, <1>13, <1>14 DEF Next

\* OneMap of one server, and what keeps it.
OneMapOf(n) ==
    Live(n) => /\ Single(udp)
               /\ server[n].mapmsg => ~ Within(udp, MapMsg)
               /\ MapDue => ~ Within(udp, MapMsg) /\ ~ server[n].mapmsg

LEMMA NextOneMap == ASSUME IInv, [Next]_vars PROVE OneMap'
<1>0. /\ udp \in Seq(UdpMsgs) /\ OneMapPerServer /\ (\A n \in Runs : OneMapOf(n))
      /\ run \in Runs /\ Ready /\ Started /\ Ports
  BY DEF IInv, ServerTypes, AimTypes, OneMap, OneMapOf
<1>1. SUFFICES (\A n \in Runs : OneMapOf(n)') /\ OneMapPerServer'
  BY DEF OneMap, OneMapOf
<1>2. CASE UNCHANGED server
  <2>1. OneMapPerServer'
    BY <1>0, <1>2 DEF OneMapPerServer
  <2>2. SUFFICES ASSUME NEW n \in Runs, Live(n)' PROVE OneMapOf(n)'
    BY <2>1 DEF OneMapOf
  <2>3. /\ Live(n) /\ Single(udp) /\ (server[n].mapmsg => ~ Within(udp, MapMsg))
        /\ MapDue => ~ Within(udp, MapMsg) /\ ~ server[n].mapmsg
    BY <1>0, <1>2, <2>2 DEF OneMapOf, Live
  <2>4. MapDue' => MapDue
    <3>1. ~ StartServer
      BY <1>2, StartFacts DEF NoServer
    <3>2. CASE UNCHANGED <<run, aim>>
      BY <1>2, <3>2 DEF MapDue
    <3>3. CASE ReadFifo \/ ConnectToServer \/ SendMapDraw \/ Destroy \/ AimDies \/ Respawn
      BY <1>2, <3>3 DEF MapDue, ReadFifo, ReadNothing, ConnectToServer, SendMapDraw, Destroy, AimDies, Respawn
    <3> QED
      BY <3>1, <3>2, <3>3, AimSteps
  <2>5. CASE UNCHANGED udp
    BY <1>2, <2>3, <2>4, <2>5 DEF OneMapOf
  <2>6. ASSUME NEW m \in UdpMsgs, udp' = Append(udp, m), m = MapMsg => SendMapDraw PROVE OneMapOf(n)'
    <3>1. CASE m # MapMsg
      <4>1. Single(udp') /\ (Within(udp', MapMsg) <=> Within(udp, MapMsg))
        BY <1>0, <2>3, <2>6, <3>1, SingleAppend, WithinAppend
      <4> QED
        BY <1>2, <2>3, <2>4, <4>1 DEF OneMapOf
    <3>2. CASE SendMapDraw
      <4>1. aim = "map" /\ aim' = "running"
        BY <3>2 DEF SendMapDraw
      <4>2. MapDue /\ ~ MapDue'
        BY <1>0, <4>1 DEF Ready, MapDue
      <4>3. ~ Within(udp, MapMsg) /\ ~ server[n].mapmsg
        BY <2>3, <4>2
      <4>4. Single(udp')
        BY <1>0, <2>3, <2>6, <4>3, SingleAppend
      <4> QED
        BY <1>2, <4>2, <4>3, <4>4 DEF OneMapOf
    <3> QED
      BY <2>6, <3>1, <3>2
  <2>7. CASE udp # <<>> /\ udp' = Tail(udp)
    <3>1. Single(udp') /\ (Within(udp', MapMsg) => Within(udp, MapMsg))
      BY <1>0, <2>3, <2>7, SingleTail, WithinTail
    <3> QED
      BY <1>2, <2>3, <2>4, <3>1 DEF OneMapOf
  <2> QED
    BY <1>2, <2>5, <2>6, <2>7, SocketSteps
<1>3. CASE StartServer
  <2>1. OneMapPerServer'
    BY <1>0, <1>3, StartFacts DEF OneMapPerServer
  <2>2. SUFFICES ASSUME NEW n \in Runs PROVE OneMapOf(n)'
    BY <2>1
  <2>3. CASE n = run
    BY <1>3, <2>3, StartFacts DEF OneMapOf, Live
  <2>4. CASE n # run
    <3>1. ~ MapDue'
      BY <1>3, StartFacts DEF MapDue
    <3> QED
      BY <1>0, <1>3, <2>4, <3>1, StartFacts DEF OneMapOf, Live
  <2> QED
    BY <2>3, <2>4
<1>4. ASSUME NEW k \in Runs, BindUDP(k) PROVE OneMapOf(k)' /\ (\A n \in Runs \ {k} : OneMapOf(n)') /\ OneMapPerServer'
  <2>1. OneMapPerServer'
    BY <1>0, <1>4, BindFacts DEF OneMapPerServer
  <2>2. \A n \in Runs \ {k} : ~ Live(n)'
    BY <1>4, BindFacts DEF Live
  <2>3. udp' = <<>> /\ ~ server'[k].mapmsg
    BY <1>0, <1>4, BindFacts DEF Ports, Started
  <2>4. Single(<<>>) /\ ~ Within(<<>>, MapMsg)
    BY DEF Single, Within
  <2> QED
    BY <2>1, <2>2, <2>3, <2>4 DEF OneMapOf
<1>5. ASSUME NEW k \in Runs, ListenHTTP(k) PROVE (\A n \in Runs : OneMapOf(n)') /\ OneMapPerServer'
  <2>1. /\ UNCHANGED <<run, aim, udp>>
        /\ \A n \in Runs : /\ server'[n].process = server[n].process /\ server'[n].udp = server[n].udp
                           /\ server'[n].mapmsg = server[n].mapmsg /\ server'[n].fifo = server[n].fifo
    BY <1>5, ListenFacts DEF aimVars
  <2>2. MapDue' <=> MapDue
    BY <1>0, <2>1 DEF MapDue
  <2> QED
    BY <1>0, <2>1, <2>2 DEF OneMapOf, OneMapPerServer, Live
<1>6. ASSUME NEW k \in Runs, KeepMap(k), ~ server[k].mapmsg PROVE (\A n \in Runs : OneMapOf(n)') /\ OneMapPerServer'
  <2>1. \A n \in Runs : server'[n].process = server[n].process /\ server'[n].udp = server[n].udp
    BY <1>6, KeepFacts
  <2>2. Live(k) /\ udp # <<>> /\ udp[1] = MapMsg /\ udp' = Tail(udp) /\ UNCHANGED <<run, aim>>
    BY <1>6, KeepFacts DEF aimVars
  <2>3. Within(udp, MapMsg) /\ Single(udp)
    BY <1>0, <2>2, WithinTail DEF OneMapOf
  <2>4. Single(udp') /\ ~ Within(udp', MapMsg)
    BY <1>0, <2>2, <2>3, SingleTail
  <2>5. \A n \in Runs : Live(n)' => n = k
    BY <1>0, <2>1, <2>2 DEF Live, Ports
  <2>6. ~ MapDue'
    <3>1. ~ MapDue
      BY <1>0, <2>2, <2>3 DEF OneMapOf
    <3>2. server'[run].fifo = server[run].fifo
      BY <1>0, <1>6, KeepFacts
    <3> QED
      BY <2>2, <3>1, <3>2 DEF MapDue
  <2> QED
    BY <1>0, <2>1, <2>2, <2>4, <2>5, <2>6 DEF OneMapOf, OneMapPerServer
<1>7. ASSUME NEW k \in Runs, NEW how \in {"exited", "mapTwice"}, Exit(k, how),
             how = "mapTwice" => Served(k) /\ Head(udp) = MapMsg /\ server[k].mapmsg
      PROVE  (\A n \in Runs : OneMapOf(n)') /\ OneMapPerServer'
  <2>1. how # "mapTwice" /\ UNCHANGED <<run, aim>>
    BY <1>7, MapOnce, ExitFacts DEF aimVars
  <2>2. OneMapPerServer'
    BY <1>0, <1>7, <2>1, ExitServer DEF OneMapPerServer
  <2>3. ASSUME NEW n \in Runs PROVE OneMapOf(n)'
    <3>0. MapDue' <=> MapDue
      BY <1>0, <1>7, <2>1, ExitServer DEF MapDue
    <3>1. CASE n = k
      BY <1>7, <3>1, ExitServer DEF OneMapOf, Live
    <3>2. CASE n # k /\ server[n].udp
      <4>1. ~ server[k].udp
        BY <1>0, <3>2 DEF Ports
      <4>2. UNCHANGED udp /\ server'[n] = server[n]
        BY <1>7, <3>2, <4>1, ExitFacts, ExitServer
      <4> QED
        BY <1>0, <3>0, <4>2 DEF OneMapOf, Live
    <3>3. CASE n # k /\ ~ server[n].udp
      BY <1>7, <3>3, ExitServer DEF OneMapOf, Live
    <3> QED
      BY <3>1, <3>2, <3>3
  <2> QED
    BY <2>2, <2>3
<1> QED
  BY <1>2, <1>3, <1>4, <1>5, <1>6, <1>7, ServerSteps

-----------------------------------------------------------------------------
(* What is under way to the pages                                          *)

LEMMA LaterAppend ==
  ASSUME NEW T, NEW s \in Seq(T), NEW m \in T, NEW i \in 1 .. Len(s), NEW x
  PROVE  Later(s, i, x) \/ m = x => Later(Append(s, m), i, x)
<1>1. /\ Len(s) \in Nat /\ Len(Append(s, m)) = Len(s) + 1
      /\ \A k \in 1 .. Len(s) : Append(s, m)[k] = s[k]
      /\ Append(s, m)[Len(s) + 1] = m
  BY AppendFacts
<1>2. ASSUME m = x PROVE Later(Append(s, m), i, x)
  <2>1. Len(s) + 1 \in i + 1 .. Len(Append(s, m))
    BY <1>1
  <2> QED
    BY <1>1, <1>2, <2>1 DEF Later
<1>3. ASSUME Later(s, i, x) PROVE Later(Append(s, m), i, x)
  <2>1. PICK j \in i + 1 .. Len(s) : s[j] = x
    BY <1>3 DEF Later
  <2>2. j \in i + 1 .. Len(Append(s, m)) /\ Append(s, m)[j] = x
    BY <1>1, <2>1
  <2> QED
    BY <2>2 DEF Later
<1> QED
  BY <1>2, <1>3

LEMMA LaterTail ==
  ASSUME NEW T, NEW s \in Seq(T), s # <<>>, NEW x
  PROVE  /\ Later(s, 1, x) => Within(Tail(s), x)
         /\ \A i \in 1 .. Len(Tail(s)) : i + 1 \in 1 .. Len(s) /\ Tail(s)[i] = s[i + 1]
         /\ \A i \in 1 .. Len(Tail(s)) : Later(s, i + 1, x) => Later(Tail(s), i, x)
<1>1. /\ Len(s) \in Nat \ {0} /\ Len(Tail(s)) = Len(s) - 1
      /\ \A i \in 1 .. Len(s) - 1 : Tail(s)[i] = s[i + 1]
  BY TailFacts
<1>2. ASSUME Later(s, 1, x) PROVE Within(Tail(s), x)
  <2>1. PICK j \in 2 .. Len(s) : s[j] = x
    BY <1>2 DEF Later
  <2>2. j - 1 \in 1 .. Len(Tail(s)) /\ Tail(s)[j - 1] = x
    BY <1>1, <2>1
  <2> QED
    BY <2>2 DEF Within
<1>3. ASSUME NEW i \in 1 .. Len(Tail(s)), Later(s, i + 1, x) PROVE Later(Tail(s), i, x)
  <2>1. PICK j \in i + 2 .. Len(s) : s[j] = x
    BY <1>3 DEF Later
  <2>2. j - 1 \in i + 1 .. Len(Tail(s)) /\ Tail(s)[j - 1] = x
    BY <1>1, <1>3, <2>1
  <2> QED
    BY <2>2 DEF Later
<1>4. \A i \in 1 .. Len(Tail(s)) : i + 1 \in 1 .. Len(s) /\ Tail(s)[i] = s[i + 1]
  BY <1>1
<1> QED
  BY <1>2, <1>3, <1>4

\* A step of AIM: what leaves the database is announced, or missed by every page.
LEMMA AimMoves ==
  ASSUME IInv, AimNext
  PROVE  /\ UNCHANGED <<page, chan, map_rx, markers, early>>
         /\ \A b \in Pages : missed[b] \subseteq missed'[b]
         /\ \/ udp' = udp
            \/ \E m \in UdpMsgs : /\ udp' = Append(udp, m)
                                  /\ \A v \in Vehicles, look \in Looks : m = Object(v, look) => v \in db'
         /\ \A v \in db : \/ v \in db' \/ \A b \in Pages : v \in missed'[b]
                          \/ ObjClean(v) \in UdpMsgs /\ udp' = Append(udp, ObjClean(v))
<1>0. missed \in [Pages -> SUBSET Vehicles] /\ db \subseteq Vehicles
  BY DEF IInv, PageTypes, AimTypes
<1>1. ASSUME NEW m \in UdpMsgs, Send(m)
      PROVE  /\ \A b \in Pages : missed[b] \subseteq missed'[b]
             /\ \/ udp' = Append(udp, m)
                \/ udp' = udp /\ \A b \in Pages : Cleaned(<<m>>) \subseteq missed'[b]
  <2>1. Cleaned(<<m>>) \in SUBSET Vehicles
    BY CleanedOne
  <2>2. CASE udp' = Append(udp, m) /\ missed' = missed
    BY <2>2
  <2>3. CASE udp' = udp /\ missed' = Miss(Pages, Cleaned(<<m>>))
    BY <1>0, <2>1, <2>3, MissFacts
  <2> QED
    BY <1>1, <2>2, <2>3, SendFacts
<1>2. CASE StartServer \/ ReadFifo \/ ConnectToServer \/ Respawn
  BY <1>2 DEF StartServer, ReadFifo, ReadNothing, ConnectToServer, Respawn, pageVars
<1>3. CASE SendMapDraw
  <2>1. MapMsg \in UdpMsgs /\ \A v \in Vehicles, look \in Looks : MapMsg # Object(v, look)
    BY Kinds DEF UdpMsgs
  <2>2. Send(MapMsg) /\ UNCHANGED <<db, page, chan, map_rx, markers, early>>
    BY <1>3 DEF SendMapDraw
  <2> QED
    BY <1>1, <2>1, <2>2
<1>4. ASSUME NEW v \in Vehicles, VehicleArrives(v)
      PROVE  db \subseteq db' /\ UNCHANGED <<udp, page, chan, map_rx, markers, missed, early>>
  BY <1>4 DEF VehicleArrives, pageVars
<1>5. ASSUME NEW v \in Vehicles, SendObjectClean(v)
      PROVE  /\ db' = db \ {v} /\ ObjClean(v) \in UdpMsgs /\ Send(ObjClean(v)) /\ v \in Cleaned(<<ObjClean(v)>>)
             /\ \A w \in Vehicles, look \in Looks : ObjClean(v) # Object(w, look)
             /\ UNCHANGED <<page, chan, map_rx, markers, early>>
  BY <1>5, Kinds, Sorts, CleanedOne DEF SendObjectClean, UdpMsgs
<1>6. ASSUME NEW v \in Vehicles, NEW t \in StationTypes, NEW h \in Headings, SendObjectUpdate(v, t, h)
      PROVE  \E m \in UdpMsgs :
                /\ Send(m) /\ UNCHANGED <<db, page, chan, map_rx, markers, early>>
                /\ \A w \in Vehicles, look \in Looks : m = Object(w, look) => w \in db
  <2>1. [stationtype |-> t, heading |-> Printed(h)] \in Looks
    BY DEF Looks
  <2> DEFINE m == Object(v, [stationtype |-> t, heading |-> Printed(h)])
  <2>2. m \in UdpMsgs /\ \A w \in Vehicles, look \in Looks : m = Object(w, look) => w = v
    BY <2>1, Kinds, Sorts DEF UdpMsgs
  <2>3. Send(m) /\ v \in db /\ UNCHANGED <<db, page, chan, map_rx, markers, early>>
    BY <1>6 DEF SendObjectUpdate, aimVars
  <2> QED
    BY <2>2, <2>3
<1>7. CASE Destroy
  <2>1. missed' = Miss(Pages, Vehicles) /\ UNCHANGED <<page, chan, map_rx, markers, early>>
    BY <1>7 DEF Destroy
  <2>2. \A b \in Pages : missed[b] \subseteq missed'[b] /\ Vehicles \subseteq missed'[b]
    BY <1>0, <2>1, MissFacts
  <2>3. Terminate \in UdpMsgs /\ \A v \in Vehicles, look \in Looks : Terminate # Object(v, look)
    BY Kinds DEF UdpMsgs
  <2>4. udp' = udp \/ udp' = Append(udp, Terminate)
    BY <1>7 DEF Destroy
  <2> QED
    BY <1>0, <2>1, <2>2, <2>3, <2>4
<1>8. CASE AimDies
  <2>1. missed' = Miss(Pages, Vehicles) /\ UNCHANGED <<udp, page, chan, map_rx, markers, early>>
    BY <1>8 DEF AimDies
  <2>2. \A b \in Pages : missed[b] \subseteq missed'[b] /\ Vehicles \subseteq missed'[b]
    BY <1>0, <2>1, MissFacts
  <2> QED
    BY <1>0, <2>1, <2>2
<1>9. CASE \E v \in Vehicles : VehicleArrives(v)
  BY <1>4, <1>9
<1>10. ASSUME NEW v \in Vehicles, SendObjectClean(v)
       PROVE  /\ UNCHANGED <<page, chan, map_rx, markers, early>>
              /\ \A b \in Pages : missed[b] \subseteq missed'[b]
              /\ \/ udp' = udp
                 \/ \E m \in UdpMsgs : /\ udp' = Append(udp, m)
                                       /\ \A w \in Vehicles, look \in Looks : m = Object(w, look) => w \in db'
              /\ \A w \in db : \/ w \in db' \/ \A b \in Pages : w \in missed'[b]
                               \/ ObjClean(w) \in UdpMsgs /\ udp' = Append(udp, ObjClean(w))
  BY <1>1, <1>5, <1>10
<1>11. CASE \E v \in Vehicles, t \in StationTypes, h \in Headings : SendObjectUpdate(v, t, h)
  <2>1. PICK m \in UdpMsgs :
           /\ Send(m) /\ UNCHANGED <<db, page, chan, map_rx, markers, early>>
           /\ \A w \in Vehicles, look \in Looks : m = Object(w, look) => w \in db
    BY <1>6, <1>11
  <2> QED
    BY <1>1, <2>1
<1>12. CASE \E v \in Vehicles : SendObjectClean(v)
  BY <1>10, <1>12
<1> QED
  BY <1>2, <1>3, <1>7, <1>8, <1>9, <1>11, <1>12 DEF AimNext

\* Another step: the socket loses its first message or is gone, and a page forgets what
\* it missed when it is loaded, but for what is still to be drawn.
LEMMA OtherMoves ==
  ASSUME IInv, ServerNext \/ PageNext \/ UNCHANGED vars
  PROVE  /\ UNCHANGED db
         /\ udp' = udp \/ udp' = <<>> \/ (udp # <<>> /\ udp' = Tail(udp))
         /\ \A b \in Pages : \A v \in missed[b] :
               \/ v \in missed'[b]
               \/ page[b] = "closed" /\ page'[b] = "connected" /\ v \notin Drawn(udp) /\ UNCHANGED udp
         /\ \A b \in Pages, v \in Vehicles : Within(udp, ObjClean(v)) =>
               \/ Within(udp', ObjClean(v)) \/ v \in missed'[b]
               \/ page[b] = "connected" /\ udp[1] = ObjClean(v) /\ \E n \in Runs : Forward(n)
<1>0. missed \in [Pages -> SUBSET Vehicles] /\ udp \in Seq(UdpMsgs) /\ page \in [Pages -> {"closed", "connected", "offline"}]
  BY DEF IInv, PageTypes, ServerTypes
<1>1. UNCHANGED db
  BY OthersLeaveAim DEF aimVars, vars
<1>2. ASSUME UNCHANGED <<udp, missed>> PROVE \A b \in Pages : missed[b] \subseteq missed'[b]
  BY <1>2
<1>3. ASSUME NEW n \in Runs, BindUDP(n) \/ ListenHTTP(n) PROVE UNCHANGED <<udp, missed>>
  BY <1>3 DEF BindUDP, ListenHTTP, pageVars
<1>4. ASSUME NEW n \in Runs, NEW how \in {"exited", "mapTwice"}, Exit(n, how)
      PROVE  /\ udp' = udp \/ (udp' = <<>> /\ \A b \in Pages : Cleaned(udp) \subseteq missed'[b])
             /\ \A b \in Pages : missed[b] \subseteq missed'[b]
  BY <1>4, ExitFacts
<1>5. ASSUME NEW n \in Runs, PortTaken(n) \/ NodeDies(n) \/ TerminateServer(n) \/ (KeepMap(n) /\ server[n].mapmsg)
      PROVE  /\ udp' = udp \/ (udp' = <<>> /\ \A b \in Pages : Cleaned(udp) \subseteq missed'[b])
             /\ \A b \in Pages : missed[b] \subseteq missed'[b]
  BY <1>4, <1>5 DEF PortTaken, NodeDies, TerminateServer, KeepMap
<1>6. ASSUME NEW n \in Runs, KeepMap(n), ~ server[n].mapmsg
      PROVE  /\ udp # <<>> /\ udp' = Tail(udp) /\ missed' = missed
             /\ \A v \in Vehicles : Within(udp, ObjClean(v)) => Within(udp', ObjClean(v))
  BY <1>0, <1>6, KeepFacts, WithinTail, Kinds DEF pageVars
<1>7. ASSUME NEW n \in Runs, Forward(n)
      PROVE  /\ udp # <<>> /\ udp' = Tail(udp)
             /\ \A b \in Pages : missed[b] \subseteq missed'[b]
             /\ \A b \in Pages, v \in Vehicles : Within(udp, ObjClean(v)) =>
                   \/ Within(udp', ObjClean(v)) \/ v \in missed'[b]
                   \/ page[b] = "connected" /\ udp[1] = ObjClean(v)
  <2>1. /\ udp # <<>> /\ udp' = Tail(udp) /\ Head(udp) = udp[1]
        /\ \A b \in Pages : missed[b] \subseteq missed'[b]
        /\ \A b \in Pages : page[b] # "connected" => Cleaned(<<udp[1]>>) \subseteq missed'[b]
    BY <1>0, <1>7, ForwardFacts, TailFacts DEF Served, Connected
  <2>2. ASSUME NEW b \in Pages, NEW v \in Vehicles, Within(udp, ObjClean(v)), udp[1] # ObjClean(v)
        PROVE  Within(udp', ObjClean(v))
    BY <1>0, <2>1, <2>2, WithinTail
  <2>3. ASSUME NEW b \in Pages, NEW v \in Vehicles, udp[1] = ObjClean(v), page[b] # "connected"
        PROVE  v \in missed'[b]
    BY <2>1, <2>3, CleanedOne
  <2> QED
    BY <2>1, <2>2, <2>3
<1>8. ASSUME NEW n \in Runs, NEW c \in Pages, Connect(n, c)
      PROVE  /\ udp' = udp
             /\ \A b \in Pages : \A v \in missed[b] :
                   \/ v \in missed'[b]
                   \/ page[b] = "closed" /\ page'[b] = "connected" /\ v \notin Drawn(udp)
  <2>1. /\ udp' = udp /\ page' = [page EXCEPT ![c] = "connected"]
        /\ missed'[c] = IF page[c] = "closed" THEN missed[c] \cap Drawn(udp) ELSE missed[c]
        /\ \A b \in Pages \ {c} : missed'[b] = missed[b]
    BY <1>8, ConnectFacts
  <2> QED
    BY <1>0, <2>1
<1>9. ASSUME NEW b \in Pages, Disconnect(b) \/ Close(b) \/ PageReceives(b)
      PROVE  udp' = udp /\ \A c \in Pages : missed[c] \subseteq missed'[c]
  <2>1. Cleaned(chan[b]) \in SUBSET Vehicles
    BY CleanedFacts
  <2>2. CASE Disconnect(b)
    BY <1>0, <2>1, <2>2, MissFacts DEF Disconnect
  <2>3. CASE Close(b) \/ PageReceives(b)
    BY <2>3 DEF Close, PageReceives, ReceiveNull, ReceiveMap, ReceiveObject, ReceiveObjClean, Receive
  <2> QED
    BY <1>9, <2>2, <2>3
<1>10. CASE \E n \in Runs : BindUDP(n) \/ ListenHTTP(n)
  BY <1>1, <1>2, <1>3, <1>10
<1>11. CASE \E n \in Runs : PortTaken(n) \/ NodeDies(n) \/ TerminateServer(n) \/ (KeepMap(n) /\ server[n].mapmsg)
  BY <1>1, <1>5, <1>11, CleanedFacts
<1>12. CASE \E n \in Runs : KeepMap(n) /\ ~ server[n].mapmsg
  BY <1>1, <1>6, <1>12
<1>13. CASE \E n \in Runs : Forward(n)
  BY <1>1, <1>7, <1>13
<1>14. CASE \E n \in Runs, c \in Pages : Connect(n, c)
  BY <1>1, <1>8, <1>14
<1>15. CASE \E b \in Pages : Disconnect(b) \/ Close(b) \/ PageReceives(b)
  BY <1>1, <1>9, <1>15
<1>16. CASE UNCHANGED vars
  BY <1>1, <1>2, <1>16 DEF vars, pageVars
<1>17. CASE ServerNext
  BY <1>10, <1>11, <1>12, <1>13, <1>14, <1>17 DEF ServerNext
<1> QED
  BY <1>15, <1>16, <1>17 DEF PageNext

-----------------------------------------------------------------------------
(* The markers                                                             *)

\* How a step changes the pages.
LEMMA PageSteps ==
  ASSUME [Next]_vars
  PROVE  \/ UNCHANGED <<page, chan, map_rx, markers, early>>
         \/ \E n \in Runs, how \in {"exited", "mapTwice"} : Exit(n, how)
         \/ \E n \in Runs : Forward(n)
         \/ \E n \in Runs, b \in Pages : Connect(n, b)
         \/ \E b \in Pages : Disconnect(b) \/ Close(b) \/ PageReceives(b)
<1>1. CASE AimNext
  BY <1>1 DEF AimNext, StartServer, ReadFifo, ReadNothing, ConnectToServer, SendMapDraw, VehicleArrives,
              SendObjectClean, SendObjectUpdate, Destroy, AimDies, Respawn, pageVars
<1>2. ASSUME NEW n \in Runs, PortTaken(n) \/ NodeDies(n) \/ TerminateServer(n)
      PROVE  Exit(n, "exited")
  BY <1>2 DEF PortTaken, NodeDies, TerminateServer
<1>3. ASSUME NEW n \in Runs, KeepMap(n)
      PROVE  Exit(n, "mapTwice") \/ UNCHANGED <<page, chan, map_rx, markers, early>>
  BY <1>3 DEF KeepMap, pageVars
<1>4. ASSUME NEW n \in Runs, BindUDP(n) \/ ListenHTTP(n) PROVE UNCHANGED <<page, chan, map_rx, markers, early>>
  BY <1>4 DEF BindUDP, ListenHTTP, pageVars
<1>5. CASE \E n \in Runs : PortTaken(n) \/ NodeDies(n) \/ TerminateServer(n)
  BY <1>2, <1>5
<1>6. CASE \E n \in Runs : BindUDP(n) \/ ListenHTTP(n) \/ KeepMap(n)
  BY <1>3, <1>4, <1>6
<1>7. CASE ServerNext
  BY <1>5, <1>6, <1>7 DEF ServerNext
<1>8. UNCHANGED vars => UNCHANGED <<page, chan, map_rx, markers, early>>
  BY DEF vars, pageVars
<1> QED
  BY <1>1, <1>7, <1>8 DEF Next, PageNext

LEMMA DisconnectFacts ==
  ASSUME IInv, NEW b \in Pages, Disconnect(b)
  PROVE  /\ page[b] = "connected" /\ page'[b] = "offline" /\ chan'[b] = <<>>
         /\ \A c \in Pages \ {b} : page'[c] = page[c] /\ chan'[c] = chan[c]
         /\ \A c \in Pages : missed[c] \subseteq missed'[c]
         /\ \A v \in Vehicles : Within(chan[b], ObjClean(v)) => v \in missed'[b]
         /\ UNCHANGED <<aimVars, server, udp, map_rx, markers, early>>
<1>1. /\ page \in [Pages -> {"closed", "connected", "offline"}] /\ chan \in [Pages -> Seq(PageMsgs)]
      /\ missed \in [Pages -> SUBSET Vehicles]
  BY DEF IInv, PageTypes
<1>2. Cleaned(chan[b]) \in SUBSET Vehicles /\ \A v \in Vehicles : Within(chan[b], ObjClean(v)) => v \in Cleaned(chan[b])
  BY CleanedFacts
<1>3. missed' = Miss({b}, Cleaned(chan[b]))
  BY DEF Disconnect
<1>4. /\ \A c \in Pages : missed[c] \subseteq missed'[c]
      /\ \A v \in Vehicles : Within(chan[b], ObjClean(v)) => v \in missed'[b]
  BY <1>1, <1>2, <1>3, MissFacts
<1> QED
  BY <1>1, <1>4 DEF Disconnect

LEMMA CloseFacts ==
  ASSUME IInv, NEW b \in Pages, Close(b)
  PROVE  /\ page'[b] = "closed" /\ chan'[b] = <<>> /\ DOMAIN markers'[b] = {}
         /\ \A c \in Pages \ {b} : /\ page'[c] = page[c] /\ chan'[c] = chan[c] /\ map_rx'[c] = map_rx[c]
                                  /\ markers'[c] = markers[c] /\ (c \in early' <=> c \in early)
         /\ UNCHANGED <<aimVars, server, udp, missed>>
<1>1. /\ page \in [Pages -> {"closed", "connected", "offline"}] /\ chan \in [Pages -> Seq(PageMsgs)]
      /\ map_rx \in [Pages -> BOOLEAN] /\ markers = [c \in Pages |-> markers[c]]
  BY DEF IInv, PageTypes
<1>2. DOMAIN NoMarkers = {}
  BY DEF NoMarkers
<1> QED
  BY <1>1, <1>2 DEF Close

\* What a message does to the page that gets it.
LEMMA ReceivedFacts ==
  ASSUME IInv, NEW b \in Pages, PageReceives(b)
  PROVE  \E m : /\ Receive(b, m)
                /\ \A c \in Pages \ {b} : map_rx'[c] = map_rx[c] /\ markers'[c] = markers[c]
                /\ \/ m = NullMsg /\ UNCHANGED <<map_rx, markers>>
                   \/ m = MapMsg /\ map_rx'[b] /\ UNCHANGED markers
                   \/ /\ UNCHANGED map_rx
                      /\ \E v \in Vehicles, look \in Looks :
                            /\ m = Object(v, look)
                            /\ \/ ~ map_rx[b] /\ UNCHANGED markers
                               \/ /\ map_rx[b] /\ DOMAIN markers'[b] = DOMAIN markers[b] \cup {v}
                                  /\ \A w \in DOMAIN markers[b] \ {v} : markers'[b][w] = markers[b][w]
                                  /\ markers'[b][v] = IF v \in DOMAIN markers[b]
                                                      THEN ChangedMarker(markers[b][v], look) ELSE NewMarker(look)
                   \/ /\ UNCHANGED map_rx
                      /\ \E v \in Vehicles :
                            /\ m = ObjClean(v) /\ DOMAIN markers'[b] = DOMAIN markers[b] \ {v}
                            /\ \A w \in DOMAIN markers'[b] : markers'[b][w] = markers[b][w]
<1>0. map_rx \in [Pages -> BOOLEAN] /\ markers = [c \in Pages |-> markers[c]]
  BY DEF IInv, PageTypes
<1>1. CASE ReceiveNull(b)
  BY <1>1 DEF ReceiveNull
<1>2. CASE ReceiveMap(b)
  BY <1>0, <1>2 DEF ReceiveMap
<1>3. CASE ReceiveObject(b)
  <2>1. PICK v \in Vehicles, look \in Looks :
           /\ Receive(b, Object(v, look)) /\ UNCHANGED map_rx
           /\ markers' = IF ~ map_rx[b] THEN markers
                         ELSE [markers EXCEPT ![b] =
                                 [w \in DOMAIN @ \cup {v} |->
                                     IF w # v THEN @[w]
                                     ELSE IF v \in DOMAIN @ THEN ChangedMarker(@[v], look) ELSE NewMarker(look)]]
    BY <1>3 DEF ReceiveObject
  <2>2. CASE ~ map_rx[b]
    BY <2>1, <2>2
  <2>3. CASE map_rx[b]
    <3> DEFINE new == IF v \in DOMAIN markers[b] THEN ChangedMarker(markers[b][v], look) ELSE NewMarker(look)
               f == [w \in DOMAIN markers[b] \cup {v} |-> IF w # v THEN markers[b][w] ELSE new]
    <3>1. markers' = [markers EXCEPT ![b] = f]
      BY <2>1, <2>3
    <3>2. /\ DOMAIN f = DOMAIN markers[b] \cup {v} /\ f[v] = new
          /\ \A w \in DOMAIN markers[b] \ {v} : f[w] = markers[b][w]
      OBVIOUS
    <3> HIDE DEF f
    <3>3. markers'[b] = f /\ \A c \in Pages \ {b} : markers'[c] = markers[c]
      BY <1>0, <3>1
    <3> QED
      BY <2>1, <2>3, <3>2, <3>3
  <2> QED
    BY <2>2, <2>3
<1>4. CASE ReceiveObjClean(b)
  <2>1. PICK v \in Vehicles :
           /\ Receive(b, ObjClean(v)) /\ UNCHANGED map_rx
           /\ markers' = [markers EXCEPT ![b] = [w \in DOMAIN @ \ {v} |-> @[w]]]
    BY <1>4 DEF ReceiveObjClean
  <2> DEFINE f == [w \in DOMAIN markers[b] \ {v} |-> markers[b][w]]
  <2>2. markers' = [markers EXCEPT ![b] = f]
    BY <2>1
  <2>3. DOMAIN f = DOMAIN markers[b] \ {v} /\ \A w \in DOMAIN f : f[w] = markers[b][w]
    OBVIOUS
  <2> HIDE DEF f
  <2>4. markers'[b] = f /\ \A c \in Pages \ {b} : markers'[c] = markers[c]
    BY <1>0, <2>2
  <2> QED
    BY <2>1, <2>3, <2>4
<1> QED
  BY <1>1, <1>2, <1>3, <1>4 DEF PageReceives

LEMMA NextSilent == ASSUME IInv, [Next]_vars PROVE Silent'
<1>0. Silent /\ PageTypes
  BY DEF IInv
<1>1. CASE UNCHANGED <<page, chan, map_rx, markers, early>>
  BY <1>0, <1>1 DEF Silent
<1>2. ASSUME NEW n \in Runs, NEW how \in {"exited", "mapTwice"}, Exit(n, how) PROVE Silent'
  <2>1. CASE server[n].http
    <3>1. \A b \in Pages : chan'[b] = <<>> /\ (page'[b] = "closed" => page[b] = "closed")
      BY <1>2, <2>1, ExitFacts
    <3> QED
      BY <1>0, <1>2, <3>1, ExitFacts DEF Silent
  <2>2. CASE ~ server[n].http
    BY <1>0, <1>2, <2>2, ExitFacts DEF Silent
  <2> QED
    BY <2>1, <2>2
<1>3. ASSUME NEW n \in Runs, Forward(n) PROVE Silent'
  <2>1. /\ \A b \in Pages : page[b] # "connected" => chan'[b] = chan[b]
        /\ UNCHANGED <<page, markers>>
    BY <1>3, ForwardFacts DEF Connected
  <2> QED
    BY <1>0, <2>1 DEF Silent
<1>4. ASSUME NEW n \in Runs, NEW c \in Pages, Connect(n, c) PROVE Silent'
  <2>1. /\ page'[c] = "connected" /\ UNCHANGED markers
        /\ \A b \in Pages \ {c} : /\ page'[b] = page[b]
                                  /\ page[b] # "connected" => chan'[b] = chan[b]
    BY <1>0, <1>4, ConnectFacts DEF Connected, PageTypes
  <2> QED
    BY <1>0, <2>1 DEF Silent
<1>5. ASSUME NEW b \in Pages, Disconnect(b) PROVE Silent'
  BY <1>0, <1>5, DisconnectFacts DEF Silent
<1>6. ASSUME NEW b \in Pages, Close(b) PROVE Silent'
  BY <1>0, <1>6, CloseFacts DEF Silent
<1>7. ASSUME NEW b \in Pages, PageReceives(b) PROVE Silent'
  <2>1. PICK m : Receive(b, m) /\ \A c \in Pages \ {b} : markers'[c] = markers[c]
    BY <1>7, ReceivedFacts
  <2> QED
    BY <1>0, <2>1, ReceiveFacts DEF Silent
<1> QED
  BY <1>1, <1>2, <1>3, <1>4, <1>5, <1>6, <1>7, PageSteps

LEMMA NextUdpFollowed == ASSUME IInv, [Next]_vars PROVE UdpFollowed'
<1>0. UdpFollowed /\ udp \in Seq(UdpMsgs) /\ db \subseteq Vehicles /\ Len(udp) \in Nat
  BY DEF IInv, Followed, ServerTypes, AimTypes
<1>1. CASE AimNext
  <2>1. SUFFICES ASSUME NEW v \in Vehicles, NEW look \in Looks, NEW i \in 1 .. Len(udp'), udp'[i] = Object(v, look)
                 PROVE  v \in db' \/ Later(udp', i, ObjClean(v)) \/ \A b \in Pages : v \in missed'[b]
    BY DEF UdpFollowed
  <2>2. \A b \in Pages : missed[b] \subseteq missed'[b]
    BY <1>1, AimMoves
  <2>3. v \in db => \/ v \in db' \/ \A b \in Pages : v \in missed'[b]
                    \/ ObjClean(v) \in UdpMsgs /\ udp' = Append(udp, ObjClean(v))
    BY <1>1, AimMoves
  <2>4. CASE udp' = udp
    <3>1. ObjClean(v) \in UdpMsgs => udp' # Append(udp, ObjClean(v))
      BY <1>0, <2>4, AppendFacts
    <3> QED
      BY <1>0, <2>1, <2>2, <2>3, <2>4, <3>1 DEF UdpFollowed
  <2>5. ASSUME NEW m \in UdpMsgs, udp' = Append(udp, m), m = Object(v, look) => v \in db'
        PROVE  v \in db' \/ Later(udp', i, ObjClean(v)) \/ \A b \in Pages : v \in missed'[b]
    <3>1. CASE i = Len(udp) + 1
      BY <1>0, <2>1, <2>5, <3>1, AppendFacts
    <3>2. CASE i # Len(udp) + 1
      <4>1. i \in 1 .. Len(udp) /\ udp[i] = Object(v, look)
        BY <1>0, <2>1, <2>5, <3>2, AppendFacts
      <4>2. v \in db \/ Later(udp, i, ObjClean(v)) \/ \A b \in Pages : v \in missed[b]
        BY <1>0, <4>1 DEF UdpFollowed
      <4>3. CASE Later(udp, i, ObjClean(v))
        BY <1>0, <2>5, <4>1, <4>3, LaterAppend
      <4>4. CASE v \in db
        <5>1. ObjClean(v) \in UdpMsgs /\ udp' = Append(udp, ObjClean(v)) => Later(udp', i, ObjClean(v))
          BY <1>0, <4>1, LaterAppend
        <5> QED
          BY <2>3, <4>4, <5>1
      <4> QED
        BY <2>2, <4>2, <4>3, <4>4
    <3> QED
      BY <3>1, <3>2
  <2> QED
    BY <1>1, <2>4, <2>5, AimMoves
<1>2. CASE ServerNext \/ PageNext \/ UNCHANGED vars
  <2>1. SUFFICES ASSUME NEW v \in Vehicles, NEW look \in Looks, NEW i \in 1 .. Len(udp'), udp'[i] = Object(v, look)
                 PROVE  v \in db' \/ Later(udp', i, ObjClean(v)) \/ \A b \in Pages : v \in missed'[b]
    BY DEF UdpFollowed
  <2>2. db' = db /\ \A b \in Pages : v \in missed[b] => v \in missed'[b] \/ (v \notin Drawn(udp) /\ UNCHANGED udp)
    BY <1>2, OtherMoves
  <2>3. CASE udp' = udp
    <3>1. v \in Drawn(udp)
      BY <2>1, <2>3 DEF Drawn, Within
    <3> QED
      BY <1>0, <2>1, <2>2, <2>3, <3>1 DEF UdpFollowed
  <2>4. CASE udp' = <<>>
    BY <2>1, <2>4
  <2>5. CASE udp # <<>> /\ udp' = Tail(udp)
    <3>1. /\ i + 1 \in 1 .. Len(udp) /\ udp[i + 1] = Object(v, look)
          /\ Later(udp, i + 1, ObjClean(v)) => Later(udp', i, ObjClean(v))
      <4>1. /\ \A k \in 1 .. Len(Tail(udp)) : k + 1 \in 1 .. Len(udp) /\ Tail(udp)[k] = udp[k + 1]
            /\ \A k \in 1 .. Len(Tail(udp)) : Later(udp, k + 1, ObjClean(v)) => Later(Tail(udp), k, ObjClean(v))
        BY <1>0, <2>5, LaterTail
      <4> QED
        BY <2>1, <2>5, <4>1
    <3>2. v \in db \/ Later(udp, i + 1, ObjClean(v)) \/ \A b \in Pages : v \in missed[b]
      BY <1>0, <3>1 DEF UdpFollowed
    <3>3. udp' # udp
      BY <1>0, <2>5, TailFacts
    <3> QED
      BY <2>2, <3>1, <3>2, <3>3
  <2> QED
    BY <1>2, <2>3, <2>4, <2>5, OtherMoves
<1> QED
  BY <1>1, <1>2 DEF Next

\* Why a marker may stand for a vehicle that is gone, but for its channel.
Excused(b, v) == v \in db \/ v \in missed[b] \/ Within(udp, ObjClean(v))

LEMMA ExcuseLasts ==
  ASSUME IInv, [Next]_vars, NEW b \in Pages, NEW v \in Vehicles, Excused(b, v)
  PROVE  \/ Excused(b, v)'
         \/ page[b] = "closed" /\ page'[b] = "connected"
         \/ page[b] = "connected" /\ udp[1] = ObjClean(v) /\ \E n \in Runs : Forward(n)
<1>0. udp \in Seq(UdpMsgs)
  BY DEF IInv, ServerTypes
<1>1. CASE AimNext
  <2>1. missed[b] \subseteq missed'[b]
    BY <1>1, AimMoves
  <2>2. ASSUME NEW m \in UdpMsgs, udp' = Append(udp, m)
        PROVE  /\ Within(udp, ObjClean(v)) => Within(udp', ObjClean(v))
               /\ m = ObjClean(v) => Within(udp', ObjClean(v))
    BY <1>0, <2>2, WithinAppend
  <2>3. Within(udp, ObjClean(v)) => Within(udp', ObjClean(v))
    BY <1>1, <2>2, AimMoves
  <2>4. ObjClean(v) \in UdpMsgs /\ udp' = Append(udp, ObjClean(v)) => Within(udp', ObjClean(v))
    BY <2>2
  <2>5. v \in db => \/ v \in db' \/ v \in missed'[b]
                    \/ ObjClean(v) \in UdpMsgs /\ udp' = Append(udp, ObjClean(v))
    BY <1>1, AimMoves
  <2> QED
    BY <2>1, <2>3, <2>4, <2>5 DEF Excused
<1>2. CASE ServerNext \/ PageNext \/ UNCHANGED vars
  <2>1. /\ db' = db
        /\ v \in missed[b] => v \in missed'[b] \/ (page[b] = "closed" /\ page'[b] = "connected")
        /\ Within(udp, ObjClean(v)) =>
              \/ Within(udp', ObjClean(v)) \/ v \in missed'[b]
              \/ page[b] = "connected" /\ udp[1] = ObjClean(v) /\ \E n \in Runs : Forward(n)
    BY <1>2, OtherMoves
  <2> QED
    BY <2>1 DEF Excused
<1> QED
  BY <1>1, <1>2 DEF Next

\* ... and so do all but the page that is loaded, and the removal that is forwarded.
LEMMA ExcuseKept ==
  ASSUME IInv, [Next]_vars, NEW b \in Pages, NEW v \in Vehicles, Excused(b, v),
         page'[b] = page[b] \/ page[b] # "closed", Len(chan'[b]) <= Len(chan[b])
  PROVE  Excused(b, v)'
<1>1. ASSUME NEW n \in Runs, Forward(n), page[b] = "connected" PROVE FALSE
  <2>1. chan'[b] = Append(chan[b], Head(udp)) /\ Head(udp) \in PageMsgs
    BY <1>1, ForwardFacts DEF Connected, PageMsgs
  <2>2. chan[b] \in Seq(PageMsgs)
    BY DEF IInv, PageTypes
  <2>3. Len(chan[b]) \in Nat /\ Len(chan'[b]) = Len(chan[b]) + 1
    BY <2>1, <2>2, AppendFacts
  <2> QED
    BY <2>3
<1> QED
  BY <1>1, ExcuseLasts

LEMMA NextChanFollowed == ASSUME IInv, [Next]_vars PROVE ChanFollowed'
<1>0. /\ ChanFollowed /\ UdpFollowed /\ Silent /\ chan \in [Pages -> Seq(PageMsgs)] /\ udp \in Seq(UdpMsgs)
      /\ page \in [Pages -> {"closed", "connected", "offline"}]
  BY DEF IInv, Followed, PageTypes, ServerTypes
<1> SUFFICES ASSUME NEW b \in Pages, NEW v \in Vehicles, NEW look \in Looks, NEW i \in 1 .. Len(chan'[b]),
                    chan'[b][i] = Object(v, look)
             PROVE  Excused(b, v)' \/ Later(chan'[b], i, ObjClean(v))
  BY DEF ChanFollowed, Excused
<1>1. \A k \in 1 .. Len(chan[b]) : chan[b][k] = Object(v, look) => Excused(b, v) \/ Later(chan[b], k, ObjClean(v))
  BY <1>0 DEF ChanFollowed, Excused
<1>2. ASSUME chan'[b] = chan[b], page'[b] = page[b] \/ page[b] # "closed"
      PROVE  Excused(b, v)' \/ Later(chan'[b], i, ObjClean(v))
  <2>1. i \in 1 .. Len(chan[b]) /\ chan[b][i] = Object(v, look) /\ Len(chan[b]) \in Nat
    BY <1>0, <1>2
  <2>2. Len(chan'[b]) <= Len(chan[b])
    BY <1>2, <2>1
  <2>3. Excused(b, v) => Excused(b, v)'
    BY <1>2, <2>2, ExcuseKept
  <2> QED
    BY <1>1, <1>2, <2>1, <2>3
<1>3. ASSUME chan'[b] = <<>> PROVE FALSE
  BY <1>3
<1>4. ASSUME NEW n \in Runs, NEW how \in {"exited", "mapTwice"}, Exit(n, how)
      PROVE  Excused(b, v)' \/ Later(chan'[b], i, ObjClean(v))
  <2>1. chan'[b] = <<>> \/ (chan'[b] = chan[b] /\ page'[b] = page[b])
    BY <1>4, ExitFacts
  <2> QED
    BY <1>2, <1>3, <2>1
<1>5. ASSUME NEW n \in Runs, Forward(n) PROVE Excused(b, v)' \/ Later(chan'[b], i, ObjClean(v))
  <2>1. CASE page[b] # "connected"
    <3>1. chan'[b] = chan[b] /\ page'[b] = page[b]
      BY <1>5, <2>1, ForwardFacts DEF Connected
    <3> QED
      BY <1>2, <3>1
  <2>2. CASE page[b] = "connected"
    <3> DEFINE m == udp[1]
    <3>1. /\ udp # <<>> /\ udp' = Tail(udp) /\ m = Head(udp) /\ m \in PageMsgs
          /\ chan'[b] = Append(chan[b], m) /\ chan[b] \in Seq(PageMsgs)
      BY <1>0, <1>5, <2>2, ForwardFacts, TailFacts DEF Connected, Served, PageMsgs
    <3>2. /\ Len(chan[b]) \in Nat /\ Len(chan'[b]) = Len(chan[b]) + 1 /\ chan'[b][Len(chan[b]) + 1] = m
          /\ \A k \in 1 .. Len(chan[b]) : chan'[b][k] = chan[b][k]
      BY <3>1, AppendFacts
    <3>3. CASE i = Len(chan[b]) + 1
      <4>1. m = Object(v, look)
        BY <3>2, <3>3
      <4>2. 1 \in 1 .. Len(udp) /\ udp[1] = Object(v, look)
        BY <1>0, <3>1, <4>1, TailFacts
      <4>3. v \in db \/ Later(udp, 1, ObjClean(v)) \/ v \in missed[b]
        BY <1>0, <4>2 DEF UdpFollowed
      <4>4. Later(udp, 1, ObjClean(v)) => Within(udp', ObjClean(v))
        BY <1>0, <3>1, LaterTail
      <4>5. UNCHANGED db /\ missed[b] \subseteq missed'[b]
        BY <1>5, ForwardFacts DEF aimVars
      <4> QED
        BY <4>3, <4>4, <4>5 DEF Excused
    <3>4. CASE i # Len(chan[b]) + 1
      <4>1. i \in 1 .. Len(chan[b]) /\ chan[b][i] = Object(v, look)
        BY <3>2, <3>4
      <4>2. Later(chan[b], i, ObjClean(v)) \/ m = ObjClean(v) => Later(chan'[b], i, ObjClean(v))
        BY <3>1, <4>1, LaterAppend
      <4>3. Excused(b, v) => Excused(b, v)' \/ m = ObjClean(v)
        BY <2>2, ExcuseLasts
      <4> QED
        BY <1>1, <4>1, <4>2, <4>3
    <3> QED
      BY <3>3, <3>4
  <2> QED
    BY <2>1, <2>2
<1>6. ASSUME NEW n \in Runs, NEW c \in Pages, Connect(n, c)
      PROVE  Excused(b, v)' \/ Later(chan'[b], i, ObjClean(v))
  <2> DEFINE m == IF server[n].mapmsg THEN MapMsg ELSE NullMsg
  <2>1. /\ m \in {MapMsg, NullMsg} /\ page' = [page EXCEPT ![c] = "connected"] /\ page[c] # "connected"
        /\ (b \in Connected \cup {c} => chan'[b] = Append(chan[b], m))
        /\ (b \notin Connected \cup {c} => chan'[b] = chan[b])
    BY <1>6, ConnectFacts
  <2> HIDE DEF m
  <2>2. m \in PageMsgs /\ m # Object(v, look)
    BY <2>1, Kinds DEF PageMsgs
  <2>3. CASE b \notin Connected \cup {c}
    BY <1>0, <1>2, <2>1, <2>3
  <2>4. CASE b \in Connected
    <3>1. /\ page[b] = "connected" /\ chan[b] \in Seq(PageMsgs) /\ chan'[b] = Append(chan[b], m)
      BY <1>0, <2>1, <2>4 DEF Connected
    <3>2. i \in 1 .. Len(chan[b]) /\ chan[b][i] = Object(v, look)
      BY <2>2, <3>1, AppendFacts
    <3>3. Later(chan[b], i, ObjClean(v)) => Later(chan'[b], i, ObjClean(v))
      BY <2>2, <3>1, <3>2, LaterAppend
    <3>4. ASSUME NEW k \in Runs, Forward(k) PROVE FALSE
      <4>1. udp # <<>> /\ udp' = Tail(udp) /\ udp' = udp
        BY <1>6, <3>4, ForwardFacts DEF Connect, Served
      <4> QED
        BY <1>0, <4>1, TailFacts
    <3>5. Excused(b, v) => Excused(b, v)'
      BY <3>1, <3>4, ExcuseLasts
    <3> QED
      BY <1>1, <3>2, <3>3, <3>5
  <2>5. CASE b = c
    <3>1. chan[b] = <<>> /\ chan'[b] = Append(<<>>, m)
      BY <1>0, <2>1, <2>5 DEF Silent
    <3>2. chan'[b][1] = m /\ Len(chan'[b]) = 1
      BY <3>1
    <3>3. i = 1
      BY <3>2
    <3> QED
      BY <2>2, <3>2, <3>3
  <2> QED
    BY <2>3, <2>4, <2>5
<1>7. ASSUME NEW c \in Pages, Disconnect(c) \/ Close(c)
      PROVE  Excused(b, v)' \/ Later(chan'[b], i, ObjClean(v))
  <2>1. CASE b = c
    BY <1>3, <1>7, <2>1, DisconnectFacts, CloseFacts
  <2>2. CASE b # c
    BY <1>2, <1>7, <2>2, DisconnectFacts, CloseFacts
  <2> QED
    BY <2>1, <2>2
<1>8. ASSUME NEW c \in Pages, PageReceives(c)
      PROVE  Excused(b, v)' \/ Later(chan'[b], i, ObjClean(v))
  <2>1. PICK m : Receive(c, m)
    BY <1>8, ReceivedFacts
  <2>2. CASE b # c
    BY <1>2, <2>1, <2>2, ReceiveFacts
  <2>3. CASE b = c
    <3>1. /\ page'[b] = page[b] /\ chan[b] \in Seq(PageMsgs) /\ chan[b] # <<>> /\ chan'[b] = Tail(chan[b])
      BY <2>1, <2>3, ReceiveFacts
    <3>2. /\ \A k \in 1 .. Len(Tail(chan[b])) : k + 1 \in 1 .. Len(chan[b]) /\ Tail(chan[b])[k] = chan[b][k + 1]
          /\ \A k \in 1 .. Len(Tail(chan[b])) :
                Later(chan[b], k + 1, ObjClean(v)) => Later(Tail(chan[b]), k, ObjClean(v))
      BY <3>1, LaterTail
    <3>3. /\ i + 1 \in 1 .. Len(chan[b]) /\ chan[b][i + 1] = Object(v, look)
          /\ Later(chan[b], i + 1, ObjClean(v)) => Later(chan'[b], i, ObjClean(v))
      BY <3>1, <3>2
    <3>4. Len(chan[b]) \in Nat /\ Len(Tail(chan[b])) = Len(chan[b]) - 1
      BY <3>1, TailFacts
    <3>5. Len(chan'[b]) <= Len(chan[b])
      BY <3>1, <3>4
    <3>6. Excused(b, v) => Excused(b, v)'
      BY <3>1, <3>5, ExcuseKept
    <3> QED
      BY <1>1, <3>3, <3>6
  <2> QED
    BY <2>2, <2>3
<1>9. CASE UNCHANGED <<page, chan, map_rx, markers, early>>
  BY <1>2, <1>9
<1> QED
  BY <1>4, <1>5, <1>6, <1>7, <1>8, <1>9, PageSteps

LEMMA NextNoGhost == ASSUME IInv, [Next]_vars PROVE NoGhost'
<1>0. /\ NoGhost /\ ChanFollowed /\ Silent /\ chan \in [Pages -> Seq(PageMsgs)] /\ udp \in Seq(UdpMsgs)
      /\ page \in [Pages -> {"closed", "connected", "offline"}]
      /\ \A b \in Pages : DOMAIN markers[b] \subseteq Vehicles
  BY DEF IInv, Followed, PageTypes, ServerTypes
<1>11. \A b \in Pages : DOMAIN markers'[b] \subseteq Vehicles
  BY NextPageTypes DEF PageTypes
<1> SUFFICES ASSUME NEW b \in Pages, page'[b] # "closed", NEW v \in Vehicles, v \in DOMAIN markers'[b]
             PROVE  Excused(b, v)' \/ Within(chan'[b], ObjClean(v))
  BY <1>11 DEF NoGhost, Excused, Open
<1>1. page[b] # "closed" /\ v \in DOMAIN markers[b] => Excused(b, v) \/ Within(chan[b], ObjClean(v))
  BY <1>0 DEF NoGhost, Excused, Open
<1>2. ASSUME chan'[b] = chan[b], page'[b] = page[b], markers'[b] = markers[b]
      PROVE  Excused(b, v)' \/ Within(chan'[b], ObjClean(v))
  <2>1. Len(chan'[b]) <= Len(chan[b])
    BY <1>0, <1>2
  <2>2. Excused(b, v) => Excused(b, v)'
    BY <1>2, <2>1, ExcuseKept
  <2> QED
    BY <1>1, <1>2, <2>2
<1>3. ASSUME chan'[b] = <<>>, page[b] # "closed", markers'[b] = markers[b], Within(chan[b], ObjClean(v)) => v \in missed'[b]
      PROVE  Excused(b, v)' \/ Within(chan'[b], ObjClean(v))
  <2>1. Len(chan[b]) \in Nat /\ Len(<<>>) = 0
    BY <1>0
  <2>2. Len(chan'[b]) <= Len(chan[b])
    BY <1>3, <2>1
  <2>3. Excused(b, v) => Excused(b, v)'
    BY <1>3, <2>2, ExcuseKept
  <2> QED
    BY <1>1, <1>3, <2>3 DEF Excused
<1>4. ASSUME NEW n \in Runs, NEW how \in {"exited", "mapTwice"}, Exit(n, how)
      PROVE  Excused(b, v)' \/ Within(chan'[b], ObjClean(v))
  <2>1. markers'[b] = markers[b]
    BY <1>4, ExitFacts
  <2>2. CASE server[n].http
    <3>1. chan'[b] = <<>> /\ page[b] # "closed" /\ Cleaned(chan[b]) \subseteq missed'[b]
      BY <1>4, <2>2, ExitFacts
    <3> QED
      BY <1>3, <2>1, <3>1, CleanedFacts
  <2>3. CASE ~ server[n].http
    BY <1>2, <1>4, <2>1, <2>3, ExitFacts
  <2> QED
    BY <2>2, <2>3
<1>5. ASSUME NEW n \in Runs, Forward(n) PROVE Excused(b, v)' \/ Within(chan'[b], ObjClean(v))
  <2>1. page'[b] = page[b] /\ markers'[b] = markers[b]
    BY <1>5, ForwardFacts
  <2>2. CASE page[b] # "connected"
    BY <1>2, <1>5, <2>1, <2>2, ForwardFacts DEF Connected
  <2>3. CASE page[b] = "connected"
    <3>1. /\ udp # <<>> /\ udp[1] \in PageMsgs
          /\ chan'[b] = Append(chan[b], udp[1]) /\ chan[b] \in Seq(PageMsgs)
      BY <1>0, <1>5, <2>3, ForwardFacts, TailFacts DEF Connected, Served, PageMsgs
    <3>2. Within(chan[b], ObjClean(v)) \/ udp[1] = ObjClean(v) => Within(chan'[b], ObjClean(v))
      BY <3>1, WithinAppend
    <3>3. Excused(b, v) => Excused(b, v)' \/ udp[1] = ObjClean(v)
      BY <2>3, ExcuseLasts
    <3> QED
      BY <1>1, <2>1, <2>3, <3>2, <3>3
  <2> QED
    BY <2>2, <2>3
<1>6. ASSUME NEW n \in Runs, NEW c \in Pages, Connect(n, c)
      PROVE  Excused(b, v)' \/ Within(chan'[b], ObjClean(v))
  <2> DEFINE m == IF server[n].mapmsg THEN MapMsg ELSE NullMsg
  <2>1. /\ m \in {MapMsg, NullMsg} /\ page' = [page EXCEPT ![c] = "connected"] /\ markers' = markers
        /\ chan'[b] = Append(chan[b], m) \/ chan'[b] = chan[b]
        /\ UNCHANGED <<aimVars, udp>>
        /\ missed'[c] = IF page[c] = "closed" THEN missed[c] \cap Drawn(udp) ELSE missed[c]
        /\ b # c => missed'[b] = missed[b]
    BY <1>6, ConnectFacts
  <2> HIDE DEF m
  <2>2. m \in PageMsgs /\ chan[b] \in Seq(PageMsgs)
    BY <1>0, <2>1 DEF PageMsgs
  <2>3. Within(chan[b], ObjClean(v)) => Within(chan'[b], ObjClean(v))
    <3>1. Within(chan[b], ObjClean(v)) => Within(Append(chan[b], m), ObjClean(v))
      BY <2>2, WithinAppend
    <3> QED
      BY <2>1, <3>1
  <2>4. page[b] # "closed"
    BY <1>0, <2>1 DEF Silent
  <2>5. Excused(b, v) => Excused(b, v)'
    BY <2>1, <2>4 DEF Excused, aimVars
  <2> QED
    BY <1>1, <2>1, <2>3, <2>4, <2>5
<1>7. ASSUME NEW c \in Pages, Disconnect(c) PROVE Excused(b, v)' \/ Within(chan'[b], ObjClean(v))
  <2>1. CASE b = c
    BY <1>3, <1>7, <2>1, DisconnectFacts
  <2>2. CASE b # c
    BY <1>2, <1>7, <2>2, DisconnectFacts
  <2> QED
    BY <2>1, <2>2
<1>8. ASSUME NEW c \in Pages, Close(c) PROVE Excused(b, v)' \/ Within(chan'[b], ObjClean(v))
  <2>1. b # c
    BY <1>8, CloseFacts
  <2> QED
    BY <1>2, <1>8, <2>1, CloseFacts
<1>9. ASSUME NEW c \in Pages, PageReceives(c) PROVE Excused(b, v)' \/ Within(chan'[b], ObjClean(v))
  <2>1. PICK m : /\ Receive(c, m)
                 /\ \A d \in Pages \ {c} : map_rx'[d] = map_rx[d] /\ markers'[d] = markers[d]
                 /\ \/ m = NullMsg /\ UNCHANGED <<map_rx, markers>>
                    \/ m = MapMsg /\ UNCHANGED markers
                    \/ \E w \in Vehicles, look \in Looks :
                          /\ m = Object(w, look)
                          /\ UNCHANGED markers \/ DOMAIN markers'[c] = DOMAIN markers[c] \cup {w}
                    \/ \E w \in Vehicles : m = ObjClean(w) /\ DOMAIN markers'[c] = DOMAIN markers[c] \ {w}
    BY <1>9, ReceivedFacts
  <2>2. CASE b # c
    BY <1>2, <2>1, <2>2, ReceiveFacts
  <2>3. CASE b = c
    <3>1. /\ page'[b] = page[b] /\ page[b] = "connected" /\ chan[b] \in Seq(PageMsgs) /\ chan[b] # <<>>
          /\ chan[b][1] = m /\ chan'[b] = Tail(chan[b])
      BY <2>1, <2>3, ReceiveFacts
    <3>2. Len(chan[b]) \in Nat \ {0} /\ Len(Tail(chan[b])) = Len(chan[b]) - 1
      BY <3>1, TailFacts
    <3>3. Len(chan'[b]) <= Len(chan[b]) /\ 1 \in 1 .. Len(chan[b])
      BY <3>1, <3>2
    <3>4. Excused(b, v) => Excused(b, v)'
      BY <3>1, <3>3, ExcuseKept
    <3>5. Within(chan[b], ObjClean(v)) => m = ObjClean(v) \/ Within(chan'[b], ObjClean(v))
      BY <3>1, WithinTail
    <3>6. CASE m # ObjClean(v) /\ v \in DOMAIN markers[b]
      BY <1>1, <3>1, <3>4, <3>5, <3>6
    <3>7. CASE m = ObjClean(v)
      <4>1. v \notin DOMAIN markers'[b]
        BY <2>1, <2>3, <3>7, Kinds
      <4> QED
        BY <4>1
    <3>8. CASE v \notin DOMAIN markers[b]
      <4>1. PICK look \in Looks : m = Object(v, look)
        BY <2>1, <2>3, <3>8
      <4>2. Excused(b, v) \/ Later(chan[b], 1, ObjClean(v))
        BY <1>0, <3>1, <3>3, <4>1 DEF ChanFollowed, Excused
      <4>3. Later(chan[b], 1, ObjClean(v)) => Within(chan'[b], ObjClean(v))
        BY <3>1, LaterTail
      <4> QED
        BY <3>4, <4>2, <4>3
    <3> QED
      BY <3>6, <3>7, <3>8
  <2> QED
    BY <2>2, <2>3
<1>10. CASE UNCHANGED <<page, chan, map_rx, markers, early>>
  BY <1>2, <1>10
<1> QED
  BY <1>4, <1>5, <1>6, <1>7, <1>8, <1>9, <1>10, PageSteps

-----------------------------------------------------------------------------
(* The map first                                                           *)

\* The map is under way, and no object before it.
MapLeads(msgs) == \E i \in 1 .. Len(msgs) : msgs[i] = MapMsg /\ \A j \in 1 .. i : msgs[j] \notin Objects

LEMMA LeadsAppend ==
  ASSUME NEW s \in Seq(PageMsgs), NEW m \in PageMsgs, MapLeads(s) \/ (s = <<>> /\ m = MapMsg)
  PROVE  MapLeads(Append(s, m))
<1>1. /\ Len(s) \in Nat /\ Len(Append(s, m)) = Len(s) + 1
      /\ \A k \in 1 .. Len(s) : Append(s, m)[k] = s[k]
      /\ Append(s, m)[Len(s) + 1] = m
  BY AppendFacts
<1>2. CASE MapLeads(s)
  <2>1. PICK i \in 1 .. Len(s) : s[i] = MapMsg /\ \A j \in 1 .. i : s[j] \notin Objects
    BY <1>2 DEF MapLeads
  <2>2. i \in 1 .. Len(Append(s, m)) /\ \A j \in 1 .. i : j \in 1 .. Len(s)
    BY <1>1, <2>1
  <2> QED
    BY <1>1, <2>1, <2>2 DEF MapLeads
<1>3. CASE s = <<>> /\ m = MapMsg
  <2>1. Len(Append(s, m)) = 1 /\ Append(s, m)[1] = MapMsg /\ MapMsg \notin Objects
    BY <1>1, <1>3, Sorts
  <2>2. \A j \in 1 .. 1 : j = 1
    OBVIOUS
  <2> QED
    BY <2>1, <2>2 DEF MapLeads
<1> QED
  BY <1>2, <1>3

LEMMA LeadsTail ==
  ASSUME NEW s \in Seq(PageMsgs), s # <<>>, s[1] # MapMsg, MapLeads(s)
  PROVE  MapLeads(Tail(s))
<1>1. /\ Len(s) \in Nat \ {0} /\ Len(Tail(s)) = Len(s) - 1
      /\ \A i \in 1 .. Len(s) - 1 : Tail(s)[i] = s[i + 1]
  BY TailFacts
<1>2. PICK i \in 1 .. Len(s) : s[i] = MapMsg /\ \A j \in 1 .. i : s[j] \notin Objects
  BY DEF MapLeads
<1>3. i - 1 \in 1 .. Len(Tail(s)) /\ Tail(s)[i - 1] = MapMsg
  BY <1>1, <1>2
<1>4. \A j \in 1 .. i - 1 : j + 1 \in 1 .. i /\ Tail(s)[j] = s[j + 1]
  BY <1>1, <1>2
<1> QED
  BY <1>2, <1>3, <1>4 DEF MapLeads

LEMMA NextMapFirst == ASSUME IInv, [Next]_vars PROVE MapFirst'
<1>0. /\ MapFirst /\ Silent /\ chan \in [Pages -> Seq(PageMsgs)] /\ map_rx \in [Pages -> BOOLEAN]
      /\ page \in [Pages -> {"closed", "connected", "offline"}]
  BY DEF IInv, PageTypes
<1> SUFFICES ASSUME NEW b \in Pages, page'[b] = "connected", b \notin early', ~ map_rx'[b]
             PROVE  MapLeads(chan'[b])
  BY DEF MapFirst, MapLeads, Connected
<1>1. page[b] = "connected" /\ b \notin early /\ ~ map_rx[b] => MapLeads(chan[b])
  BY <1>0 DEF MapFirst, MapLeads, Connected
<1>2. CASE UNCHANGED <<page, chan, map_rx, markers, early>>
  BY <1>1, <1>2
<1>3. ASSUME NEW n \in Runs, NEW how \in {"exited", "mapTwice"}, Exit(n, how) PROVE MapLeads(chan'[b])
  <2>1. ~ server[n].http
    BY <1>3, ExitFacts
  <2> QED
    BY <1>1, <1>3, <2>1, ExitFacts
<1>4. ASSUME NEW n \in Runs, Forward(n) PROVE MapLeads(chan'[b])
  <2>1. /\ page[b] = "connected" /\ b \notin early /\ ~ map_rx[b] /\ chan[b] \in Seq(PageMsgs)
        /\ Head(udp) \in PageMsgs /\ chan'[b] = Append(chan[b], Head(udp))
    BY <1>0, <1>4, ForwardFacts DEF Connected, PageMsgs
  <2> QED
    BY <1>1, <2>1, LeadsAppend
<1>5. ASSUME NEW n \in Runs, NEW c \in Pages, Connect(n, c) PROVE MapLeads(chan'[b])
  <2> DEFINE m == IF server[n].mapmsg THEN MapMsg ELSE NullMsg
  <2>1. /\ m \in {MapMsg, NullMsg} /\ page' = [page EXCEPT ![c] = "connected"] /\ page[c] # "connected"
        /\ (b \in Connected \cup {c} => chan'[b] = Append(chan[b], m)) /\ map_rx' = map_rx
    BY <1>5, ConnectFacts
  <2>2. early' = IF server[n].mapmsg THEN early \ {c} ELSE early \cup {c}
    BY <1>5 DEF Connect
  <2>3. b = c => m = MapMsg
    BY <2>2
  <2> HIDE DEF m
  <2>4. m \in PageMsgs /\ chan[b] \in Seq(PageMsgs)
    BY <1>0, <2>1 DEF PageMsgs
  <2>5. CASE b = c
    <3>1. chan[b] = <<>> /\ chan'[b] = Append(chan[b], m) /\ m = MapMsg
      BY <1>0, <2>1, <2>3, <2>5 DEF Silent
    <3> QED
      BY <2>4, <3>1, LeadsAppend
  <2>6. CASE b # c
    <3>1. page[b] = "connected" /\ b \notin early /\ ~ map_rx[b]
      BY <1>0, <2>1, <2>2, <2>6
    <3>2. chan'[b] = Append(chan[b], m)
      BY <2>1, <3>1 DEF Connected
    <3> QED
      BY <1>1, <2>4, <3>1, <3>2, LeadsAppend
  <2> QED
    BY <2>5, <2>6
<1>6. ASSUME NEW c \in Pages, Disconnect(c) PROVE MapLeads(chan'[b])
  BY <1>1, <1>6, DisconnectFacts
<1>7. ASSUME NEW c \in Pages, Close(c) PROVE MapLeads(chan'[b])
  BY <1>1, <1>7, CloseFacts
<1>8. ASSUME NEW c \in Pages, PageReceives(c) PROVE MapLeads(chan'[b])
  <2>1. PICK m : /\ Receive(c, m)
                 /\ \A d \in Pages \ {c} : map_rx'[d] = map_rx[d]
                 /\ UNCHANGED map_rx \/ map_rx'[c]
                 /\ m # MapMsg \/ map_rx'[c]
    BY <1>8, ReceivedFacts, Kinds
  <2>2. CASE b # c
    BY <1>1, <2>1, <2>2, ReceiveFacts
  <2>3. CASE b = c
    <3>1. m # MapMsg /\ ~ map_rx[b]
      BY <2>1, <2>3
    <3>2. /\ page[b] = "connected" /\ b \notin early /\ chan[b] \in Seq(PageMsgs) /\ chan[b] # <<>>
          /\ chan[b][1] = m /\ chan'[b] = Tail(chan[b])
      BY <2>1, <2>3, ReceiveFacts
    <3> QED
      BY <1>1, <3>1, <3>2, LeadsTail
  <2> QED
    BY <2>2, <2>3
<1> QED
  BY <1>2, <1>3, <1>4, <1>5, <1>6, <1>7, <1>8, PageSteps

-----------------------------------------------------------------------------
(* The icons                                                               *)

\* A marker that changes has the icon of one that is new.
LEMMA ChangedIcon ==
  ASSUME NEW old, NEW look, old.icon = NewMarker(old.look).icon
  PROVE  /\ ChangedMarker(old, look).icon = NewMarker(look).icon
         /\ ChangedMarker(old, look).look = look /\ NewMarker(look).look = look
<1>1. old.icon \in {"greenCircle", "circle", "car"}
  BY DEF NewMarker
<1> QED
  BY <1>1 DEF NewMarker, ChangedMarker

LEMMA NextIconRight == ASSUME IInv, [Next]_vars PROVE IconRight'
<1>0. IconRight
  BY DEF IInv
<1>1. ASSUME UNCHANGED markers PROVE IconRight'
  BY <1>0, <1>1 DEF IconRight, NewMarker, Unavailable
<1>2. ASSUME NEW n \in Runs, Forward(n) \/ (\E how : Exit(n, how)) \/ (\E b \in Pages : Connect(n, b))
      PROVE  UNCHANGED markers
  BY <1>2 DEF Forward, Exit, Connect
<1>3. ASSUME NEW b \in Pages, Disconnect(b) PROVE UNCHANGED markers
  BY <1>3 DEF Disconnect
<1>4. ASSUME NEW b \in Pages, Close(b) PROVE IconRight'
  <2>1. DOMAIN markers'[b] = {} /\ \A c \in Pages \ {b} : markers'[c] = markers[c]
    BY <1>4, CloseFacts
  <2> QED
    BY <1>0, <2>1 DEF IconRight
<1>5. ASSUME NEW b \in Pages, PageReceives(b) PROVE IconRight'
  <2>1. /\ \A c \in Pages \ {b} : markers'[c] = markers[c]
        /\ \/ UNCHANGED markers
           \/ \E v \in Vehicles, look \in Looks :
                 /\ DOMAIN markers'[b] = DOMAIN markers[b] \cup {v}
                 /\ \A w \in DOMAIN markers[b] \ {v} : markers'[b][w] = markers[b][w]
                 /\ markers'[b][v] = IF v \in DOMAIN markers[b]
                                     THEN ChangedMarker(markers[b][v], look) ELSE NewMarker(look)
           \/ \E v \in Vehicles : /\ DOMAIN markers'[b] = DOMAIN markers[b] \ {v}
                                  /\ \A w \in DOMAIN markers'[b] : markers'[b][w] = markers[b][w]
    BY <1>5, ReceivedFacts
  <2>2. ASSUME NEW v \in Vehicles, NEW look \in Looks,
               DOMAIN markers'[b] = DOMAIN markers[b] \cup {v},
               \A w \in DOMAIN markers[b] \ {v} : markers'[b][w] = markers[b][w],
               markers'[b][v] = IF v \in DOMAIN markers[b]
                                THEN ChangedMarker(markers[b][v], look) ELSE NewMarker(look)
        PROVE  IconRight'
    <3>1. markers'[b][v].icon = NewMarker(markers'[b][v].look).icon
      <4>1. CASE v \in DOMAIN markers[b]
        <5>1. markers[b][v].icon = NewMarker(markers[b][v].look).icon
          BY <1>0, <4>1 DEF IconRight
        <5> QED
          BY <2>2, <4>1, <5>1, ChangedIcon
      <4>2. CASE v \notin DOMAIN markers[b]
        <5>1. NewMarker(look).look = look
          BY DEF NewMarker
        <5> QED
          BY <2>2, <4>2, <5>1
      <4> QED
        BY <4>1, <4>2
    <3>2. \A w \in DOMAIN markers'[b] \ {v} : markers'[b][w].icon = NewMarker(markers'[b][w].look).icon
      BY <1>0, <2>2 DEF IconRight
    <3>3. \A c \in Pages \ {b} : \A w \in DOMAIN markers'[c] : markers'[c][w].icon = NewMarker(markers'[c][w].look).icon
      BY <1>0, <2>1 DEF IconRight
    <3> QED
      BY <3>1, <3>2, <3>3 DEF IconRight
  <2>3. ASSUME NEW v \in Vehicles, DOMAIN markers'[b] = DOMAIN markers[b] \ {v},
               \A w \in DOMAIN markers'[b] : markers'[b][w] = markers[b][w]
        PROVE  IconRight'
    BY <1>0, <2>1, <2>3 DEF IconRight
  <2> QED
    BY <1>1, <2>1, <2>2, <2>3
<1> QED
  BY <1>1, <1>2, <1>3, <1>4, <1>5, PageSteps

-----------------------------------------------------------------------------
(* The theorems                                                            *)

LEMMA InitIInv == Init => IInv
<1> SUFFICES ASSUME Init PROVE IInv
  OBVIOUS
<1>1. AimTypes
  BY VehVisualizerAssumption DEF Init, AimTypes, NewClient, Runs
<1>2. NoServer \in Servers /\ ~ NoServer.udp /\ ~ NoServer.http /\ ~ NoServer.fifo /\ NoServer.process = "none"
  BY DEF NoServer, Servers, Processes
<1>3. server \in [Runs -> Servers] /\ \A n \in Runs : server[n] = NoServer
  BY <1>2 DEF Init
<1>4. ServerTypes
  BY <1>3, VehVisualizerAssumption DEF Init, ServerTypes
<1>5. DOMAIN NoMarkers = {}
  BY DEF NoMarkers
<1>6. PageTypes
  BY <1>5, VehVisualizerAssumption DEF Init, PageTypes
<1>7. Ports /\ Started /\ Ready /\ OneMap
  BY <1>1, <1>2, <1>3 DEF Init, Ports, Started, Ready, OneMap, MapDue, OneMapPerServer, Live, AimTypes
<1>8. Silent /\ Followed /\ MapFirst /\ IconRight
  BY <1>5 DEF Init, Silent, Followed, UdpFollowed, ChanFollowed, NoGhost, Open, MapFirst, Connected, IconRight
<1> QED
  BY <1>1, <1>4, <1>6, <1>7, <1>8 DEF IInv

LEMMA NextIInv == IInv /\ [Next]_vars => IInv'
<1> SUFFICES ASSUME IInv, [Next]_vars PROVE IInv'
  OBVIOUS
<1>1. AimTypes' /\ ServerTypes' /\ PageTypes'
  BY NextAimTypes, NextServerTypes, NextPageTypes
<1>2. Ports' /\ Started' /\ Ready' /\ OneMap'
  BY NextPorts, NextStarted, NextReady, NextOneMap
<1>3. Silent' /\ Followed' /\ MapFirst' /\ IconRight'
  BY NextSilent, NextUdpFollowed, NextChanFollowed, NextNoGhost, NextMapFirst, NextIconRight DEF Followed
<1> QED
  BY <1>1, <1>2, <1>3 DEF IInv

LEMMA Invariant == Spec => []IInv
BY InitIInv, NextIInv, PTL DEF Spec

\* A set of runs with one member at most.
LEMMA AtMostOne ==
  ASSUME NEW S \in SUBSET Runs, \A m, n \in S : m = n
  PROVE  Cardinality(S) <= 1
<1>1. CASE S = {}
  BY <1>1, FS_EmptySet
<1>2. CASE S # {}
  <2>1. PICK n \in S : TRUE
    BY <1>2
  <2>2. S = {n}
    BY <2>1
  <2> QED
    BY <2>2, FS_Singleton
<1> QED
  BY <1>1, <1>2

LEMMA IInvTypeOK == IInv => TypeOK
<1> SUFFICES ASSUME IInv PROVE TypeOK
  OBVIOUS
<1>1. AimTypes /\ ServerTypes /\ PageTypes /\ Ports
  BY DEF IInv
<1>2. \A n \in Runs :
         /\ server[n].process \in {"none", "starting", "exited", "mapTwice"}
         /\ {server[n].udp, server[n].http, server[n].mapmsg, server[n].fifo} \subseteq BOOLEAN
  <2>1. \A n \in Runs : server[n] \in Servers
    BY <1>1 DEF ServerTypes
  <2> QED
    BY <2>1 DEF Servers, Processes
<1>3. Cardinality(Bound) <= 1 /\ Cardinality(HTTPBound) <= 1
  <2>1. Bound \in SUBSET Runs /\ \A m, n \in Bound : m = n
    BY <1>1 DEF Bound, Ports
  <2>2. HTTPBound \in SUBSET Runs /\ \A m, n \in HTTPBound : m = n
    BY <1>1 DEF HTTPBound, Ports
  <2> QED
    BY <2>1, <2>2, AtMostOne
<1>4. Len(udp) <= UDPBuffer /\ (Bound = {} => udp = <<>>)
  BY <1>1 DEF ServerTypes, Ports, Bound
<1>5. \A i \in 1 .. Len(udp) : udp[i] \in Objects \cup ObjCleans \cup {MapMsg, Terminate}
  BY <1>1 DEF ServerTypes, UdpMsgs
<1>6. \A b \in Pages :
         /\ page[b] \in {"closed", "connected", "offline"}
         /\ Len(chan[b]) <= PageBuffer
         /\ \A i \in 1 .. Len(chan[b]) : chan[b][i] \in Objects \cup ObjCleans \cup {MapMsg, NullMsg}
         /\ map_rx[b] \in BOOLEAN
         /\ DOMAIN markers[b] \subseteq Vehicles /\ missed[b] \subseteq Vehicles
  <2>1. \A b \in Pages : chan[b] \in Seq(PageMsgs)
    BY <1>1 DEF PageTypes
  <2>2. \A b \in Pages : \A i \in 1 .. Len(chan[b]) : chan[b][i] \in PageMsgs
    BY <2>1
  <2> QED
    BY <1>1, <2>2 DEF PageTypes, PageMsgs
<1> QED
  BY <1>1, <1>2, <1>3, <1>4, <1>5, <1>6 DEF TypeOK, AimTypes, PageTypes

\* The types hold, each of the two ports of the server has one process at most, and the
\* socket of a server that is gone is empty - whatever crashes, restarts and kills.
THEOREM TypeCorrect == Spec => []TypeOK
BY Invariant, IInvTypeOK, PTL

\* No server receives a second map message, which would end it (server.js): AIM sends one
\* map a run, and only after the server of that very run has had the port; a server of an
\* earlier run that has it then got it later, and has no map.
THEOREM OneMapOnly == Spec => []OneMapPerServer
<1>1. IInv => OneMapPerServer
  BY DEF IInv, OneMap
<1> QED
  BY <1>1, Invariant, PTL

\* A marker stands for a vehicle in the database, or its removal is under way, or was lost
\* to a full socket, to a page offline, or to an end of AIM or of the server.
THEOREM NoGhostLeft == Spec => []NoGhost
<1>1. IInv => NoGhost
  BY DEF IInv, Followed
<1> QED
  BY <1>1, Invariant, PTL

\* The first message to a page that connects when the server has the map is the map.
THEOREM MapComesFirst == Spec => []MapFirst
<1>1. IInv => MapFirst
  BY DEF IInv
<1> QED
  BY <1>1, Invariant, PTL

\* Whatever updates a marker has seen, its icon is that of the last.
THEOREM IconsRight == Spec => []IconRight
<1>1. IInv => IconRight
  BY DEF IInv
<1> QED
  BY <1>1, Invariant, PTL
=============================================================================
