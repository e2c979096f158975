--------------------------- MODULE ReceptionProofs ---------------------------
(***************************************************************************)
(* Proofs of the invariants of Reception: the types, that frames which     *)
(* were in the socket at the stop are handled, and that nothing is left of *)
(* a message that was stored or printed, for any frames, any capacity of   *)
(* the socket and any number of stops.                                     *)
(***************************************************************************)
EXTENDS Reception, TLAPS

\* The socket is a queue that holds the frames owed to a stop.
SocketHolds == sock \in Seq(Frames) /\ owed <= Len(sock)

\* The thread only leaves on an empty socket, with the bytes of the stops in the pipe.
LeavesDrained ==
    /\ pipe <= stops
    /\ pc = "woken" /\ revents = "pipe" => owed = 0 /\ pipe > 0
    /\ pc = "left" => owed = 0 /\ ~ m_unlock
    /\ pc = "idle" => owed = 0 /\ ~ m_unlock

\* A frame without GeoNetworking has no headers that could be damaged, and one with it is
\* not short.
Proper(f) ==
    /\ f \in AllFrames
    /\ IF f.layers = "its" THEN ~ f.short ELSE f.fault \notin {"gn", "btp"}

\* What a structure says that the decoder has filled.
Valid(d) ==
    /\ Proper(d.msg) /\ Passes(d.msg)
    /\ ~ LayersFail(d.msg) /\ Supported(d.msg) /\ d.msg.fault # "uper"
    /\ d.type = Type(d.msg)

\* What it says at all: the object may be an older one, or none.
Types == {"undefined", "cam", "denm", "cam_nogn", "denm_nogn"}

DataKnown ==
    /\ decodedData = [type |-> decodedData.type, msg |-> decodedData.msg]
    /\ decodedData.type \in Types

FramePassed ==
    /\ msgbuf = None \/ Proper(msgbuf)
    /\ pc = "decode" => Proper(msgbuf) /\ Passes(msgbuf)
    /\ pc = "manage" => Proper(msgbuf)

\* What is managed was decoded from the frame in the buffer, but for damaged headers and
\* what is taken for headers.
Managed == pc = "manage" => LayersFail(msgbuf) \/ (Valid(decodedData) /\ decodedData.msg = msgbuf)

\* What FramesJudged says of a frame.
Judged(f, how, of) == Readable(f) => how \in Fates(f) /\ of \in {f, None}

LastJudged == last.how \notin {"none", "error"} => Judged(last.frame, last.how, last.of)

\* What may stay allocated.
Leftover(o) ==
    \/ o.part = "rest" /\ o.frame.fault = "uper"
    \/ o.part = "discarded" /\ AgeCheck /\ Logging /\ o.frame.msg = "cam" /\ o.frame.layers = "its"
    \/ o.part = "warned" /\ ~ DENMs /\ o.frame.msg = "denm"

\* The object of the message that is managed is the only other one, and the structure says
\* what it is.
HeapKnown ==
    \A o \in heap :
        Leftover(o) \/ (pc \in {"manage", "crashed"} /\ Valid(decodedData) /\ o = Whole(decodedData.msg))

Objects == [frame : AllFrames, part : {"whole", "rest", "discarded", "warned"}]

\* The types, but for those of frames and structures.
StopTypes ==
    /\ m_unlock \in BOOLEAN /\ m_receptionInProgress \in BOOLEAN
    /\ pipe \in 0 .. MaxStops /\ stops \in 0 .. MaxStops
    /\ m_logfile_file \in {"null", "open", "closed"}

ThreadTypes ==
    /\ pc \in {"idle", "started", "poll", "woken", "decode", "manage", "left", "crashed"}
    /\ revents \in {"none", "sock", "pipe"}
    /\ heap \subseteq Objects

SockTypes ==
    /\ Len(sock) <= SockBuffer
    /\ owed \in 0 .. SockBuffer

IInv ==
    /\ StopTypes /\ ThreadTypes /\ SockTypes
    /\ SocketHolds /\ LeavesDrained /\ DataKnown /\ FramePassed /\ HeapKnown
    /\ Managed /\ LastJudged

-----------------------------------------------------------------------------
(* Frames and what the decoder makes of them                               *)

\* The frontend refuses a frame for its messageID or its content, and no other.
LEMMA RefusedJudged ==
    ASSUME NEW f, Proper(f), Passes(f), ~ LayersFail(f), ~ Supported(f) \/ f.fault = "uper"
    PROVE  Judged(f, "refused", None)
<1>1. f.msg = "other" \/ f.fault # "none"
  BY DEF Supported, IsGeoNet, ValidMessageID, Proper, AllFrames
<1> QED
  BY <1>1 DEF Judged, Fates, Passes

\* Of a frame that passed the filters the decoder makes a structure that is valid, or sets
\* no more than its type; what it cannot complete may stay.
LEMMA DecodedKnown ==
    ASSUME DataKnown, Proper(msgbuf), Passes(msgbuf), NEW d \in decodeEtsi(msgbuf)
    PROVE  /\ d.data = [type |-> d.data.type, msg |-> d.data.msg] /\ d.data.type \in Types
           /\ d.objects \subseteq Objects
           /\ \A o \in d.objects :
                 Leftover(o) \/ (d.ret = ETSI_DECODER_OK /\ Valid(d.data) /\ o = Whole(d.data.msg))
           /\ d.ret = ETSI_DECODER_OK => LayersFail(msgbuf) \/ (Valid(d.data) /\ d.data.msg = msgbuf)
           /\ d.ret # ETSI_DECODER_OK => Judged(msgbuf, "refused", None)
<1> USE DEF Decoded, ETSI_DECODED_ERROR, ETSI_DECODER_ERROR, ETSI_DECODER_OK
<1>0. Type(msgbuf) \in Types \/ msgbuf.msg = "other"
  BY DEF Types, Type, Proper, AllFrames
<1>1. CASE LayersFail(msgbuf)
  <2>1. PICK old \in {decodedData, NoData} : d = Decoded(ETSI_DECODED_ERROR, old, {})
    BY <1>1 DEF decodeEtsi
  <2>2. old = [type |-> old.type, msg |-> old.msg] /\ old.type \in Types
    BY <2>1 DEF DataKnown, NoData, Types
  <2> QED
    BY <1>1, <2>1, <2>2
<1>2. CASE ~ LayersFail(msgbuf) /\ ~ Supported(msgbuf)
  <2>1. d = Decoded(ETSI_DECODER_ERROR, [decodedData EXCEPT !.type = "undefined"], {})
    BY <1>2 DEF decodeEtsi
  <2>2. [decodedData EXCEPT !.type = "undefined"] = [type |-> "undefined", msg |-> decodedData.msg]
    BY DEF DataKnown
  <2> QED
    BY <1>2, <2>1, <2>2, RefusedJudged DEF Types
<1>3. CASE ~ LayersFail(msgbuf) /\ Supported(msgbuf) /\ msgbuf.fault = "uper"
  <2>1. d = Decoded(ETSI_DECODER_ERROR, [decodedData EXCEPT !.type = Type(msgbuf)], {Rest(msgbuf)})
    BY <1>3 DEF decodeEtsi
  <2>2. [decodedData EXCEPT !.type = Type(msgbuf)] = [type |-> Type(msgbuf), msg |-> decodedData.msg]
    BY DEF DataKnown
  <2>3. Leftover(Rest(msgbuf)) /\ Rest(msgbuf) \in Objects
    BY <1>3 DEF Leftover, Rest, Proper, Objects
  <2>4. Type(msgbuf) \in Types
    BY <1>0, <1>3 DEF LayersFail, Supported, ValidMessageID
  <2>5. Judged(msgbuf, "refused", None)
    BY <1>3, RefusedJudged
  <2> QED
    BY <2>1, <2>2, <2>3, <2>4, <2>5
<1>4. CASE ~ LayersFail(msgbuf) /\ Supported(msgbuf) /\ msgbuf.fault # "uper"
  <2>1. d = Decoded(ETSI_DECODER_OK, [type |-> Type(msgbuf), msg |-> msgbuf], {Whole(msgbuf)})
    BY <1>4 DEF decodeEtsi
  <2>2. Whole(msgbuf) \in Objects
    BY DEF Whole, Proper, Objects
  <2>3. Valid(d.data) /\ d.data.msg = msgbuf
    BY <1>4, <2>1 DEF Valid
  <2>4. Type(msgbuf) \in Types
    BY <1>0, <1>4 DEF LayersFail, Supported, ValidMessageID
  <2> QED
    BY <2>1, <2>2, <2>3, <2>4
<1> QED
  BY <1>1, <1>2, <1>3, <1>4

\* What the fields of a frame say that was decoded.
LEMMA ValidFrame ==
    ASSUME NEW d, Valid(d)
    PROVE  /\ d.msg.ether = "gn" /\ ~ d.msg.own /\ d.msg.fault = "none"
           /\ d.type \in {"cam", "cam_nogn"} => d.msg.msg = "cam"
           /\ d.type \in {"denm", "denm_nogn"} => d.msg.msg = "denm"
           /\ d.type = "cam" => d.msg.layers = "its"
           /\ d.type # "undefined"
<1>1. /\ d.msg.msg \in {"cam", "denm", "other"} /\ d.msg.layers \in {"its", "facility"}
      /\ d.msg.fault \in {"none", "gn", "btp", "uper"}
  BY DEF Valid, Proper, AllFrames
<1>2. d.msg.ether = "gn" /\ ~ d.msg.own
  BY DEF Valid, Passes
<1>3. d.msg.msg # "other"
  BY DEF Valid, LayersFail, Supported, ValidMessageID
<1>4. d.msg.layers = "its" => IsGeoNet(d.msg)
  BY DEF Valid, Proper, IsGeoNet, ValidMessageID
<1>5. d.msg.fault = "none"
  BY <1>1, <1>4 DEF Valid, Proper, LayersFail
<1>6. d.type = "cam" => IsGeoNet(d.msg)
  BY <1>1 DEF Valid, Type
<1>7. d.type = "cam" => d.msg.layers = "its"
  BY <1>1, <1>6 DEF Valid, LayersFail
<1>8. /\ d.type \in {"cam", "cam_nogn"} => d.msg.msg = "cam"
      /\ d.type \in {"denm", "denm_nogn"} => d.msg.msg = "denm"
      /\ d.type # "undefined"
  BY <1>1, <1>3 DEF Valid, Type
<1> QED
  BY <1>2, <1>5, <1>7, <1>8

\* What becomes of a message that was decoded is what its sender would have it.
LEMMA ValidJudged ==
    ASSUME NEW d, Valid(d)
    PROVE  /\ d.type \in {"cam", "cam_nogn"} => Judged(d.msg, "stored", d.msg)
           /\ d.type = "cam" /\ AgeCheck /\ Logging => Judged(d.msg, "discarded", d.msg)
           /\ d.type \in {"denm", "denm_nogn"} => Judged(d.msg, IF DENMs THEN "printed" ELSE "warned", d.msg)
           /\ d.type # "undefined"
BY ValidFrame DEF Judged, Fates

\* Headers that fail are those of a frame that cannot be read.
LEMMA DamageJudged ==
    ASSUME NEW f, Proper(f), LayersFail(f), NEW how, NEW of
    PROVE  Judged(f, how, of)
BY DEF Judged, Readable, LayersFail, IsGeoNet, ValidMessageID, Proper, AllFrames

-----------------------------------------------------------------------------
(* The inductive invariant                                                 *)

\* It implies what is to be shown.
LEMMA IInvSuffices == IInv => TypeOK /\ FramesJudged /\ StopDrains /\ StoredReleased
<1> SUFFICES ASSUME IInv PROVE TypeOK /\ FramesJudged /\ StopDrains /\ StoredReleased
  OBVIOUS
<1>1. decodedData.type \in {"undefined", "cam", "denm", "cam_nogn", "denm_nogn"}
  BY DEF IInv, DataKnown, Types
<1>2. msgbuf \in AllFrames \cup {None}
  BY DEF IInv, FramePassed, Proper
<1>3. \A i \in 1 .. Len(sock) : sock[i] \in Frames
  BY DEF IInv, SocketHolds
<1>4. TypeOK
  BY <1>1, <1>2, <1>3 DEF IInv, TypeOK, StopTypes, ThreadTypes, SockTypes, Objects
<1>5. FramesJudged /\ StopDrains /\ StoredReleased
  BY DEF IInv, LastJudged, Judged, FramesJudged, LeavesDrained, HeapKnown, Leftover, StopDrains, StoredReleased
<1> QED
  BY <1>4, <1>5

\* The inductive invariant holds at the start.
LEMMA InitIInv == Init => IInv
<1> SUFFICES ASSUME Init PROVE IInv
  OBVIOUS
<1>1. SockBuffer \in Nat /\ MaxStops \in Nat
  BY ReceptionAssumption
<1>2. StopTypes /\ ThreadTypes
  <2>1. m_unlock \in BOOLEAN /\ m_receptionInProgress \in BOOLEAN
    BY Zenon DEF Init
  <2>2. pipe \in 0 .. MaxStops /\ stops \in 0 .. MaxStops
    BY <1>1 DEF Init
  <2>3. m_logfile_file \in {"null", "open", "closed"}
    BY DEF Init
  <2>4. ThreadTypes
    BY DEF Init, ThreadTypes
  <2> QED
    BY <2>1, <2>2, <2>3, <2>4 DEF StopTypes
<1>3. SockTypes /\ SocketHolds /\ LeavesDrained
  BY <1>1 DEF Init, SockTypes, SocketHolds, LeavesDrained
<1>4. DataKnown /\ FramePassed /\ HeapKnown /\ Managed /\ LastJudged
  BY DEF Init, DataKnown, FramePassed, HeapKnown, Managed, LastJudged, NoData, Types, Nothing
<1> QED
  BY <1>2, <1>3, <1>4 DEF IInv

-----------------------------------------------------------------------------
(* The steps                                                               *)

\* A frame that arrives is owed to nobody yet.
LEMMA ArriveKeeps == ASSUME IInv, NEW f \in Frames, Arrive(f) PROVE IInv'
<1> USE DEF IInv, Arrive, rxVars, stopVars
<1>1. SockBuffer \in Nat
  BY ReceptionAssumption
<1>2. SockTypes' /\ SocketHolds'
  BY <1>1 DEF SockTypes, SocketHolds
<1>3. StopTypes' /\ ThreadTypes'
  BY DEF StopTypes, ThreadTypes
<1>4. LeavesDrained'
  BY DEF LeavesDrained
<1>5. DataKnown' /\ FramePassed' /\ HeapKnown' /\ Managed' /\ LastJudged'
  BY DEF DataKnown, FramePassed, HeapKnown, Managed, LastJudged
<1> QED
  BY <1>2, <1>3, <1>4, <1>5

\* The thread turns to the pipe on an empty socket alone: nothing is owed then.
LEMMA PollKeeps == ASSUME IInv, Poll PROVE IInv'
<1> USE DEF IInv, Poll, stopVars
<1>1. SockTypes' /\ SocketHolds'
  BY DEF SockTypes, SocketHolds
<1>2. StopTypes' /\ ThreadTypes'
  BY DEF StopTypes, ThreadTypes
<1>3. sock = <<>> => owed = 0 /\ pipe > 0
  BY DEF SockTypes, SocketHolds, StopTypes
<1>4. LeavesDrained'
  BY <1>3 DEF LeavesDrained
<1>5. DataKnown' /\ FramePassed' /\ HeapKnown' /\ Managed' /\ LastJudged'
  BY DEF DataKnown, FramePassed, HeapKnown, Managed, LastJudged
<1> QED
  BY <1>1, <1>2, <1>4, <1>5

\* A frame that is taken from the socket was the one owed longest.
LEMMA ReceiveKeeps == ASSUME IInv, Receive PROVE IInv'
<1> USE DEF IInv, Receive, stopVars
<1>1. Head(sock) \in Frames /\ Tail(sock) \in Seq(Frames) /\ Len(Tail(sock)) = Len(sock) - 1
  BY DEF SocketHolds
<1>2. Proper(Head(sock))
  BY <1>1, ReceptionAssumption DEF Proper
<1>3. SockTypes' /\ SocketHolds'
  BY <1>1, ReceptionAssumption DEF SockTypes, SocketHolds
<1>4. pc' \in {"decode", "poll"} /\ (pc' = "decode" => Passes(msgbuf'))
  OBVIOUS
<1>5. StopTypes' /\ ThreadTypes'
  BY <1>4 DEF StopTypes, ThreadTypes
<1>6. LeavesDrained'
  BY <1>4 DEF LeavesDrained
<1>7. Judged(Head(sock), "filtered", None) \/ Passes(Head(sock))
  BY DEF Judged, Fates, Passes
<1>8. LastJudged'
  BY <1>7 DEF LastJudged, Judge, Nothing
<1>9. DataKnown' /\ FramePassed' /\ HeapKnown' /\ Managed'
  BY <1>2, <1>4 DEF DataKnown, FramePassed, HeapKnown, Managed
<1> QED
  BY <1>3, <1>5, <1>6, <1>8, <1>9

\* The frame of a failed recvfrom is one that has passed before.
LEMMA ReceiveFailsKeeps == ASSUME IInv, ReceiveFails PROVE IInv'
<1> USE DEF IInv, ReceiveFails, stopVars
<1>1. Proper(msgbuf) /\ Proper(msgbuf') /\ (Passes(msgbuf) <=> Passes(msgbuf'))
  BY DEF FramePassed, Proper, AllFrames, Passes
<1>2. pc' \in {"decode", "poll"} /\ (pc' = "decode" => Passes(msgbuf'))
  BY <1>1
<1>3. SockTypes' /\ SocketHolds'
  BY DEF SockTypes, SocketHolds
<1>4. StopTypes' /\ ThreadTypes'
  BY <1>2 DEF StopTypes, ThreadTypes
<1>5. LeavesDrained'
  BY <1>2 DEF LeavesDrained
<1>6. DataKnown' /\ FramePassed' /\ HeapKnown' /\ Managed' /\ LastJudged'
  BY <1>1, <1>2 DEF DataKnown, FramePassed, HeapKnown, Managed, LastJudged, Judge
<1> QED
  BY <1>3, <1>4, <1>5, <1>6

\* What the decoder allocates is in its structure, or cannot be completed.
LEMMA DecodeKeeps == ASSUME IInv, Decode PROVE IInv'
<1> USE DEF IInv
<1>1. PICK d \in decodeEtsi(msgbuf) :
        /\ decodedData' = d.data
        /\ heap' = heap \cup d.objects
        /\ IF d.ret = ETSI_DECODER_OK THEN pc' = "manage" /\ UNCHANGED last
           ELSE pc' = "poll" /\ Judge(msgbuf, "refused")
  BY DEF Decode
<1>2. /\ d.data = [type |-> d.data.type, msg |-> d.data.msg] /\ d.data.type \in Types
      /\ d.objects \subseteq Objects
      /\ \A o \in d.objects :
            Leftover(o) \/ (d.ret = ETSI_DECODER_OK /\ Valid(d.data) /\ o = Whole(d.data.msg))
      /\ d.ret = ETSI_DECODER_OK => LayersFail(msgbuf) \/ (Valid(d.data) /\ d.data.msg = msgbuf)
      /\ d.ret # ETSI_DECODER_OK => Judged(msgbuf, "refused", None)
  BY DecodedKnown DEF Decode, FramePassed
<1>3. pc = "decode" /\ UNCHANGED <<sock, revents, msgbuf, stopVars, owed>>
  BY DEF Decode
<1>4. SockTypes' /\ SocketHolds'
  BY <1>3 DEF SockTypes, SocketHolds
<1>5. StopTypes' /\ ThreadTypes'
  BY <1>1, <1>2, <1>3 DEF StopTypes, ThreadTypes, stopVars
<1>6. LeavesDrained'
  BY <1>1, <1>3 DEF LeavesDrained, stopVars
<1>7. DataKnown' /\ FramePassed'
  BY <1>1, <1>2, <1>3 DEF DataKnown, FramePassed
<1>8. HeapKnown'
  <2>1. \A o \in heap : Leftover(o)
    BY <1>3 DEF HeapKnown
  <2>2. d.ret = ETSI_DECODER_OK => pc' = "manage"
    BY <1>1
  <2> QED
    BY <1>1, <1>2, <2>1, <2>2 DEF HeapKnown
<1>9. Managed' /\ LastJudged'
  BY <1>1, <1>2, <1>3 DEF Managed, LastJudged, Judge
<1> QED
  BY <1>4, <1>5, <1>6, <1>7, <1>8, <1>9

\* When manageMessage returns only leftovers are there.
LEMMA ManageKeeps == ASSUME IInv, Manage PROVE IInv'
<1> USE DEF IInv
<1>1. pc = "manage" /\ pc' = "poll" /\ UNCHANGED <<sock, revents, msgbuf, decodedData, stopVars, owed>>
  BY DEF Manage
<1>2. ASSUME heap' = Freed PROVE heap' \subseteq Objects /\ \A o \in heap' : Leftover(o)
  BY <1>2 DEF Freed, HeapKnown, ThreadTypes, Whole
<1>3. ASSUME NEW how \in {"discarded", "warned"}, heap' = Lost(how),
             Valid(decodedData) => Leftover([frame |-> decodedData.msg, part |-> how])
      PROVE  heap' \subseteq Objects /\ \A o \in heap' : Leftover(o)
  <2>1. ASSUME NEW o \in heap', o \notin heap
        PROVE  /\ o = [frame |-> decodedData.msg, part |-> how]
               /\ Whole(decodedData.msg) \in heap
    BY <1>3, <2>1 DEF Lost, Whole
  <2>2. ASSUME NEW o \in heap', o \in heap PROVE Leftover(o)
    <3>1. o # Whole(decodedData.msg)
      BY <1>3, <2>2 DEF Lost, Whole
    <3> QED
      BY <2>2, <3>1 DEF HeapKnown
  <2>3. Whole(decodedData.msg) \in heap => Valid(decodedData) /\ decodedData.msg \in AllFrames
    BY DEF HeapKnown, Leftover, Whole, ThreadTypes, Objects
  <2>4. ASSUME NEW o \in heap', o \notin heap PROVE Leftover(o) /\ o \in Objects
    BY <1>3, <2>1, <2>3, <2>4 DEF Objects
  <2> QED
    BY <2>2, <2>4 DEF ThreadTypes
<1>4. heap' \subseteq Objects /\ \A o \in heap' : Leftover(o)
  <2>1. CASE StoreCam
    BY <1>2, <2>1 DEF StoreCam
  <2>2. CASE DiscardCam
    <3>1. Valid(decodedData) => Leftover([frame |-> decodedData.msg, part |-> "discarded"])
      BY <2>2, ValidFrame DEF DiscardCam, Leftover
    <3> QED
      BY <1>3, <2>2, <3>1 DEF DiscardCam
  <2>3. CASE PrintDenm
    BY <1>2, <2>3 DEF PrintDenm
  <2>4. CASE Warn
    <3>1. Valid(decodedData) => decodedData.type \in {"denm", "denm_nogn"} /\ ~ DENMs
      BY <2>4, ValidFrame DEF Warn
    <3>2. Valid(decodedData) => Leftover([frame |-> decodedData.msg, part |-> "warned"])
      BY <3>1, ValidFrame DEF Leftover
    <3> QED
      BY <1>3, <2>4, <3>2 DEF Warn
  <2> QED
    BY <2>1, <2>2, <2>3, <2>4 DEF Manage
<1>5. SockTypes' /\ SocketHolds'
  BY <1>1 DEF SockTypes, SocketHolds
<1>6. StopTypes' /\ ThreadTypes'
  BY <1>1, <1>4 DEF StopTypes, ThreadTypes, stopVars
<1>7. LeavesDrained'
  BY <1>1 DEF LeavesDrained, stopVars
<1>8. DataKnown' /\ FramePassed' /\ HeapKnown' /\ Managed'
  BY <1>1, <1>4 DEF DataKnown, FramePassed, HeapKnown, Managed
<1>9. LastJudged'
  <2>1. CASE LayersFail(msgbuf)
    <3>1. Proper(msgbuf)
      BY <2>1, <1>1 DEF FramePassed
    <3>2. last'.frame = msgbuf
      BY DEF Manage, StoreCam, DiscardCam, PrintDenm, Warn, Handle
    <3> QED
      BY <2>1, <3>1, <3>2, DamageJudged DEF LastJudged
  <2>2. CASE Valid(decodedData) /\ decodedData.msg = msgbuf
    BY <2>2, ValidJudged DEF Manage, StoreCam, DiscardCam, PrintDenm, Warn, Handle, LastJudged
  <2> QED
    BY <1>1, <2>1, <2>2 DEF Managed
<1> QED
  BY <1>5, <1>6, <1>7, <1>8, <1>9

\* The other steps of the thread, and those of the caller of startReception.
LEMMA StartLeaveKeeps ==
    ASSUME IInv, Leave \/ RxStarts \/ StartReception \/ RxCrashes \/ StopCrashes
    PROVE  IInv'
<1> USE DEF IInv, stopVars
<1>0. SockBuffer \in Nat /\ MaxStops \in Nat
  BY ReceptionAssumption
<1>1. CASE Leave
  <2>1. SockTypes' /\ SocketHolds' /\ StopTypes' /\ ThreadTypes'
    BY <1>1 DEF Leave, SockTypes, SocketHolds, StopTypes, ThreadTypes
  <2>2. LeavesDrained'
    BY <1>1 DEF Leave, LeavesDrained
  <2>3. DataKnown' /\ FramePassed' /\ HeapKnown' /\ Managed' /\ LastJudged'
    BY <1>1 DEF Leave, DataKnown, FramePassed, HeapKnown, Managed, LastJudged
  <2> QED
    BY <2>1, <2>2, <2>3
<1>2. CASE RxStarts
  <2>1. SockTypes' /\ SocketHolds' /\ StopTypes' /\ ThreadTypes'
    BY <1>2 DEF RxStarts, SockTypes, SocketHolds, StopTypes, ThreadTypes
  <2>2. LeavesDrained'
    BY <1>2 DEF RxStarts, LeavesDrained
  <2>3. DataKnown' /\ FramePassed' /\ HeapKnown' /\ Managed' /\ LastJudged'
    BY <1>2 DEF RxStarts, DataKnown, FramePassed, HeapKnown, Managed, LastJudged, NoData, Types, Nothing
  <2> QED
    BY <2>1, <2>2, <2>3
<1>3. CASE StartReception
  <2>1. SockTypes' /\ SocketHolds'
    BY <1>0, <1>3 DEF StartReception, SockTypes, SocketHolds
  <2>2. StopTypes' /\ ThreadTypes'
    BY <1>0, <1>3 DEF StartReception, StopTypes, ThreadTypes
  <2>3. LeavesDrained'
    BY <1>3 DEF StartReception, LeavesDrained
  <2>4. DataKnown' /\ FramePassed' /\ HeapKnown' /\ Managed' /\ LastJudged'
    BY <1>3 DEF StartReception, DataKnown, FramePassed, HeapKnown, Managed, LastJudged
  <2> QED
    BY <2>1, <2>2, <2>3, <2>4
<1>4. CASE RxCrashes \/ StopCrashes
  <2>1. pc' = "crashed" /\ UNCHANGED <<sock, revents, msgbuf, decodedData, heap, last, stopVars, owed>>
    BY <1>4 DEF RxCrashes, StopCrashes
  <2>2. SockTypes' /\ SocketHolds' /\ StopTypes' /\ ThreadTypes'
    BY <2>1 DEF SockTypes, SocketHolds, StopTypes, ThreadTypes
  <2>3. LeavesDrained'
    BY <2>1 DEF LeavesDrained
  <2>4. DataKnown' /\ FramePassed' /\ HeapKnown' /\ Managed' /\ LastJudged'
    BY <2>1 DEF DataKnown, FramePassed, HeapKnown, Managed, LastJudged
  <2> QED
    BY <2>2, <2>3, <2>4
<1> QED
  BY <1>1, <1>2, <1>3, <1>4

\* The first stop of a reception finds what is owed to it in the socket; a later one,
\* or one that comes when the thread has turned to the pipe, changes nothing of it.
LEMMA StopKeeps == ASSUME IInv, StopReception PROVE IInv'
<1> USE DEF IInv
<1>0. MaxStops \in Nat
  BY ReceptionAssumption
<1>1. UNCHANGED <<sock, rxVars, m_unlock, m_receptionInProgress>>
  BY DEF StopReception
<1>2. SockTypes' /\ SocketHolds'
  BY <1>1 DEF StopReception, SockTypes, SocketHolds
<1>3. StopTypes'
  BY <1>0, <1>1 DEF StopReception, StopTypes, LeavesDrained
<1>4. ThreadTypes'
  BY <1>1 DEF ThreadTypes, rxVars
<1>5. LeavesDrained'
  BY <1>1 DEF StopReception, LeavesDrained, StopTypes, rxVars
<1>6. DataKnown' /\ FramePassed' /\ HeapKnown' /\ Managed' /\ LastJudged'
  BY <1>1 DEF DataKnown, FramePassed, HeapKnown, Managed, LastJudged, rxVars
<1> QED
  BY <1>2, <1>3, <1>4, <1>5, <1>6

\* IInv is inductive.
LEMMA NextIInv == IInv /\ [Next]_vars => IInv'
<1> SUFFICES ASSUME IInv, [Next]_vars PROVE IInv'
  OBVIOUS
<1>1. CASE UNCHANGED vars
  <2>1. SockTypes' /\ SocketHolds' /\ StopTypes' /\ ThreadTypes'
    BY <1>1 DEF IInv, vars, rxVars, stopVars, SockTypes, SocketHolds, StopTypes, ThreadTypes
  <2>2. LeavesDrained' /\ DataKnown' /\ FramePassed' /\ HeapKnown' /\ Managed' /\ LastJudged'
    BY <1>1 DEF IInv, vars, rxVars, stopVars, LeavesDrained, DataKnown, FramePassed, HeapKnown, Managed, LastJudged
  <2> QED
    BY <2>1, <2>2 DEF IInv
<1> QED
  BY <1>1, ArriveKeeps, PollKeeps, ReceiveKeeps, ReceiveFailsKeeps, DecodeKeeps, ManageKeeps,
     StartLeaveKeeps, StopKeeps DEF Next, RxStep

\* IInv is an invariant.
LEMMA Invariant == Spec => []IInv
BY InitIInv, NextIInv, PTL DEF Spec

\* The thread is where rxThr can be, and no queue, counter or buffer leaves its bounds.
THEOREM TypeCorrect == Spec => []TypeOK
BY Invariant, IInvSuffices, PTL

\* Every frame that can be read meets its fate, whatever came before it and was left in the
\* buffer and in the structure of the decoder, unreadable frames among it.
THEOREM FramesAreJudged == Spec => []FramesJudged
BY Invariant, IInvSuffices, PTL

\* stopReception loses no frame that was in the socket before it.
THEOREM StopsDrained == Spec => []StopDrains
BY Invariant, IInvSuffices, PTL

\* Of what was stored or printed nothing stays allocated, for all frames that can be sent.
THEOREM StoredIsReleased == Spec => []StoredReleased
BY Invariant, IInvSuffices, PTL
=============================================================================
