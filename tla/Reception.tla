------------------------------ MODULE Reception ------------------------------
(***************************************************************************)
(* SocketClient as a class (src/src/SocketClient.cpp): startReception and  *)
(* its thread rxThr, stopReception from another thread, and the way of a   *)
(* frame through the filters of rxThr, the decoder frontend                *)
(* (decoder-module/src/etsiDecoderFrontend.cpp) and manageMessage, with    *)
(* the objects the decoder allocates.  What manageMessage does with the    *)
(* database is in LDMThreads.                                              *)
(*                                                                         *)
(* A frame is what its sender made of it; only the properties read that.   *)
(* The code reads its length, its second byte and what the headers say.    *)
(***************************************************************************)
EXTENDS Integers, Sequences

CONSTANTS
    Frames,         \* frames that arrive, see AllFrames
    SockBuffer,     \* frames the raw socket holds
    MaxStops,       \* bound: calls of stopReception in a reception
    Logging,        \* there is a log file
    AgeCheck,
    DENMs           \* denm_decoding_enabled

AllFrames ==
    [ether : {"gn", "ip"},              \* EtherType
     own : BOOLEAN,                     \* sent by this station
     layers : {"its", "facility"},      \* with GeoNetworking and BTP, or without
     msg : {"cam", "denm", "other"},    \* by messageID and port
     short : BOOLEAN,                   \* of less than 44 bytes
     fault : {"none", "gn", "btp", "uper"}]  \* what cannot be decoded

\* A frame with GeoNetworking headers has more than 44 bytes, and one without has no headers
\* that could be damaged.
ASSUME ReceptionAssumption ==
    /\ Frames \subseteq AllFrames
    /\ \A f \in Frames : IF f.layers = "its" THEN ~ f.short ELSE f.fault \notin {"gn", "btp"}
    /\ SockBuffer \in Nat \ {0} /\ MaxStops \in Nat
    /\ {Logging, AgeCheck, DENMs} \subseteq BOOLEAN

VARIABLES
    sock,           \* frames in the raw socket
    pc,             \* of rxThr
    revents,        \* what poll returned: "sock", "pipe" or "none"
    msgbuf,         \* the frame in the buffer
    decodedData,    \* type and frame of the object decoded last
    heap,           \* allocated objects, by their frames: "whole", the "rest" of one, or
                    \* "discarded" or "warned" of, which no code will release
    last,           \* the frame that was handled last, what became of it and whose object it was
    m_unlock,       \* m_unlock_pd_rd and m_unlock_pd_wr are open
    pipe,           \* bytes in the pipe
    m_receptionInProgress,
    m_logfile_file, \* "null", "open" or "closed"
    stops,          \* calls of stopReception in this reception
    owed            \* frames in the socket at the first stop that are still there

rxVars == <<pc, revents, msgbuf, decodedData, heap, last>>
stopVars == <<m_unlock, pipe, m_receptionInProgress, m_logfile_file, stops>>
vars == <<sock, rxVars, stopVars, owed>>

None == [none |-> TRUE]
NoData == [type |-> "undefined", msg |-> None]
Whole(f) == [frame |-> f, part |-> "whole"]
Rest(f) == [frame |-> f, part |-> "rest"]

ETSI_DECODER_OK == 0
ETSI_DECODER_ERROR == 1
ETSI_DECODED_ERROR == 0     \* a type of message, and the value of ETSI_DECODER_OK

-----------------------------------------------------------------------------
(* The decoder frontend                                                    *)

\* The second byte: the messageID, or the reserved byte of the GN basic header.
ValidMessageID(f) == f.layers = "facility" /\ f.msg # "other"

IsGeoNetIfLong(f) == ~ f.short

IsGeoNet(f) == ~ (f.short \/ ValidMessageID(f))

\* GeoNet::decodeGN fails, or btp::decodeBTP, also by a port it does not know.
LayersFail(f) == IsGeoNet(f) /\ (f.layers = "facility" \/ f.fault \in {"gn", "btp"} \/ f.msg = "other")

\* A port that decodeBTP accepts, or a messageID that is known.
Supported(f) == IsGeoNet(f) \/ ValidMessageID(f)

Type(f) == IF IsGeoNet(f) THEN f.msg ELSE IF f.msg = "cam" THEN "cam_nogn" ELSE "denm_nogn"

Decoded(ret, data, objects) == [ret |-> ret, data |-> data, objects |-> objects]

\* decodeEtsi with MSGTYPE_AUTO.  decodedData is a local variable of manageMessage that
\* nobody initialises: it holds what the last call has left, or anything.  Where the
\* decoding fails the type is set already and the object is not.  Of an object that
\* asn_decode cannot complete free() gives back the first block alone.
decodeEtsi(f) ==
    IF LayersFail(f) THEN {Decoded(ETSI_DECODED_ERROR, d, {}) : d \in {decodedData, NoData}}
    ELSE IF ~ Supported(f) THEN
        {Decoded(ETSI_DECODER_ERROR, [decodedData EXCEPT !.type = "undefined"], {})}
    ELSE IF f.fault = "uper" THEN
        {Decoded(ETSI_DECODER_ERROR, [decodedData EXCEPT !.type = Type(f)], {Rest(f)})}
    ELSE {Decoded(ETSI_DECODER_OK, [type |-> Type(f), msg |-> f], {Whole(f)})}

-----------------------------------------------------------------------------
(* rxThr                                                                   *)

Arrive(f) ==
    /\ pc # "crashed" /\ Len(sock) < SockBuffer
    /\ sock' = Append(sock, f)
    /\ UNCHANGED <<rxVars, stopVars, owed>>

PollPipeFirst ==
    /\ pc = "poll"
    /\ sock # <<>> \/ pipe > 0
    /\ revents' = IF pipe > 0 THEN "pipe" ELSE "sock"
    /\ pc' = "woken"
    /\ UNCHANGED <<sock, msgbuf, decodedData, heap, last, stopVars, owed>>

\* poll waits for the socket or the pipe; the socket is looked at first.
Poll ==
    /\ pc = "poll"
    /\ sock # <<>> \/ pipe > 0
    /\ revents' = IF sock # <<>> THEN "sock" ELSE "pipe"
    /\ pc' = "woken"
    /\ UNCHANGED <<sock, msgbuf, decodedData, heap, last, stopVars, owed>>

Passes(f) == f.ether = "gn" /\ ~ f.own

\* No frame has been handled since the last one was taken.
Nothing == [frame |-> None, how |-> "none", of |-> None]

Judge(f, how) == last' = [frame |-> f, how |-> how, of |-> None]

\* recvfrom and the filters: another EtherType, and a frame of this station.
Receive ==
    /\ pc = "woken" /\ revents = "sock" /\ sock # <<>>
    /\ LET f == Head(sock)
       IN  /\ sock' = Tail(sock)
           /\ owed' = IF owed > 0 THEN owed - 1 ELSE 0
           /\ msgbuf' = f
           /\ IF Passes(f) THEN pc' = "decode" /\ last' = Nothing
              ELSE pc' = "poll" /\ Judge(f, "filtered")
    /\ UNCHANGED <<revents, decodedData, heap, stopVars>>

\* recvfrom reports an error of the socket: msglen is unsigned, so that what is left in
\* msgbuf is taken for a frame of a huge length.
ReceiveFails ==
    /\ pc = "poll" /\ msgbuf # None
    /\ pc' = IF Passes(msgbuf) THEN "decode" ELSE "poll"
    /\ msgbuf' = [msgbuf EXCEPT !.short = FALSE]
    /\ Judge(msgbuf', "error")
    /\ UNCHANGED <<sock, revents, decodedData, heap, stopVars, owed>>

Decode ==
    /\ pc = "decode"
    /\ \E d \in decodeEtsi(msgbuf) :
          /\ decodedData' = d.data
          /\ heap' = heap \cup d.objects
          /\ IF d.ret = ETSI_DECODER_OK THEN pc' = "manage" /\ UNCHANGED last
             ELSE pc' = "poll" /\ Judge(msgbuf, "refused")
    /\ UNCHANGED <<sock, revents, msgbuf, stopVars, owed>>

\* What manageMessage makes of the object in decodedData, for the frame in msgbuf.
Handle(how) == last' = [frame |-> msgbuf, how |-> how, of |-> decodedData.msg]

Freed == {o \in heap : o.part = "rest" \/ o.frame # decodedData.msg}

\* The only pointer to the object goes out of scope.
Lost(how) == {IF o = Whole(decodedData.msg) THEN [o EXCEPT !.part = how] ELSE o : o \in heap}

StoreCamUnfreed ==
    /\ decodedData.type \in {"cam", "cam_nogn"}
    /\ Handle("stored")
    /\ heap' = IF decodedData.type = "cam_nogn" THEN Freed ELSE heap

\* A CAM goes to the database and is released.
StoreCam ==
    /\ decodedData.type \in {"cam", "cam_nogn"}
    /\ Handle("stored")
    /\ heap' = Freed

\* With a log, a CAM that is too old for the database is neither stored nor released.
DiscardCam ==
    /\ decodedData.type = "cam"
    /\ AgeCheck /\ Logging
    /\ Handle("discarded")
    /\ heap' = Lost("discarded")

PrintDenm ==
    /\ decodedData.type \in {"denm", "denm_nogn"} /\ DENMs
    /\ Handle("printed")
    /\ heap' = Freed

\* Any other type is met with a warning, a DENM too if they are not enabled.
Warn ==
    /\ decodedData.type \in {"undefined"} \cup (IF DENMs THEN {} ELSE {"denm", "denm_nogn"})
    /\ Handle("warned")
    /\ heap' = Lost("warned")

Manage ==
    /\ pc = "manage"
    /\ StoreCam \/ DiscardCam \/ PrintDenm \/ Warn
    /\ pc' = "poll"
    /\ UNCHANGED <<sock, revents, msgbuf, decodedData, stopVars, owed>>

Leave ==
    /\ pc = "woken" /\ revents = "pipe"
    /\ pc' = "left"
    /\ m_unlock' = FALSE
    /\ m_receptionInProgress' = FALSE
    /\ UNCHANGED <<sock, revents, msgbuf, decodedData, heap, last, pipe, m_logfile_file, stops, owed>>

\* The data that nobody has set point to an object that was released, or to none.
Dangling ==
    /\ decodedData.type \in {"cam", "cam_nogn"} \cup (IF DENMs THEN {"denm", "denm_nogn"} ELSE {})
    /\ Freed = heap

\* To write to a log that has been closed is undefined, and so is to read or to release
\* an object that is gone: it may end the process.
RxCrashes ==
    /\ pc = "manage"
    /\ (Logging /\ m_logfile_file = "closed") \/ Dangling
    /\ pc' = "crashed"
    /\ UNCHANGED <<sock, revents, msgbuf, decodedData, heap, last, stopVars, owed>>

-----------------------------------------------------------------------------
(* startReception and stopReception                                        *)

StartReceptionOldPipe ==
    /\ pc \in {"idle", "left"}
    /\ ~ m_receptionInProgress
    /\ m_logfile_file' = IF Logging THEN "open" ELSE m_logfile_file
    /\ m_unlock' \in BOOLEAN /\ pipe' = pipe
    /\ pc' = "started"
    /\ stops' = 0 /\ owed' = 0
    /\ UNCHANGED <<sock, revents, msgbuf, decodedData, heap, last, m_receptionInProgress>>

\* The log, the pipe and the thread; the caller waits until the thread has left, and may
\* call again.  Without a pipe, if pipe fails, the thread is started all the same.
StartReception ==
    /\ pc \in {"idle", "left"}
    /\ ~ m_receptionInProgress
    /\ m_logfile_file' = IF Logging THEN "open" ELSE m_logfile_file
    /\ m_unlock' \in BOOLEAN /\ pipe' = 0
    /\ pc' = "started"
    /\ stops' = 0 /\ owed' = 0
    /\ UNCHANGED <<sock, revents, msgbuf, decodedData, heap, last, m_receptionInProgress>>

RxStarts ==
    /\ pc = "started"
    /\ pc' = "poll"
    /\ m_receptionInProgress' = TRUE
    /\ msgbuf' = None /\ decodedData' = NoData /\ last' = Nothing
    /\ UNCHANGED <<sock, revents, heap, m_unlock, pipe, m_logfile_file, stops, owed>>

StopReceptionInProgress ==
    /\ stops < MaxStops /\ pc # "crashed"
    /\ Logging => m_logfile_file = "open"
    /\ pipe' = IF m_receptionInProgress THEN pipe + 1 ELSE pipe
    /\ owed' = IF m_receptionInProgress /\ pipe = 0 THEN Len(sock) ELSE owed
    /\ m_logfile_file' = IF Logging THEN "closed" ELSE m_logfile_file
    /\ stops' = stops + 1
    /\ UNCHANGED <<sock, rxVars, m_unlock, m_receptionInProgress>>

\* The byte goes to the pipe if there is one.  The log is closed at once, whatever the
\* thread is doing.
StopReception ==
    /\ stops < MaxStops /\ pc # "crashed"
    /\ Logging => m_logfile_file = "open"
    /\ pipe' = IF m_unlock THEN pipe + 1 ELSE pipe
    /\ owed' = IF m_unlock /\ pipe = 0 THEN Len(sock) ELSE owed
    /\ m_logfile_file' = IF Logging THEN "closed" ELSE m_logfile_file
    /\ stops' = stops + 1
    /\ UNCHANGED <<sock, rxVars, m_unlock, m_receptionInProgress>>

\* fclose of a log that was not opened or is closed already is undefined.
StopCrashes ==
    /\ pc # "crashed"
    /\ Logging /\ m_logfile_file # "open"
    /\ pc' = "crashed"
    /\ UNCHANGED <<sock, revents, msgbuf, decodedData, heap, last, stopVars, owed>>

-----------------------------------------------------------------------------
Init ==
    /\ sock = <<>>
    /\ pc = "idle" /\ revents = "none"
    /\ msgbuf = None /\ decodedData = NoData
    /\ heap = {}
    /\ last = Nothing
    /\ m_unlock = FALSE /\ pipe = 0
    /\ m_receptionInProgress = FALSE
    /\ m_logfile_file = "null"
    /\ stops = 0 /\ owed = 0

RxStep == Poll \/ Receive \/ Decode \/ Manage \/ Leave \/ RxStarts

Next ==
    \/ \E f \in Frames : Arrive(f)
    \/ RxStep \/ ReceiveFails \/ RxCrashes
    \/ StartReception \/ StopReception \/ StopCrashes

Spec == Init /\ [][Next]_vars

\* The thread runs whenever it can.
FairSpec == Spec /\ WF_vars(RxStep)

-----------------------------------------------------------------------------
(* Properties                                                              *)

TypeOK ==
    /\ Len(sock) <= SockBuffer /\ \A i \in 1 .. Len(sock) : sock[i] \in Frames
    /\ pc \in {"idle", "started", "poll", "woken", "decode", "manage", "left", "crashed"}
    /\ revents \in {"none", "sock", "pipe"}
    /\ msgbuf \in AllFrames \cup {None}
    /\ decodedData.type \in {"undefined", "cam", "denm", "cam_nogn", "denm_nogn"}
    /\ heap \subseteq [frame : AllFrames, part : {"whole", "rest", "discarded", "warned"}]
    /\ m_unlock \in BOOLEAN /\ m_receptionInProgress \in BOOLEAN
    /\ pipe \in 0 .. MaxStops /\ stops \in 0 .. MaxStops
    /\ m_logfile_file \in {"null", "open", "closed"}
    /\ owed \in 0 .. SockBuffer

\* Packets whose headers are what they say, for a port that is known, and messages without
\* headers, but for unknown ones so long that they are taken for packets.
Readable(f) ==
    /\ f.fault \notin {"gn", "btp"}
    /\ f.msg = "other" => f.layers = "facility" /\ f.short

\* What should become of such a frame, by what its sender made of it.
Fates(f) ==
    IF f.ether # "gn" \/ f.own THEN {"filtered"}
    ELSE IF f.fault # "none" \/ f.msg = "other" THEN {"refused"}
    ELSE IF f.msg = "denm" THEN {IF DENMs THEN "printed" ELSE "warned"}
    ELSE {"stored"} \cup (IF f.layers = "its" /\ AgeCheck /\ Logging THEN {"discarded"} ELSE {})

\* Every frame that can be read meets the fate of its kind, and what is stored, discarded
\* or printed then is its own message, through the detection of its layers, the two
\* decoders and a buffer and a structure that are used again and again, also by frames
\* that cannot be read.  What becomes of those see OnlyDecodedManaged.
FramesJudged ==
    LET f == last.frame
    IN  last.how \notin {"none", "error"} /\ Readable(f) =>
            last.how \in Fates(f) /\ last.of \in {f, None}

\* Of a CAM that was stored, and of a DENM that was printed, nothing is left: when the
\* thread waits, all that is allocated are CAMs that were discarded for their age while a
\* log was kept, DENMs while they were not enabled, and the rests of broken messages.
StoredReleased ==
    pc = "poll" =>
        \A o \in heap :
            \/ o.part = "rest" /\ o.frame.fault = "uper"
            \/ o.part = "discarded" /\ AgeCheck /\ Logging /\ o.frame.msg = "cam" /\ o.frame.layers = "its"
            \/ o.part = "warned" /\ ~ DENMs /\ o.frame.msg = "denm"

\* The frames that were in the socket when stopReception was called are handled before
\* the thread leaves.
StopDrains == pc = "left" /\ stops > 0 => owed = 0

\* stopReception ends the reception once frames and errors cease, also when it comes
\* before the thread has started, and also in the second reception.
StopHeard ==
    <>[](sock = <<>>) /\ <>[][~ ReceiveFails]_vars =>
        (m_unlock /\ stops > 0 ~> ~ m_unlock \/ pc = "crashed")

\* ... whatever became of its pipe,
StopAlwaysHeard ==
    <>[](sock = <<>>) /\ <>[][~ ReceiveFails]_vars =>
        (m_receptionInProgress /\ stops > 0 ~> ~ m_receptionInProgress \/ pc = "crashed")

\* ... and though frames go on to arrive.
StopEnds == m_unlock /\ stops > 0 ~> ~ m_unlock \/ pc = "crashed"

\* SocketClient.cpp: when no message can be received there is an error and no message.
ErrorIsNoFrame == last.how = "error" => pc # "decode"

\* SocketClient.cpp: a packet that cannot be decoded ends manageMessage.
OnlyDecodedManaged == pc = "manage" => decodedData.msg = msgbuf

\* Decoded objects are released, whatever becomes of them.
NothingLeft == pc = "poll" => heap = {}

\* The log is open while the thread that writes it works.
LogOpen == Logging /\ pc = "manage" => m_logfile_file = "open"
=============================================================================
