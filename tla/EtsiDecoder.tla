----------------------------- MODULE EtsiDecoder -----------------------------
(***************************************************************************)
(* The decoder module of AIM (src/decoder-module): decodeEtsi finds out    *)
(* whether a datagram is a GeoNetworking packet or a bare message, removes *)
(* the headers and has the message decoded by its ASN.1 descriptor.        *)
(*                                                                         *)
(* A behaviour: a station encodes a message, the datagram may lose its end *)
(* or have one bit inverted, and decodeEtsi is called for it the way       *)
(* SocketClient does.  Values of any other type of the descriptors are     *)
(* given to asn_decode directly.                                           *)
(*                                                                         *)
(* The codec under the frontend is a parameter: EtsiCodec gives the one of *)
(* asn1/src, on sample messages.                                           *)
(***************************************************************************)
EXTENDS GeoNetworking

CONSTANTS
    MessageKinds,       \* the kinds of messages that are sent
    ValueTypes,         \* the names of the types asn_decode is called with
    ValueKinds,         \* the kinds of those values
    FaultKinds,         \* the kinds of messages faults are tried on
    AdditionSizes,      \* how long additions of a newer protocol version are, in octets
    Extensible,         \* the types in ValueTypes an addition can be made to
    BufferOctets,       \* msgbuf of rxThread, MSGBUF_MAXSIZ in the code
    StaleOctets,        \* what earlier datagrams can have left in it
    Mixed               \* an object decoded as a CAM first and as a CAMEnhanced then

CONSTANTS
    Message(_, _),      \* the message of a type and a kind
    Encoding(_, _, _),  \* its octets, with an addition of that many octets
    Decoded(_, _, _),   \* what the decoder of a type makes of octets, given an object or none
    Satisfying(_, _, _) \* whether a value of a type is within its constraints, sizes or not

Messages ==
    [type : {"CAM", "CAMEnhanced", "DENM"}, kind : MessageKinds, newer : {0} \cup AdditionSizes]

Values ==
    {e \in [type : ValueTypes, kind : ValueKinds, newer : {0} \cup AdditionSizes] :
        e.newer # 0 => e.type \in Extensible}

(* The kinds of messages of etsiDecodedData_t; the last one for asn_decode.*)
DataTypes == {"CAM", "DENM", "CAM_NOGN", "DENM_NOGN", "ERROR", "value"}

(* msgbuf has room for all headers, and no header says more octets than it has. *)
ASSUME BufferAssumption == BufferOctets \in 64 .. 65535 /\ StaleOctets \subseteq 0 .. 255

ASSUME UnwrittenAssumption == Unwritten \notin DataTypes /\ Unwritten \notin {0, 1}

EncodingOf(e) == Encoding(e.type, e.kind, e.newer)

ASSUME EncodingAssumption == \A e \in Messages \cup Values : EncodingOf(e) \in Seq(0 .. 255)

VARIABLES
    m_enhanced_CAMs,    \* whether the program decodes the enhanced CAMs
    sent,               \* what the station sent, <<>> before
    frame,              \* the octets of the datagram
    fault,              \* what happened to it: [kind, at]
    rc,                 \* the result of the call, Unwritten before
    data                \* decoded_data

vars == <<m_enhanced_CAMs, sent, frame, fault, rc, data>>

-----------------------------------------------------------------------------
(* The station *)

Address == <<20, 0, 172, 22, 45, 137, 1, 3>>
Stamp   == <<1, 128, 39, 16>>
Vector  == Address \o Stamp \o <<27, 82, 84, 77, 4, 201, 19, 140, 133, 220, 14, 16>>
Area    == <<26, 131, 38, 90, 5, 11, 77, 2, 0, 100, 0, 50, 0, 90>>

Datagram(s) ==
    IF s.framing.layer \in {"SHB", "GBC"}
    THEN Packet(s.framing.layer, s.framing.btp, IF s.type = "DENM" THEN DEN_PORT ELSE CA_PORT,
                Vector, Area, EncodingOf(s))
    ELSE EncodingOf(s)

HeaderOctets(s) == CASE s.framing.layer = "SHB" -> 44
                     [] s.framing.layer = "GBC" -> 60
                     [] OTHER -> 0

NoFault == [kind |-> "none", at |-> 0]

Send(s) ==
    /\ sent' = <<s>>
    /\ frame' = Datagram(s)
    /\ Len(frame') <= BufferOctets
    /\ fault' = NoFault
    /\ UNCHANGED <<m_enhanced_CAMs, rc, data>>

Framings == {[layer |-> "SHB", btp |-> BTP_A], [layer |-> "GBC", btp |-> BTP_B],
             [layer |-> "facilities", btp |-> 0]}

CAMType == IF m_enhanced_CAMs THEN "CAMEnhanced" ELSE "CAM"

Framed(e, f) == [type |-> e.type, kind |-> e.kind, newer |-> e.newer, framing |-> f]

SendMessage ==
    /\ sent = <<>>
    /\ \E e \in Messages, f \in Framings : e.type \in {CAMType, "DENM"} /\ Send(Framed(e, f))

SendValue ==
    /\ sent = <<>> /\ ~m_enhanced_CAMs
    /\ \E e \in Values : Send(Framed(e, [layer |-> "none", btp |-> 0]))

(* Enhanced CAMs meet faults as values of their type.                      *)
Faulty ==
    /\ sent # <<>> /\ rc = Unwritten /\ fault = NoFault
    /\ sent[1].kind \in FaultKinds /\ sent[1].newer = 0
    /\ ~m_enhanced_CAMs

(* The end of the datagram is lost. *)
Cut ==
    /\ Faulty
    /\ \E n \in 1 .. Len(frame) - 1 :
        /\ frame' = SubSeq(frame, 1, n)
        /\ fault' = [kind |-> "cut", at |-> n]
    /\ UNCHANGED <<m_enhanced_CAMs, sent, rc, data>>

(* The values of the bits of an octet. *)
BitValues == {1, 2, 4, 8, 16, 32, 64, 128}

Inverted(octet, bit) == IF (octet \div bit) % 2 = 1 THEN octet - bit ELSE octet + bit

Flip ==
    /\ Faulty
    /\ \E i \in 1 .. Len(frame), bit \in BitValues :
        /\ frame' = [frame EXCEPT ![i] = Inverted(@, bit)]
        /\ fault' = [kind |-> "flip", at |-> i]
    /\ UNCHANGED <<m_enhanced_CAMs, sent, rc, data>>

-----------------------------------------------------------------------------
(* decodeEtsi *)

ETSI_DECODER_OK == 0
ETSI_DECODER_ERROR == 1

is_enum_valid_etsi_message_t(octet) == octet \in {1, 2}

(* MSGTYPE_AUTO: a packet has 44 octets at least, and no messageID in its  *)
(* second one.                                                             *)
isGeoNet(b) == Len(b) >= 44 /\ ~is_enum_valid_etsi_message_t(b[2])

(* msgbuf from the datagram on: octets of earlier datagrams follow it.     *)
Memory(b, stale) == b \o [i \in 1 .. BufferOctets - Len(b) |-> stale]

ResultAlways(r, d) ==
    [rc |-> IF r.code = "OK" THEN ETSI_DECODER_OK ELSE ETSI_DECODER_ERROR,
     data |-> [d EXCEPT !.decoded_msg = <<r.val>>]]

Result(r, d) ==
    IF r.code = "OK"
    THEN [rc |-> ETSI_DECODER_OK, data |-> [d EXCEPT !.decoded_msg = <<r.val>>]]
    ELSE [rc |-> ETSI_DECODER_ERROR, data |-> d]

(* The octets asn_decode gets: no memory is modelled behind msgbuf.        *)
Payload(m, BTP) ==
    LET end == BTP.data + BTP.lenght
    IN  SubSeq(m, BTP.data + 1, IF end < BufferOctets THEN end ELSE BufferOctets)

(* What BTP left of a packet.  GnAddressDest has no value in an SHB.       *)
decodePayload(gn, BTP, m) ==
    LET CA == BTP.destPort = CA_PORT
        d  == [data EXCEPT !.gnTimestamp = gn.SourcePV.TST,
                           !.GNaddress = gn.SourcePV.GnAddress,
                           !.type = IF CA THEN "CAM" ELSE "DENM"]
    IN  Result(Decoded(IF CA THEN CAMType ELSE "DENM", <<>>,
                       Payload(m, BTP)),
               IF CA THEN d ELSE [d EXCEPT !.area = gn.GnAddressDest])

(* A packet GeoNet or BTP cannot decode gives ETSI_DECODED_ERROR, which is *)
(* 0, and decoded_data as it was.                                          *)
afterBTP(gn, BTP, m) ==
    IF BTP.code # "BTP_OK" THEN [rc |-> ETSI_DECODER_OK, data |-> data]
    ELSE decodePayload(gn, BTP, m)

afterGN(gn, m) ==
    afterBTP(gn, IF gn.code = "GN_OK" THEN decodeBTP(m, gn, BufferOctets) ELSE BTPError, m)

decodePacket(m) == afterGN(decodeGN(m), m)

(* A bare CAM is decoded a second time into the object of the first time,  *)
(* which is of a plain CAM: when the second one is for enhanced CAMs, what *)
(* the object then holds is not told apart (Mixed).                        *)
DecodedAgain(first, b) == IF first.code = "OK" THEN Decoded("CAM", <<first.val>>, b) ELSE first

decodeFacilities(messageID, b) ==
    LET d(t) == [data EXCEPT !.type = t]
    IN  CASE messageID = 2 /\ ~m_enhanced_CAMs ->
                 Result(DecodedAgain(Decoded("CAM", <<>>, b), b), d("CAM_NOGN"))
          [] messageID = 2 /\ m_enhanced_CAMs ->
                 Result([code |-> Decoded("CAMEnhanced", <<>>, b).code, val |-> Mixed], d("CAM_NOGN"))
          [] messageID = 1 -> Result(Decoded("DENM", <<>>, b), d("DENM_NOGN"))
          [] OTHER -> [rc |-> ETSI_DECODER_ERROR, data |-> d("ERROR")]

Return(r) ==
    /\ rc' = r.rc /\ data' = r.data
    /\ UNCHANGED <<m_enhanced_CAMs, sent, frame, fault>>

(* The messageID is read from the buffer, whatever the length of b is.     *)
decodeEtsi ==
    /\ sent # <<>> /\ rc = Unwritten /\ sent[1].framing.layer # "none"
    /\ \E m \in {Memory(frame, stale) : stale \in StaleOctets} :
        Return(IF isGeoNet(frame) THEN decodePacket(m) ELSE decodeFacilities(m[2], frame))

(* A value of another type goes to the codec itself. *)
asn_decode ==
    /\ sent # <<>> /\ rc = Unwritten /\ sent[1].framing.layer = "none"
    /\ Return(Result(Decoded(sent[1].type, <<>>, frame), [data EXCEPT !.type = "value"]))

NoData == [type |-> Unwritten, gnTimestamp |-> Unwritten, GNaddress |-> Unwritten,
           area |-> Unwritten, decoded_msg |-> <<>>]

(* The next call has a decodedData of its own. *)
Release ==
    /\ rc # Unwritten
    /\ sent' = <<>> /\ frame' = <<>> /\ fault' = NoFault
    /\ rc' = Unwritten /\ data' = NoData
    /\ UNCHANGED m_enhanced_CAMs

Init ==
    /\ m_enhanced_CAMs \in BOOLEAN
    /\ sent = <<>> /\ frame = <<>> /\ fault = NoFault
    /\ rc = Unwritten /\ data = NoData

Next == SendMessage \/ SendValue \/ Cut \/ Flip \/ decodeEtsi \/ asn_decode \/ Release

Spec == Init /\ [][Next]_vars

-----------------------------------------------------------------------------
(* Properties *)

(* Every call reports success or failure, a delivered message comes with   *)
(* the kind of message it is cast to, and a failed call delivers nothing   *)
(* (decodeEtsi).                                                           *)
TypeOK ==
    /\ m_enhanced_CAMs \in BOOLEAN
    /\ frame \in Seq(0 .. 255) /\ Len(frame) <= BufferOctets
    /\ rc \in {Unwritten, ETSI_DECODER_OK, ETSI_DECODER_ERROR}
    /\ data.type \in {Unwritten} \cup DataTypes
    /\ data.decoded_msg # <<>> =>
           rc = ETSI_DECODER_OK /\ data.type \notin {Unwritten, "ERROR"}

Delivered == rc = ETSI_DECODER_OK /\ data.decoded_msg # <<>>

SentMessage == Message(sent[1].type, sent[1].kind)

SentKind ==
    CASE sent[1].framing.layer = "none" -> "value"
      [] sent[1].framing.layer = "facilities" ->
             IF sent[1].type = "DENM" THEN "DENM_NOGN" ELSE "CAM_NOGN"
      [] OTHER -> IF sent[1].type = "DENM" THEN "DENM" ELSE "CAM"

(* What SocketClient reads of decoded_data is what the station sent.       *)
AsSent ==
    /\ Delivered
    /\ data.type = SentKind /\ data.decoded_msg = <<SentMessage>>
    /\ sent[1].framing.layer \in {"SHB", "GBC"} =>
           data.gnTimestamp = Stamp /\ data.GNaddress = Address
    /\ sent[1].framing.layer = "GBC" /\ sent[1].type = "DENM" =>
           data.area = gbcHeader_GetGeoArea(frame, 12)

(* The parts of a CAM that contain lists. *)
HasLists(CAM) ==
    \/ DOMAIN CAM.cam.camParameters # {"basicContainer", "highFrequencyContainer"}
    \/ "rsuContainerHighFrequency" \in DOMAIN CAM.cam.camParameters.highFrequencyContainer

(* A bare CAM with a list, or one for a program that takes enhanced CAMs.  *)
DecodedTwice ==
    /\ sent[1].framing.layer = "facilities" /\ sent[1].type # "DENM"
    /\ m_enhanced_CAMs \/ HasLists(SentMessage)

(* A datagram that arrives whole is delivered as it was sent, whatever the *)
(* choices, optional parts, extensions and sizes of the message, from a    *)
(* station of this or of a newer protocol version, as a packet of either   *)
(* kind or bare (decodeEtsi and the whole codec under it).                 *)
DeliveredAsSent ==
    rc # Unwritten /\ fault = NoFault => AsSent \/ DecodedTwice

(* The same for every message: no list is taken twice.                     *)
ListsOnce == rc # Unwritten /\ fault = NoFault /\ ~m_enhanced_CAMs => AsSent

(* Additions of a newer version of the protocol are skipped: the message   *)
(* is delivered ("Skip over overflow extensions which aren't present in    *)
(* this system's version of the protocol", constr_SEQUENCE.c).             *)
UnknownSkipped ==
    rc # Unwritten /\ fault = NoFault /\ sent[1].newer # 0 => rc = ETSI_DECODER_OK

(* A bare message or value that lost its end is refused: nothing that the  *)
(* decoder did not receive is made up (asn_decode, RC_WMORE).              *)
TruncationRefused ==
    rc # Unwritten /\ fault.kind = "cut" /\ sent[1].framing.layer \in {"none", "facilities"}
        => rc = ETSI_DECODER_ERROR

(* A packet that lost its end is not delivered either.                     *)
CutPacketRefused ==
    rc # Unwritten /\ fault.kind = "cut" => ~Delivered

DeliveredType ==
    CASE data.type = "value" -> sent[1].type
      [] data.type \in {"CAM", "CAM_NOGN"} -> CAMType
      [] OTHER -> "DENM"

(* Whatever bit of the datagram is wrong, what is delivered satisfies the  *)
(* constraints of its type: no value outside its range, no item of an      *)
(* enumeration that does not exist, no mandatory part missing.             *)
InRange ==
    Delivered /\ data.decoded_msg # <<Mixed>>
        => Satisfying(DeliveredType, data.decoded_msg[1], FALSE)

(* The sizes of lists and strings are within their constraints too.        *)
SizesInRange ==
    Delivered /\ data.decoded_msg # <<Mixed>>
        => Satisfying(DeliveredType, data.decoded_msg[1], TRUE)

(* What a packet yields depends on the packet alone: no octet of an        *)
(* earlier datagram, left in msgbuf behind it, has a part in the outcome,  *)
(* whatever bit of the packet is wrong (its payload length included).      *)
NothingStale ==
    rc # Unwritten /\ fault.kind # "cut" /\ sent[1].framing.layer # "none" /\ isGeoNet(frame)
        => LET outcomes == {decodePacket(Memory(frame, stale)) : stale \in StaleOctets}
           IN  \A one, other \in outcomes : one = other

(* A wrong bit in the headers of a packet, the reserved octets included,   *)
(* loses the packet at most.                                               *)
HeaderFlipHarmless ==
    Delivered /\ fault.kind = "flip" /\ fault.at \in 1 .. HeaderOctets(sent[1])
        => data.decoded_msg = <<SentMessage>>
=============================================================================
