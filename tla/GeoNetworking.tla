---------------------------- MODULE GeoNetworking ----------------------------
(***************************************************************************)
(* The layers under the messages: the GeoNetworking and BTP headers of     *)
(* src/decoder-module/src, read from the octets of the reception buffer.   *)
(*                                                                         *)
(* m is the memory from the packet on, as octets numbered from 1; a        *)
(* header is read at the offset "at" of its first octet.  Nothing in this  *)
(* code compares a read with the length of the packet: m goes on behind    *)
(* it.  A 32 bit field is the sequence of its octets in network order,     *)
(* which swap_32bit turns into the number they stand for.                  *)
(***************************************************************************)
EXTENDS Integers, Sequences

CONSTANT Unwritten      \* the value of a field no statement has assigned

Octet(m, at)  == m[at + 1]
Word16(m, at) == m[at + 1] * 256 + m[at + 2]
Field(m, at, n) == SubSeq(m, at + 1, at + n)

High4(octet) == octet \div 16
Low4(octet)  == octet % 16

-----------------------------------------------------------------------------
(* The headers *)

basicHeader_removeHeader(m, at) ==
    [version           |-> High4(Octet(m, at)),
     nextHeader        |-> Low4(Octet(m, at)),
     lifeTime          |-> Octet(m, at + 2),
     remainingHopLimit |-> Octet(m, at + 3)]

commonHeader_removeHeader(m, at) ==
    [nextHeader    |-> High4(Octet(m, at)),
     headerType    |-> High4(Octet(m, at + 1)),
     headerSubType |-> Low4(Octet(m, at + 1)),
     trafficClass  |-> Octet(m, at + 2),
     payload       |-> Word16(m, at + 4),
     maxHopLimit   |-> Octet(m, at + 6)]

(* Of the 15 bits of the speed the code keeps 7.                           *)
LongPositionVector(m, at) ==
    [GnAddress        |-> Field(m, at, 8),
     TST              |-> Field(m, at + 8, 4),
     latitude         |-> Field(m, at + 12, 4),
     longitude        |-> Field(m, at + 16, 4),
     positionAccuracy |-> Word16(m, at + 20) \div 2 ^ 15,
     speed            |-> Word16(m, at + 20) % 2 ^ 7,
     heading          |-> Word16(m, at + 22)]

gbcHeader_GetGeoArea(m, at) ==
    [posLat |-> Field(m, at + 28, 4), posLong |-> Field(m, at + 32, 4),
     distA |-> Word16(m, at + 36), distB |-> Word16(m, at + 38),
     angle |-> Word16(m, at + 40)]

btpHeader_removeHeader(m, at) ==
    [destinationPort |-> Word16(m, at), source_destInfo |-> Word16(m, at + 2)]

-----------------------------------------------------------------------------
(* geonet.cpp *)

GBC == 4
TSB == 5
BTP_A == 1
BTP_B == 2
CA_PORT == 2001
DEN_PORT == 2002

GNError(e) == [code |-> e]

(* The lifetime in milliseconds: 6 bits of multiplier, 2 bits of base. *)
decodeLT(lifeTime) ==
    (lifeTime \div 4) * CASE lifeTime % 4 = 0 -> 50
                          [] lifeTime % 4 = 1 -> 1000
                          [] lifeTime % 4 = 2 -> 10000
                          [] lifeTime % 4 = 3 -> 100000

processSHB(m, at) ==
    [data |-> at + 28, SourcePV |-> LongPositionVector(m, at),
     GnAddressDest |-> Unwritten]

processGBC(m, at) ==
    [data |-> at + 44, SourcePV |-> LongPositionVector(m, at + 4),
     GnAddressDest |-> gbcHeader_GetGeoArea(m, at)]

decodeGN(m) ==
    LET basicH  == basicHeader_removeHeader(m, 0)
        commonH == commonHeader_removeHeader(m, 4)
        with(r) == [code |-> "GN_OK", upperProtocol |-> commonH.nextHeader,
                    lenght |-> commonH.payload, GNRemainingLife |-> decodeLT(basicH.lifeTime),
                    data |-> r.data, SourcePV |-> r.SourcePV, GnAddressDest |-> r.GnAddressDest]
    IN  CASE basicH.version \notin {0, 1} -> GNError("GN_VERSION_ERROR")
          [] basicH.version \in {0, 1} /\ basicH.nextHeader = 2 -> GNError("GN_SECURED_ERROR")
          [] OTHER ->
             IF commonH.maxHopLimit < basicH.remainingHopLimit
             THEN GNError("GN_HOP_LIMIT_ERROR")
             ELSE CASE commonH.headerType = GBC -> with(processGBC(m, 12))
                    [] commonH.headerType = TSB /\ commonH.headerSubType = 0 ->
                           with(processSHB(m, 12))
                    [] OTHER -> GNError("GN_TYPE_ERROR")

-----------------------------------------------------------------------------
(* btp.cpp *)

BTPError == [code |-> "BTP_ERROR"]

BTPWholeBuffer(m, gn, Wrapped) ==
    LET header == btpHeader_removeHeader(m, gn.data)
    IN  IF \/ header.destinationPort \notin {CA_PORT, DEN_PORT}
           \/ gn.upperProtocol \notin {BTP_A, BTP_B}
        THEN BTPError
        ELSE [code |-> "BTP_OK", destPort |-> header.destinationPort,
              data |-> gn.data + 4, lenght |-> Wrapped]

(* lenght is a uint32_t: a payload shorter than the BTP header wraps.  No  *)
(* memory is that long, so Wrapped stands for all of it.                   *)
decodeBTP(m, gn, Wrapped) ==
    LET header == btpHeader_removeHeader(m, gn.data)
    IN  IF \/ header.destinationPort \notin {CA_PORT, DEN_PORT}
           \/ gn.upperProtocol \notin {BTP_A, BTP_B}
        THEN BTPError
        ELSE [code     |-> "BTP_OK",
              destPort |-> header.destinationPort,
              data     |-> gn.data + 4,
              lenght   |-> IF gn.lenght < 4 THEN Wrapped ELSE gn.lenght - 4]

-----------------------------------------------------------------------------
(* The packet of a station one hop away, as EN 302 636-4-1 lays it out:    *)
(* vector is its long position vector, area the destination of a GBC.      *)
Common(ht, hops, btp, size) ==
    <<17, 0, 5, hops, 16 * btp, 16 * ht, 2, 128, size \div 256, size % 256, hops, 0>>

GNHeaders(layer, btp, size, vector, area) ==
    IF layer = "SHB" THEN Common(TSB, 1, btp, size) \o vector \o <<0, 0, 0, 0>>
    ELSE Common(GBC, 3, btp, size) \o <<0, 1, 0, 0>> \o vector \o area \o <<0, 0>>

Packet(layer, btp, port, vector, area, payload) ==
    GNHeaders(layer, btp, Len(payload) + 4, vector, area)
        \o <<port \div 256, port % 256, 0, 0>> \o payload
=============================================================================
