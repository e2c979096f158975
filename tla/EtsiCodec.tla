------------------------------ MODULE EtsiCodec ------------------------------
(***************************************************************************)
(* The codec EtsiDecoder is a specification of the frontend for: UPER with *)
(* the generated descriptors, and the sample messages of a station that    *)
(* uses the encoders of the same code.                                     *)
(***************************************************************************)
EXTENDS UPER, ASN1Values, CAMDescriptions, DENMDescriptions

(* The generated descriptors, by the names of their types.                *)
Types == ITSTypes @@ CAMTypes @@ DENMTypes

(* The types with an extension marker additions go behind.                *)
ExtensibleTypes == {type \in DOMAIN Types : Types[type].op = "SEQUENCE" /\ Types[type].ext}

(* The descriptor a newer version of the protocol has: an addition of n    *)
(* octets behind the extension marker of the parameters of a CAM, of the   *)
(* management container of a DENM, or of the type itself.                  *)
Extended(td, n) ==
    [td EXCEPT !.additions = Append(@, Optional("addition", Octets(0, n, n, 8, 256)))]

Newer(type, n) ==
    CASE n = 0 -> Types[type]
      [] n # 0 /\ type \in {"CAM", "CAMEnhanced"} ->
             [Types[type] EXCEPT !.members[2].type.members[2].type = Extended(@, n)]
      [] n # 0 /\ type = "DENM" ->
             [Types[type] EXCEPT !.members[2].type.members[1].type = Extended(@, n)]
      [] OTHER -> Extended(Types[type], n)

MessageOf(type, td, k) ==
    IF type \notin {"CAM", "CAMEnhanced", "DENM"} THEN Sample(td, k)
    ELSE [Sample(td, k) EXCEPT !.header.messageID = IF type = "DENM" THEN 1 ELSE 2]

SampleMessage(type, k) == MessageOf(type, Types[type], k)

ToOctets(bits) == GetOctets(bits, 0, Len(bits) \div 8).val

uper_encode_octets(type, k, n) ==
    LET td == Newer(type, n)
    IN  ToOctets(uper_encode_to_new_buffer(Encode(td, MessageOf(type, td, k))))

asn_decode_octets(type, old, octets) ==
    uper_decode_complete(Types[type], old, OctetBits(octets))

SatisfiesConstraints(type, v, sized) == Satisfies(Types[type], v, sized)
=============================================================================
