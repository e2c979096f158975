--------------------------------- MODULE UPER ---------------------------------
(***************************************************************************)
(* The codec of the decoder module: unaligned packed encoding rules as     *)
(* src/decoder-module/asn1/src decodes and encodes them, for the kinds of  *)
(* types the CAM and DENM descriptors use.                                 *)
(*                                                                         *)
(* Decoders read the stream s from its position p (UPERPrimitives).  "old" *)
(* is the object *sptr points to before the call, <<>> for none: a decoder *)
(* fills an object that exists.                                            *)
(***************************************************************************)
EXTENDS UPERPrimitives, SequencesExt

-----------------------------------------------------------------------------
(* The encoder of OCTET_STRING.c                                           *)

OCTET_STRING_per_put_characters(td, v) ==
    FlattenSeq([i \in 1 .. Len(v) |-> Bits(v[i], td.unit)])

OCTET_STRING_encode_uper(td, v) ==
    (IF td.bits = NoSize THEN uper_put_length(Len(v)) ELSE Bits(Len(v) - td.lb, td.bits))
    \o OCTET_STRING_per_put_characters(td, v)

-----------------------------------------------------------------------------
(* per_opentype.c: a value in a number of octets of its own                *)

RECURSIVE Decode(_, _, _, _)

(* The type td in octets of its own: what it leaves of them is padding. *)
uper_open_type_get(td, old, s, p) ==
    Then(uper_get_length(s, p, NoSize, 0), LAMBDA n, q :
    Then(get_many_bits(s, q, 8 * n), LAMBDA b, end :
         LET r       == Decode(td, old, b, 0)
             padding == 8 * n - r.pos
         IN  IF /\ r.code = "OK"
                /\ padding < 8 \/ (r.pos = 0 /\ n = 1)
                /\ \A i \in r.pos + 1 .. 8 * n : b[i] = 0
             THEN OK(r.val, end) ELSE Failed))

(* Reads three octets at a time until fewer are left. *)
uper_sot_suck(b) == OK(<<>>, 24 * (Len(b) \div 24))

uper_open_type_unread(s, p) == OK(<<>>, p)

uper_open_type_skip(s, p) == uper_open_type_get([op |-> "unknown extension"], <<>>, s, p)

-----------------------------------------------------------------------------
(* The constructed types: constr_SET_OF.c, constr_SEQUENCE.c,              *)
(* constr_SEQUENCE_OF.c, constr_CHOICE.c                                   *)

(* The object a member of an existing structure already has. *)
Existing(st, name) == IF name \in DOMAIN st THEN <<st[name]>> ELSE <<>>

NoMembers == [name \in {} |-> 0]

RECURSIVE Elements(_, _, _, _, _)
Elements(elem, n, list, s, p) ==
    IF n = 0 THEN OK(list, p)
    ELSE Then(Decode(elem, <<>>, s, p), LAMBDA v, q :
              Elements(elem, n - 1, Append(list, v), s, q))

(* The elements are added to the list that is there.  An element decoder   *)
(* reports nothing consumed, which the code takes for a list of NULLs when *)
(* there are more than 200.                                                *)
SET_OF_decode_uper(td, old, s, p) ==
    Then(IF td.ext THEN get_few_bits(s, p, 1) ELSE OK(0, p), LAMBDA inext, q :
    Then(uper_get_length(s, q, IF inext = 1 THEN NoSize ELSE td.bits, td.lb), LAMBDA n, r :
         IF n > 200
         THEN Then(Decode(td.elem, <<>>, s, r), LAMBDA v, t : Failed)
         ELSE Elements(td.elem, n, IF old = <<>> THEN <<>> ELSE old[1], s, r)))

(* The root members from the i-th on; opres are the presence bits left.    *)
RECURSIVE RootMembers(_, _, _, _, _, _)
RootMembers(td, i, opres, st, s, p) ==
    IF i > Len(td.members) THEN OK(st, p)
    ELSE LET m    == td.members[i]
             rest == IF m.opt THEN Tail(opres) ELSE opres
         IN  IF m.opt /\ Head(opres) = 0
             THEN RootMembers(td, i + 1, rest,
                              IF m.default = <<>> THEN st ELSE (m.name :> m.default[1]) @@ st,
                              s, p)
             ELSE Then(Decode(m.type, Existing(st, m.name), s, p), LAMBDA v, q :
                       RootMembers(td, i + 1, rest, (m.name :> v) @@ st, s, q))

(* The additions from the i-th on: those the descriptor knows are decoded, *)
(* the others skipped, and one that cannot be skipped ends the stream.     *)
RECURSIVE Additions(_, _, _, _, _, _)
Additions(td, i, epres, st, s, p) ==
    IF i > Len(epres) THEN OK(st, p)
    ELSE IF epres[i] = 0 THEN Additions(td, i + 1, epres, st, s, p)
    ELSE IF i <= Len(td.additions)
    THEN LET m == td.additions[i]
         IN  Then(uper_open_type_get(m.type, Existing(st, m.name), s, p),
                  LAMBDA v, q : Additions(td, i + 1, epres, (m.name :> v) @@ st, s, q))
    ELSE LET r == uper_open_type_skip(s, p)
         IN  IF r.code = "OK" THEN Additions(td, i + 1, epres, st, s, r.pos) ELSE Starved

OptionalMembers(td) == SelectSeq(td.members, LAMBDA m : m.opt)

SEQUENCE_decode_uper(td, old, s, p) ==
    Then(IF td.ext THEN get_few_bits(s, p, 1) ELSE OK(0, p), LAMBDA extpresent, q :
    Then(get_many_bits(s, q, Len(OptionalMembers(td))), LAMBDA opres, r :
    Then(RootMembers(td, 1, opres, IF old = <<>> THEN NoMembers ELSE old[1], s, r),
         LAMBDA st, t :
         IF extpresent = 0 THEN OK(st, t)
         ELSE Then(uper_get_nslength(s, t), LAMBDA n, u :
              Then(get_many_bits(s, u, n), LAMBDA epres, w :
                   Additions(td, 1, epres, st, s, w))))))

(* No generated choice has an alternative behind its marker. *)
CHOICE_decode_uper(td, old, s, p) ==
    Then(get_few_bits(s, p, 1), LAMBDA inext, q :
         IF inext = 1
         THEN Then(uper_get_nsnnwn(s, q), LAMBDA v, r : Failed)
         ELSE Then(get_few_bits(s, q, td.bits), LAMBDA v, r :
              IF v >= Len(td.alts) THEN Failed
              ELSE LET alt == td.alts[v + 1]
                       was == IF old = <<>> THEN <<>> ELSE Existing(old[1], alt.name)
                   IN  Then(Decode(alt.type, was, s, r), LAMBDA w, t : OK(alt.name :> w, t))))

Decode(td, old, s, p) ==
    CASE td.op = "INTEGER"      -> INTEGER_decode_uper(td, s, p)
      [] td.op = "ENUMERATED"   -> NativeEnumerated_decode_uper(td, s, p)
      [] td.op = "BOOLEAN"      -> BOOLEAN_decode_uper(s, p)
      [] td.op = "BIT STRING"   -> BIT_STRING_decode_uper(td, s, p)
      [] td.op = "OCTET STRING" -> OCTET_STRING_decode_uper(td, s, p)
      [] td.op = "SEQUENCE OF"  -> SET_OF_decode_uper(td, old, s, p)
      [] td.op = "SEQUENCE"     -> SEQUENCE_decode_uper(td, old, s, p)
      [] td.op = "CHOICE"       -> CHOICE_decode_uper(td, old, s, p)
      [] td.op = "unknown extension" -> uper_sot_suck(s)

(* asn_decode of octets; an encoding without bits is one zero octet. *)
Complete(r, s) ==
    IF r.code # "OK" \/ r.pos > 0 THEN r
    ELSE CASE s = <<>> -> Starved
           [] s # <<>> /\ Value(SubSeq(s, 1, 8)) = 0 -> r
           [] OTHER -> Failed

uper_decode_complete(td, old, s) == Complete(Decode(td, old, s, 0), s)

-----------------------------------------------------------------------------

RECURSIVE Encode(_, _)

(* A size outside the root is announced by a bit and written as a length.  *)
SEQUENCE_OF_encode_uper(td, v) ==
    LET not_in_root == Len(v) < td.lb \/ Len(v) > td.ub
    IN  (IF td.ext THEN <<IF not_in_root THEN 1 ELSE 0>> ELSE <<>>)
        \o (IF not_in_root THEN uper_put_length(Len(v)) ELSE Bits(Len(v) - td.lb, td.bits))
        \o FlattenSeq([i \in 1 .. Len(v) |-> Encode(td.elem, v[i])])

(* A DEFAULT value is not sent. *)
Present(m, v) == m.name \in DOMAIN v /\ (m.default # <<>> => v[m.name] # m.default[1])

SEQUENCE__handle_extensions(td, v) ==
    uper_put_nslength(Len(td.additions))
    \o [i \in 1 .. Len(td.additions) |-> IF Present(td.additions[i], v) THEN 1 ELSE 0]
    \o FlattenSeq([i \in 1 .. Len(td.additions) |->
            LET m == td.additions[i]
            IN  IF Present(m, v) THEN uper_open_type_put(Encode(m.type, v[m.name])) ELSE <<>>])

SEQUENCE_encode_uper(td, v) ==
    LET extended == \E i \in 1 .. Len(td.additions) : Present(td.additions[i], v)
        roms     == OptionalMembers(td)
    IN  (IF td.ext THEN <<IF extended THEN 1 ELSE 0>> ELSE <<>>)
        \o [i \in 1 .. Len(roms) |-> IF Present(roms[i], v) THEN 1 ELSE 0]
        \o FlattenSeq([i \in 1 .. Len(td.members) |->
               LET m == td.members[i]
               IN  IF Present(m, v) THEN Encode(m.type, v[m.name]) ELSE <<>>])
        \o (IF extended THEN SEQUENCE__handle_extensions(td, v) ELSE <<>>)

CHOICE_encode_uper(td, v) ==
    LET i == CHOOSE j \in 1 .. Len(td.alts) : td.alts[j].name \in DOMAIN v
        m == td.alts[i]
    IN  <<0>> \o Bits(i - 1, td.bits) \o Encode(m.type, v[m.name])

Encode(td, v) ==
    CASE td.op = "INTEGER"      -> INTEGER_encode_uper(td, v)
      [] td.op = "ENUMERATED"   -> NativeEnumerated_encode_uper(td, v)
      [] td.op = "BOOLEAN"      -> BOOLEAN_encode_uper(v)
      [] td.op = "BIT STRING"   -> BIT_STRING_encode_uper(td, v)
      [] td.op = "OCTET STRING" -> OCTET_STRING_encode_uper(td, v)
      [] td.op = "SEQUENCE OF"  -> SEQUENCE_OF_encode_uper(td, v)
      [] td.op = "SEQUENCE"     -> SEQUENCE_encode_uper(td, v)
      [] td.op = "CHOICE"       -> CHOICE_encode_uper(td, v)
=============================================================================
