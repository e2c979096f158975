---------------------------- MODULE UPERPrimitives ----------------------------
(***************************************************************************)
(* Unaligned packed encoding rules as src/decoder-module/asn1/src decodes  *)
(* and encodes them: bits, lengths, and the types without parts.           *)
(*                                                                         *)
(* A stream is a sequence of bits; a decoder reads the stream s from its   *)
(* position p and returns a code (RC_OK, RC_WMORE or RC_FAIL), the value   *)
(* and the position behind it.  The encoders are written for values that   *)
(* satisfy their constraints: every other value is an ASN__ENCODE_FAILED   *)
(* of the code.                                                            *)
(***************************************************************************)
EXTENDS ASN1Types, FiniteSetsExt

OK(v, p) == [code |-> "OK", val |-> v, pos |-> p]
Starved  == [code |-> "WMORE", val |-> <<>>, pos |-> 0]
Failed   == [code |-> "FAIL", val |-> <<>>, pos |-> 0]

(* Every decoder returns at once what a decoder it calls could not do.     *)
Then(r, F(_, _)) == IF r.code = "OK" THEN F(r.val, r.pos) ELSE r

Value(bits) ==
    LET upTo[i \in 0 .. Len(bits)] == IF i = 0 THEN 0 ELSE 2 * upTo[i - 1] + bits[i]
    IN  upTo[Len(bits)]

Bits(v, n) == [i \in 1 .. n |-> (v \div 2 ^ (n - i)) % 2]

-----------------------------------------------------------------------------
(* Reading: asn_bit_data.c, per_support.c                                  *)

ZerosBehindEnd(s, p, n) ==
    OK([i \in 1 .. n |-> IF p + i > Len(s) THEN 0 ELSE s[p + i]], p + n)

get_many_bits(s, p, n) ==
    IF p + n > Len(s) THEN Starved ELSE OK(SubSeq(s, p + 1, p + n), p + n)

get_few_bits(s, p, n) ==
    Then(get_many_bits(s, p, n), LAMBDA bits, q : OK(Value(bits), q))

GetOctets(s, p, n) ==
    Then(get_many_bits(s, p, 8 * n), LAMBDA bits, q :
         OK([i \in 1 .. n |-> Value(SubSeq(bits, 8 * i - 7, 8 * i))], q))

(* A length in bits of its constraint is not compared with the upper bound.*)
(* A fragment of 16K items announces more than a datagram holds: whoever   *)
(* reads the items finds the stream too short.                             *)
uper_get_length(s, p, ebits, lb) ==
    IF ebits >= 0
    THEN Then(get_few_bits(s, p, ebits), LAMBDA v, q : OK(v + lb, q))
    ELSE Then(get_few_bits(s, p, 8), LAMBDA v, q :
              IF v < 128 THEN OK(v, q)
              ELSE IF v < 192
              THEN Then(get_few_bits(s, q, 8), LAMBDA w, r : OK((v % 64) * 256 + w, r))
              ELSE IF v % 64 \in 1 .. 4 THEN OK(16384 * (v % 64), q) ELSE Starved)

uper_get_nslength(s, p) ==
    Then(get_few_bits(s, p, 1), LAMBDA long, q :
         IF long = 0
         THEN Then(get_few_bits(s, q, 6), LAMBDA v, r : OK(v + 1, r))
         ELSE Then(uper_get_length(s, q, NoSize, 0), LAMBDA v, r :
                   IF v < 16384 THEN OK(v, r) ELSE Starved))

(* The long form takes the number of octets from the bits behind the sixth,*)
(* which uper_put_nsnnwn does not write that way.                          *)
uper_get_nsnnwn(s, p) ==
    Then(get_few_bits(s, p, 7), LAMBDA v, q :
         IF v < 64 THEN OK(v, q)
         ELSE Then(get_few_bits(s, q, 2), LAMBDA w, r :
                   LET octets == (v % 64) * 4 + w
                   IN  CASE octets = 0 -> OK(0, r)
                         [] octets \in {1, 2} -> get_few_bits(s, r, 8 * octets)
                         [] OTHER -> Starved))

(* More than 31 bits are read in two parts. *)
uper_get_constrained_whole_number(s, p, nbits) ==
    IF nbits <= 31
    THEN get_few_bits(s, p, nbits)
    ELSE Then(get_few_bits(s, p, 31), LAMBDA high, q :
         Then(get_few_bits(s, q, nbits - 31), LAMBDA low, r : OK(<<high, low>>, r)))

ExceedsNever(td, v) == FALSE

(* The range test of per_long_range_unrebase. *)
Exceeds(td, v) ==
    IF td.wide
    THEN v[1] > td.range[1] \/ (v[1] = td.range[1] /\ v[2] > td.range[2])
    ELSE v > td.range

-----------------------------------------------------------------------------
(* Writing: per_support.c, asn_bit_data.c                                  *)

(* The lengths of a message stay below one fragment of 16K. *)
uper_put_length(n) == IF n < 128 THEN Bits(n, 8) ELSE Bits(32768 + n, 16)

uper_put_nslength(n) == IF n <= 64 THEN Bits(n - 1, 7) ELSE uper_put_length(n)

uper_put_nsnnwn(n) ==
    IF n < 64 THEN Bits(n, 7)
    ELSE LET octets == IF n < 256 THEN 1 ELSE 2 IN Bits(octets, 8) \o Bits(n, 8 * octets)

uper_put_constrained_whole_number_u(td, v) ==
    IF td.wide THEN Bits(v[1], 31) \o Bits(v[2], td.bits - 31) ELSE Bits(v, td.bits)

(* Up to a whole number of octets, one at least. *)
uper_encode_to_new_buffer(bits) ==
    LET n == Max({1, (Len(bits) + 7) \div 8})
    IN  bits \o [i \in 1 .. 8 * n - Len(bits) |-> 0]

uper_open_type_put(bits) ==
    LET octets == uper_encode_to_new_buffer(bits)
    IN  uper_put_length(Len(octets) \div 8) \o octets

-----------------------------------------------------------------------------
(* INTEGER.c, NativeInteger.c                                              *)

(* The shortest two's complement octets of a natural number below 2^23.    *)
OctetsOf(n) ==
    LET len == CASE n < 128 -> 1 [] n >= 128 /\ n < 32768 -> 2 [] OTHER -> 3
    IN  [i \in 1 .. len |-> (n \div 256 ^ (len - i)) % 256]

(* An octet that only repeats the sign of the next one is redundant. *)
Redundant(o, i) ==
    \/ o[i] = 0 /\ o[i + 1] < 128
    \/ o[i] = 255 /\ o[i + 1] >= 128

(* asn_INTEGER2long: what does not fit the 8 octets of a long is an error. *)
AsLong(o) ==
    LET first == Min({i \in 1 .. Len(o) :
                        i = Len(o) \/ ~Redundant(o, i)})
    IN  IF o = <<>> THEN <<0>> ELSE SubSeq(o, first, Len(o))

INTEGER_decode_uper(td, s, p) ==
    Then(IF td.ext THEN get_few_bits(s, p, 1) ELSE OK(0, p), LAMBDA inext, q :
         IF inext = 1
         THEN Then(uper_get_length(s, q, NoSize, 0), LAMBDA n, r :
              Then(GetOctets(s, r, n), LAMBDA o, t :
                   IF Len(AsLong(o)) > 8 THEN Failed ELSE OK(AsLong(o), t)))
         ELSE Then(uper_get_constrained_whole_number(s, q, td.bits), LAMBDA v, r :
                   IF ~td.unsigned /\ Exceeds(td, v) THEN Failed
                   ELSE OK(CASE td.wide -> v
                             [] td.ext  -> OctetsOf(td.lb + v)
                             [] OTHER   -> td.lb + v, r)))

OctetBits(o) ==
    <<>> \o [i \in 1 .. 8 * Len(o) |-> Bits(o[((i - 1) \div 8) + 1], 8)[((i - 1) % 8) + 1]]

(* The octets are a value of the root of the constraint. *)
InRoot(td, o) ==
    Len(o) <= 3 /\ o[1] < 128 /\ Value(OctetBits(o)) \in td.lb .. td.lb + td.range

INTEGER_encode_uper(td, v) ==
    CASE ~td.ext -> uper_put_constrained_whole_number_u(td, IF td.wide THEN v ELSE v - td.lb)
      [] td.ext /\ InRoot(td, v) -> <<0>> \o Bits(Value(OctetBits(v)) - td.lb, td.bits)
      [] OTHER -> <<1>> \o uper_put_length(Len(v)) \o OctetBits(v)

-----------------------------------------------------------------------------
(* NativeEnumerated.c, BOOLEAN.c                                           *)

NativeEnumerated_decode_uper(td, s, p) ==
    Then(IF td.ext THEN get_few_bits(s, p, 1) ELSE OK(0, p), LAMBDA inext, q :
         IF inext = 0
         THEN Then(get_few_bits(s, q, td.bits), LAMBDA v, r :
                   IF v >= td.roots THEN Failed ELSE OK(v, r))
         ELSE Then(uper_get_nsnnwn(s, q), LAMBDA v, r :
                   IF v + td.roots >= td.count THEN Failed ELSE OK(v + td.roots, r)))

NativeEnumerated_encode_uper(td, v) ==
    LET inext == v >= td.roots
    IN  (IF td.ext THEN <<IF inext THEN 1 ELSE 0>> ELSE <<>>)
        \o IF inext THEN uper_put_nsnnwn(v - td.roots) ELSE Bits(v, td.bits)

BOOLEAN_decode_uper(s, p) == Then(get_few_bits(s, p, 1), LAMBDA v, q : OK(v = 1, q))

BOOLEAN_encode_uper(v) == <<IF v THEN 1 ELSE 0>>

-----------------------------------------------------------------------------
(* BIT_STRING.c, OCTET_STRING.c                                            *)

BIT_STRING_decode_uper(td, s, p) ==
    Then(IF td.bits = 0 THEN OK(td.ub, p) ELSE uper_get_length(s, p, td.bits, td.lb),
         LAMBDA n, q : get_many_bits(s, q, n))

(* BIT_STRING__compactify: trailing zero bits are not kept. *)
Compact(v) == SubSeq(v, 1, Max({0} \cup {i \in 1 .. Len(v) : v[i] = 1}))

BIT_STRING_encode_uper(td, v) ==
    LET n == Max({td.lb, Len(Compact(v))})
    IN  Bits(n - td.lb, td.bits) \o [i \in 1 .. n |-> IF i <= Len(Compact(v)) THEN v[i] ELSE 0]

(* The characters are read one by one: a code outside the alphabet is met  *)
(* before the end of a stream that is too short.                           *)
OCTET_STRING_per_get_characters(td, s, p, n) ==
    LET got   == Min({n, (Len(s) - p) \div td.unit})
        codes == [i \in 1 .. got |->
                    Value(SubSeq(s, p + td.unit * (i - 1) + 1, p + td.unit * i))]
    IN  CASE \E i \in 1 .. got : codes[i] >= td.chars -> Failed
          [] got < n -> Starved
          [] OTHER -> OK(codes, p + n * td.unit)

OCTET_STRING_decode_uper(td, s, p) ==
    Then(IF td.bits = 0 THEN OK(td.ub, p) ELSE uper_get_length(s, p, td.bits, td.lb),
         LAMBDA n, q : OCTET_STRING_per_get_characters(td, s, q, n))
=============================================================================
