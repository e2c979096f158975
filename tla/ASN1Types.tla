------------------------------ MODULE ASN1Types ------------------------------
(***************************************************************************)
(* The ASN.1 type descriptors of the decoder module                        *)
(* (src/decoder-module/asn1/include): asn_TYPE_descriptor_t with its PER   *)
(* constraints, its members and its specifics.  A descriptor is a record   *)
(* whose "op" names the operations of the codec that serve the type.       *)
(*                                                                         *)
(* Values.  An integer is itself, unless its range does not fit the 31     *)
(* bits of a TLC integer: it is then <<high, low>>, the first 31 bits and  *)
(* the others of its distance to the lower bound.  The value of an         *)
(* INTEGER whose constraint is extensible is its content octets, the way   *)
(* INTEGER_t keeps it.  An enumeration is the index of its item, a string  *)
(* the sequence of its bits or character codes, a SEQUENCE the function    *)
(* from the names of the present members to their values, a CHOICE the     *)
(* function of one name.                                                   *)
(***************************************************************************)
EXTENDS Integers, Sequences

(* { APC_CONSTRAINED, bits, _, lb, ub } on the value of an INTEGER. *)
Integer(bits, lb, ub) ==
    [op |-> "INTEGER", ext |-> FALSE, unsigned |-> FALSE, wide |-> FALSE,
     bits |-> bits, lb |-> lb, range |-> ub - lb]

(* APC_CONSTRAINED | APC_EXTENSIBLE *)
ExtInteger(bits, lb, ub) == [Integer(bits, lb, ub) EXCEPT !.ext = TRUE]

(* More than 31 bits; unsigned is the field_unsigned of its specifics. *)
WideInteger(bits, range, unsigned) ==
    [op |-> "INTEGER", ext |-> FALSE, unsigned |-> unsigned, wide |-> TRUE,
     bits |-> bits, lb |-> 0, range |-> range]

(* roots items, and with an extension marker "count" items in the map. *)
Enum(bits, roots) ==
    [op |-> "ENUMERATED", ext |-> FALSE, bits |-> bits, roots |-> roots, count |-> roots]

ExtEnum(bits, roots, count) == [Enum(bits, roots) EXCEPT !.ext = TRUE, !.count = count]

Bool == [op |-> "BOOLEAN"]

(* bits is effective_bits of the size constraint lb .. ub: 0 for a fixed   *)
(* size, NoSize when the size is not constrained.                          *)
NoSize == -1

BitString(bits, lb, ub) == [op |-> "BIT STRING", bits |-> bits, lb |-> lb, ub |-> ub]

(* Characters of "unit" bits, of which the permitted alphabet has "chars". *)
Octets(bits, lb, ub, unit, chars) ==
    [op |-> "OCTET STRING", bits |-> bits, lb |-> lb, ub |-> ub, unit |-> unit,
     chars |-> chars]

OctetString == Octets(NoSize, 0, 0, 8, 256)

List(bits, lb, ub, elem) ==
    [op |-> "SEQUENCE OF", ext |-> FALSE, bits |-> bits, lb |-> lb, ub |-> ub, elem |-> elem]

ExtList(bits, lb, ub, elem) == [List(bits, lb, ub, elem) EXCEPT !.ext = TRUE]

(* A member of a SEQUENCE: mandatory, OPTIONAL, or with a DEFAULT value.   *)
Member(name, type) == [name |-> name, type |-> type, opt |-> FALSE, default |-> <<>>]
Optional(name, type) == [Member(name, type) EXCEPT !.opt = TRUE]
Default(name, type, v) == [Member(name, type) EXCEPT !.opt = TRUE, !.default = <<v>>]

(* first_extension < 0: no extension marker. *)
Sequence(members) ==
    [op |-> "SEQUENCE", ext |-> FALSE, members |-> members, additions |-> <<>>]

(* The marker stands after the last member; an addition is one the         *)
(* elements from first_extension on would be.                              *)
ExtSequence(members) == [Sequence(members) EXCEPT !.ext = TRUE]

(* Alternatives in the order of their tags; the generated extensible       *)
(* choices have none behind the marker (ext_start = elements_count).       *)
ExtChoice(bits, alts) == [op |-> "CHOICE", bits |-> bits, alts |-> alts]

-----------------------------------------------------------------------------
(* The constraints of an INTEGER and of a size.                            *)

InIntegerRange(td, v) ==
    CASE td.wide -> \/ v[1] < td.range[1]
                    \/ v[1] = td.range[1] /\ v[2] <= td.range[2]
      [] td.ext -> TRUE
      [] OTHER -> v \in td.lb .. td.lb + td.range

InSize(td, v) == td.bits # NoSize => Len(v) \in td.lb .. td.ub
=============================================================================
