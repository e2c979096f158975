----------------------------- MODULE ASN1Values -----------------------------
(***************************************************************************)
(* The values of a type: those its constraints allow, and for every type a *)
(* few that reach the corners of its encoding.                             *)
(***************************************************************************)
EXTENDS ASN1Types, TLC
LOCAL INSTANCE FiniteSetsExt

(* Kinds 0 .. High spread over the range of every integer, the items of    *)
(* every enumeration and the alternatives of every CHOICE, with more and   *)
(* more OPTIONAL members; Full has lists and strings at their upper bound, *)
(* Beyond what lies behind the extension markers, and Zeros strings of     *)
(* zero bits.                                                              *)
High   == 6
Full   == 7
Beyond == 8
Zeros  == 9
Kinds  == 0 .. Beyond

(* The last of the n + 1 steps for the kinds from High on. *)
Spread(n, k) == (n \div High) * Min({k, High}) + IF k >= High THEN n % High ELSE 0

(* An INTEGER whose constraint is extensible as its content octets.        *)
Octets3(n) ==
    LET len == CASE n < 128 -> 1 [] n >= 128 /\ n < 32768 -> 2 [] OTHER -> 3
    IN  [i \in 1 .. len |-> (n \div 256 ^ (len - i)) % 256]

IntegerSample(td, k) ==
    CASE td.wide -> <<Spread(td.range[1], k), Spread(td.range[2], k)>>
      [] td.ext  -> Octets3(td.lb + IF k = Beyond THEN td.range + 1 ELSE Spread(td.range, k))
      [] OTHER   -> td.lb + Spread(td.range, k)

(* How many items a list or a string of the type has. *)
SizeSample(td, k) ==
    CASE k = 0 -> td.lb
      [] k = Full /\ td.bits # NoSize -> td.ub
      [] OTHER -> IF td.bits = NoSize THEN k ELSE Min({td.ub, td.lb + 1 + k \div High})

BitSample(td, k) ==
    LET n == IF td.lb = td.ub THEN td.ub ELSE SizeSample(td, k)
    IN  [i \in 1 .. n |-> CASE k = Zeros -> 0
                            [] k # Zeros /\ td.lb # td.ub /\ i = n -> 1
                            [] OTHER -> IF k >= High THEN 1 ELSE (i * k) % 2]

RECURSIVE Sample(_, _)
ListSample(td, k) ==
    LET n == IF k = Beyond /\ td.ext THEN td.ub + 1 ELSE SizeSample(td, k)
    IN  [i \in 1 .. n |-> Sample(td.elem, CASE k = Full -> 0
                                            [] k > Full -> k
                                            [] OTHER -> (k + i - 1) % Full)]

MemberGiven(m, i, k) == ~m.opt \/ k >= High \/ (k > 0 /\ i % (k + 1) = 0)

SequenceSample(td, k) ==
    LET given == {i \in DOMAIN td.members : MemberGiven(td.members[i], i, k)}
        all   == td.members \o td.additions
        index == given \cup {i \in DOMAIN all : i > Len(td.members)}
    IN  [name \in {all[i].name : i \in index} \cup
                  {m.name : m \in {n \in {all[i] : i \in DOMAIN all} : n.default # <<>>}} |->
            LET i == CHOOSE j \in DOMAIN all : all[j].name = name
            IN  IF i \in index THEN Sample(all[i].type, k) ELSE all[i].default[1]]

Sample(td, k) ==
    CASE td.op = "INTEGER"      -> IntegerSample(td, k)
      [] td.op = "ENUMERATED"   -> ((td.count - 1) * Min({k, High})) \div High
      [] td.op = "BOOLEAN"      -> k % 2 = 0
      [] td.op = "BIT STRING"   -> BitSample(td, k)
      [] td.op = "OCTET STRING" -> [i \in 1 .. SizeSample(td, k) |-> Spread(td.chars - 1, k)]
      [] td.op = "SEQUENCE OF"  -> ListSample(td, k)
      [] td.op = "SEQUENCE"     -> SequenceSample(td, k)
      [] td.op = "CHOICE"       -> LET i == ((Len(td.alts) - 1) * Min({k, High})) \div High + 1
                                   IN  td.alts[i].name :> Sample(td.alts[i].type, k)

-----------------------------------------------------------------------------
(* v satisfies the constraints on the values of td, and with "sized" those *)
(* on the sizes too; an extension of a value constraint allows any value.  *)
RECURSIVE Satisfies(_, _, _)

Satisfies(td, v, sized) ==
    CASE td.op = "INTEGER"      -> InIntegerRange(td, v)
      [] td.op = "ENUMERATED"   -> v \in 0 .. td.count - 1
      [] td.op = "BOOLEAN"      -> v \in BOOLEAN
      [] td.op = "BIT STRING"   -> sized => InSize(td, v)
      [] td.op = "OCTET STRING" -> /\ \A i \in DOMAIN v : v[i] < td.chars
                                   /\ sized => InSize(td, v)
      [] td.op = "SEQUENCE OF"  -> /\ \A i \in DOMAIN v : Satisfies(td.elem, v[i], sized)
                                   /\ sized => td.ext \/ InSize(td, v)
      [] td.op = "SEQUENCE"     -> \A i \in DOMAIN td.members :
                                       LET m == td.members[i]
                                       IN  IF m.name \in DOMAIN v
                                           THEN Satisfies(m.type, v[m.name], sized) ELSE m.opt
      [] td.op = "CHOICE"       -> \E i \in DOMAIN td.alts :
                                       /\ DOMAIN v = {td.alts[i].name}
                                       /\ Satisfies(td.alts[i].type, v[td.alts[i].name], sized)
=============================================================================
