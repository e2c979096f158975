------------------------- MODULE EtsiDecoderProofs -------------------------
(***************************************************************************)
(* Proofs about the decoder module: first about the headers, for memories  *)
(* of any contents and messages of any length, then about decodeEtsi, for  *)
(* any messages and any codec.                                             *)
(*                                                                         *)
(* What is removed from a packet is its headers, all of them and nothing   *)
(* else, and what an earlier datagram has left behind a packet is not      *)
(* looked at.  Whether a message is delivered as it was sent, and nothing  *)
(* else is delivered, depends on the codec by a few facts, which are the   *)
(* hypotheses of the theorems; EtsiCodec is one codec they are true of.    *)
(* The last part is about the types of that codec that have no parts: what *)
(* they are decoded to from any stream lies in their constraint and does   *)
(* not depend on the bits behind it.                                       *)
(***************************************************************************)
EXTENDS EtsiDecoder, UPERPrimitives, SequenceTheorems, WellFoundedInduction, TLAPS

-----------------------------------------------------------------------------
(* The headers                                                             *)

\* Two memories that hold the same first n octets.
SameUpTo(m1, m2, n) == \A i \in 1 .. n : m1[i] = m2[i]

LEMMA SameField ==
  ASSUME NEW m1, NEW m2, NEW n \in Nat, SameUpTo(m1, m2, n),
         NEW at \in Nat, NEW size \in Nat, at + size <= n
  PROVE  Field(m1, at, size) = Field(m2, at, size)
BY DEF SameUpTo, Field

LEMMA SameWord ==
  ASSUME NEW m1, NEW m2, NEW n \in Nat, SameUpTo(m1, m2, n), NEW at \in Nat, at + 2 <= n
  PROVE  Word16(m1, at) = Word16(m2, at) /\ Octet(m1, at) = Octet(m2, at)
BY DEF SameUpTo, Word16, Octet

LEMMA SameVector ==
  ASSUME NEW m1, NEW m2, NEW n \in Nat, SameUpTo(m1, m2, n), NEW at \in Nat, at + 24 <= n
  PROVE  LongPositionVector(m1, at) = LongPositionVector(m2, at)
<1>1. Field(m1, at, 8) = Field(m2, at, 8)
  BY SameField
<1>2. Field(m1, at + 8, 4) = Field(m2, at + 8, 4)
  BY SameField
<1>3. Field(m1, at + 12, 4) = Field(m2, at + 12, 4)
  BY SameField
<1>4. Field(m1, at + 16, 4) = Field(m2, at + 16, 4)
  BY SameField
<1>5. Word16(m1, at + 20) = Word16(m2, at + 20) /\ Word16(m1, at + 22) = Word16(m2, at + 22)
  BY SameWord
<1> QED
  BY <1>1, <1>2, <1>3, <1>4, <1>5 DEF LongPositionVector

LEMMA SameArea ==
  ASSUME NEW m1, NEW m2, NEW n \in Nat, SameUpTo(m1, m2, n), NEW at \in Nat, at + 42 <= n
  PROVE  gbcHeader_GetGeoArea(m1, at) = gbcHeader_GetGeoArea(m2, at)
<1>1. Field(m1, at + 28, 4) = Field(m2, at + 28, 4)
  BY SameField
<1>2. Field(m1, at + 32, 4) = Field(m2, at + 32, 4)
  BY SameField
<1>3. /\ Word16(m1, at + 36) = Word16(m2, at + 36) /\ Word16(m1, at + 38) = Word16(m2, at + 38)
      /\ Word16(m1, at + 40) = Word16(m2, at + 40)
  BY SameWord
<1> QED
  BY <1>1, <1>2, <1>3 DEF gbcHeader_GetGeoArea

\* The headers of a packet give the same result in two memories that hold them.
LEMMA SameHeaders ==
  ASSUME NEW m1, NEW m2, NEW n \in Nat, n >= 40, SameUpTo(m1, m2, n),
         decodeGN(m1).code = "GN_OK" /\ commonHeader_removeHeader(m1, 4).headerType = GBC => n >= 54
  PROVE  decodeGN(m1) = decodeGN(m2)
<1>1. \A at \in 0 .. 16 : Octet(m1, at) = Octet(m2, at) /\ Word16(m1, at) = Word16(m2, at)
  BY SameWord
<1>2. /\ basicHeader_removeHeader(m1, 0) = basicHeader_removeHeader(m2, 0)
      /\ commonHeader_removeHeader(m1, 4) = commonHeader_removeHeader(m2, 4)
  BY <1>1 DEF basicHeader_removeHeader, commonHeader_removeHeader
<1>3. processSHB(m1, 12) = processSHB(m2, 12)
  BY SameVector DEF processSHB
<1>4. decodeGN(m1).code = "GN_OK" /\ commonHeader_removeHeader(m1, 4).headerType = GBC
         => processGBC(m1, 12) = processGBC(m2, 12)
  BY SameVector, SameArea DEF processGBC
<1> DEFINE b == basicHeader_removeHeader(m1, 0)
           c == commonHeader_removeHeader(m1, 4)
           G(shb, gbc) == LET with(r) == [code |-> "GN_OK", upperProtocol |-> c.nextHeader,
                    lenght |-> c.payload, GNRemainingLife |-> decodeLT(b.lifeTime),
                    data |-> r.data, SourcePV |-> r.SourcePV, GnAddressDest |-> r.GnAddressDest] IN
             CASE b.version \notin {0, 1} -> GNError("GN_VERSION_ERROR")
          [] b.version \in {0, 1} /\ b.nextHeader = 2 -> GNError("GN_SECURED_ERROR")
          [] OTHER ->
             IF c.maxHopLimit < b.remainingHopLimit
             THEN GNError("GN_HOP_LIMIT_ERROR")
             ELSE CASE c.headerType = GBC -> with(gbc)
                    [] c.headerType = TSB /\ c.headerSubType = 0 -> with(shb)
                    [] OTHER -> GNError("GN_TYPE_ERROR")
<1>5. decodeGN(m1) = G(processSHB(m1, 12), processGBC(m1, 12))
  BY DEF decodeGN
<1>6. decodeGN(m2) = G(processSHB(m2, 12), processGBC(m2, 12))
  BY <1>2 DEF decodeGN
<1> HIDE DEF b
<1>7. CASE c.headerType = GBC
  <2>1. decodeGN(m1).code = "GN_OK" => processGBC(m1, 12) = processGBC(m2, 12)
    BY <1>4, <1>7
  <2> HIDE DEF c
  <2>2. CASE decodeGN(m1).code = "GN_OK"
    BY <1>3, <1>5, <1>6, <1>7, <2>1, <2>2
  <2>3. CASE decodeGN(m1).code # "GN_OK"
    <3>1. \/ b.version \notin {0, 1} \/ b.nextHeader = 2 \/ c.maxHopLimit < b.remainingHopLimit
      BY <1>5, <1>7, <2>3 DEF b
    <3> QED
      BY <1>5, <1>6, <1>7, <3>1
  <2> QED
    BY <2>2, <2>3
<1>8. CASE c.headerType # GBC
  <2> HIDE DEF c
  <2> QED
    BY <1>3, <1>5, <1>6, <1>8
<1> QED
  BY <1>7, <1>8

\* When decodeGN succeeds, it says where the payload is and how long it should be.
LEMMA Accepted ==
  ASSUME NEW m, decodeGN(m).code = "GN_OK"
  PROVE  LET gn  == decodeGN(m)
             gbc == High4(Octet(m, 5)) = GBC
         IN  /\ gn.lenght = Word16(m, 8)
             /\ gn.upperProtocol = High4(Octet(m, 4))
             /\ gn.data = IF gbc THEN 56 ELSE 40
             /\ gn.SourcePV = LongPositionVector(m, IF gbc THEN 16 ELSE 12)
             /\ gn.GnAddressDest = IF gbc THEN gbcHeader_GetGeoArea(m, 12) ELSE Unwritten
BY DEF decodeGN, basicHeader_removeHeader, commonHeader_removeHeader, processGBC, processSHB, GBC, TSB, GNError

LEMMA SamePayload ==
  ASSUME NEW m1, NEW m2, NEW n \in Nat, SameUpTo(m1, m2, n),
         NEW gn, gn.data \in Nat, gn.lenght \in Nat, gn.lenght >= 4, gn.data + gn.lenght <= n,
         NEW Wrapped, NEW b, b = decodeBTP(m1, gn, Wrapped)
  PROVE  /\ decodeBTP(m2, gn, Wrapped) = b
         /\ b.code = "BTP_OK" => Field(m1, b.data, b.lenght) = Field(m2, b.data, b.lenght)
<1>1. btpHeader_removeHeader(m1, gn.data) = btpHeader_removeHeader(m2, gn.data)
  <2>1. /\ Word16(m1, gn.data) = Word16(m2, gn.data)
        /\ Word16(m1, gn.data + 2) = Word16(m2, gn.data + 2)
    BY SameWord
  <2> QED
    BY <2>1 DEF btpHeader_removeHeader
<1>2. decodeBTP(m2, gn, Wrapped) = b
  BY <1>1 DEF decodeBTP
<1>3. ASSUME b.code = "BTP_OK" PROVE Field(m1, b.data, b.lenght) = Field(m2, b.data, b.lenght)
  <2>1. b.data = gn.data + 4 /\ b.lenght = gn.lenght - 4
    BY <1>3 DEF decodeBTP, BTPError
  <2>2. b.data \in Nat /\ b.lenght \in Nat /\ b.data + b.lenght <= n
    BY <2>1
  <2> QED
    BY <2>2, SameField
<1> QED
  BY <1>2, <1>3

\* The headers of a packet and the payload they announce are the same in two memories that hold
\* the same packet, whatever earlier datagrams have left behind it in msgbuf, if the length the
\* packet gives is within what was received.
THEOREM StaleIgnored ==
  ASSUME NEW m1, NEW m2, NEW n \in Nat, n >= 44, SameUpTo(m1, m2, n), NEW Wrapped,
         NEW gn, gn = decodeGN(m1),
         gn.code = "GN_OK" => gn.lenght \in Nat /\ gn.lenght >= 4 /\ gn.data + gn.lenght <= n
  PROVE  /\ decodeGN(m2) = gn
         /\ gn.code = "GN_OK" =>
               LET b == decodeBTP(m1, gn, Wrapped)
               IN  /\ decodeBTP(m2, gn, Wrapped) = b
                   /\ b.code = "BTP_OK" => Field(m1, b.data, b.lenght) = Field(m2, b.data, b.lenght)
<1>1. gn.code = "GN_OK" => gn.data = IF High4(Octet(m1, 5)) = GBC THEN 56 ELSE 40
  BY Accepted
<1>2. commonHeader_removeHeader(m1, 4).headerType = High4(Octet(m1, 5))
  BY DEF commonHeader_removeHeader
<1>3. decodeGN(m1).code = "GN_OK" /\ commonHeader_removeHeader(m1, 4).headerType = GBC => n >= 54
  BY <1>1, <1>2
<1>4. decodeGN(m2) = gn
  BY <1>3, SameHeaders
<1>5. ASSUME gn.code = "GN_OK"
      PROVE  LET b == decodeBTP(m1, gn, Wrapped)
             IN  /\ decodeBTP(m2, gn, Wrapped) = b
                 /\ b.code = "BTP_OK" => Field(m1, b.data, b.lenght) = Field(m2, b.data, b.lenght)
  <2>1. gn.data \in Nat
    BY <1>1, <1>5
  <2> QED
    BY <1>5, <2>1, SamePayload
<1> QED
  BY <1>4, <1>5

-----------------------------------------------------------------------------
(* What is read from a packet                                              *)

\* One sequence behind another.
Cat(s, t) == s \o t

LEMMA CatParts ==
  ASSUME NEW s \in Seq(Int), NEW t \in Seq(Int)
  PROVE  /\ Cat(s, t) \in Seq(Int)
         /\ Len(Cat(s, t)) = Len(s) + Len(t)
         /\ \A i \in 1 .. Len(s) : Cat(s, t)[i] = s[i]
         /\ \A i \in 1 .. Len(t) : Cat(s, t)[Len(s) + i] = t[i]
<1>1. Cat(s, t) \in Seq(Int) /\ Len(Cat(s, t)) = Len(s) + Len(t)
  BY DEF Cat
<1>2. ASSUME NEW i \in 1 .. Len(s) PROVE Cat(s, t)[i] = s[i]
  BY DEF Cat
<1>3. ASSUME NEW i \in 1 .. Len(t) PROVE Cat(s, t)[Len(s) + i] = t[i]
  BY DEF Cat
<1> QED
  BY <1>1, <1>2, <1>3

LEMMA SeqLen ==
  ASSUME NEW s \in Seq(Int)
  PROVE  Len(s) \in Nat
OBVIOUS

LEMMA SubSeqParts ==
  ASSUME NEW s, NEW m \in Int, NEW n \in Int, \A i \in m .. n : s[i] \in Int
  PROVE  /\ SubSeq(s, m, n) \in Seq(Int)
         /\ Len(SubSeq(s, m, n)) = IF m <= n THEN n - m + 1 ELSE 0
         /\ \A i \in 1 .. n - m + 1 : SubSeq(s, m, n)[i] = s[m + i - 1]
OBVIOUS

\* Numbers are at the offsets of a field.
Written(m, at, size) == \A i \in 1 .. size : m[at + i] \in Int

\* A field is the octets at its offset, in their order.
LEMMA FieldProperties ==
  ASSUME NEW m, NEW at \in Nat, NEW size \in Nat, Written(m, at, size)
  PROVE  /\ Field(m, at, size) \in Seq(Int)
         /\ Len(Field(m, at, size)) = size
         /\ \A i \in 1 .. size : Field(m, at, size)[i] = m[at + i]
<1> DEFINE first == at + 1
           last  == at + size
<1>1. Field(m, at, size) = SubSeq(m, first, last)
  BY DEF Field
<1>2. first \in Int /\ last \in Int /\ \A i \in first .. last : m[i] \in Int
  <2>1. ASSUME NEW i \in first .. last PROVE m[i] \in Int
    <3>1. i - at \in 1 .. size /\ at + (i - at) = i
      OBVIOUS
    <3>2. m[at + (i - at)] \in Int
      BY <3>1 DEF Written
    <3> QED
      BY <3>1, <3>2
  <2> QED
    BY <2>1
<1>3. /\ size = last - first + 1 /\ \A i \in 1 .. size : first + i - 1 = at + i
      /\ size = IF first <= last THEN last - first + 1 ELSE 0
  OBVIOUS
<1> HIDE DEF first, last
<1>4. /\ SubSeq(m, first, last) \in Seq(Int)
      /\ Len(SubSeq(m, first, last)) = IF first <= last THEN last - first + 1 ELSE 0
      /\ \A i \in 1 .. last - first + 1 : SubSeq(m, first, last)[i] = m[first + i - 1]
  BY <1>2, SubSeqParts, Zenon
<1>5. \A i \in 1 .. size : Field(m, at, size)[i] = m[at + i]
  BY <1>1, <1>3, <1>4
<1>6. Field(m, at, size) \in Seq(Int) /\ Len(Field(m, at, size)) = size
  BY <1>1, <1>3, <1>4, Zenon
<1> QED
  BY <1>5, <1>6

\* The same n numbers are in two memories, at their offsets.
Agree(m1, at1, m2, at2, n) == \A i \in 1 .. n : m1[at1 + i] = m2[at2 + i]

LEMMA FieldsAgree ==
  ASSUME NEW m1, NEW at1 \in Nat, NEW m2, NEW at2 \in Nat, NEW size \in Nat,
         Written(m2, at2, size), Agree(m1, at1, m2, at2, size)
  PROVE  Field(m1, at1, size) = Field(m2, at2, size)
<1>1. Written(m1, at1, size)
  BY DEF Written, Agree
<1>2. PICK f : f = Field(m1, at1, size)
  OBVIOUS
<1>3. PICK g : g = Field(m2, at2, size)
  OBVIOUS
<1>4. f \in Seq(Int) /\ Len(f) = size /\ \A i \in 1 .. size : f[i] = m1[at1 + i]
  BY <1>1, <1>2, FieldProperties
<1>5. g \in Seq(Int) /\ Len(g) = size /\ \A i \in 1 .. size : g[i] = m2[at2 + i]
  BY <1>3, FieldProperties
<1>6. \A i \in 1 .. Len(f) : f[i] = g[i]
  BY <1>4, <1>5 DEF Agree
<1>7. f = g
  BY <1>4, <1>5, <1>6, SeqEqual
<1> QED
  BY <1>2, <1>3, <1>7

\* From its offset on, m holds the n numbers of s.
Part(m, at, s, n) == s \in Seq(Int) /\ Len(s) = n /\ Agree(m, at, s, 0, n)

LEMMA InPart ==
  ASSUME NEW m, NEW s, NEW at \in Nat, NEW n \in Nat, Part(m, at, s, n),
         NEW j \in Nat, NEW i \in Nat, i > 0, j + i <= n, NEW q, q = at + j
  PROVE  m[q + i] = s[j + i] /\ s[j + i] \in Int
<1>1. PICK x \in 1 .. n : x = j + i
  OBVIOUS
<1>2. m[at + x] = s[0 + x] /\ 0 + x = x /\ s[x] \in Int
  BY DEF Part, Agree
<1>3. q + i = at + x
  BY <1>1
<1> QED
  BY <1>1, <1>2, <1>3

\* A field that lies within a part of the memory is the same field of that part.
LEMMA FieldOfPart ==
  ASSUME NEW m, NEW s, NEW at \in Nat, NEW n \in Nat, Part(m, at, s, n),
         NEW j \in Nat, NEW size \in Nat, j + size <= n, NEW q \in Nat, q = at + j
  PROVE  Field(m, q, size) = Field(s, j, size)
<1>1. ASSUME NEW i \in 1 .. size PROVE m[q + i] = s[j + i] /\ s[j + i] \in Int
  <2>1. PICK x \in 1 .. n : x = j + i
    OBVIOUS
  <2>2. m[at + x] = s[0 + x] /\ 0 + x = x /\ s[x] \in Int
    BY DEF Part, Agree
  <2>3. q + i = at + x
    BY <2>1
  <2> QED
    BY <2>1, <2>2, <2>3
<1>2. Agree(m, q, s, j, size)
  BY <1>1 DEF Agree
<1>3. Written(s, j, size)
  BY <1>1 DEF Written
<1> QED
  BY <1>2, <1>3, FieldsAgree

LEMMA StartOfPart ==
  ASSUME NEW m, NEW s, NEW at \in Nat, NEW n \in Nat, Part(m, at, s, n),
         NEW size \in Nat, size <= n
  PROVE  Field(m, at, size) = Field(s, 0, size)
<1>1. Agree(m, at, s, 0, size)
  BY DEF Part, Agree
<1>2. Written(s, 0, size)
  BY DEF Part, Written
<1> QED
  BY <1>1, <1>2, FieldsAgree

LEMMA WordOfPart ==
  ASSUME NEW m, NEW s, NEW at \in Nat, NEW n \in Nat, Part(m, at, s, n),
         NEW j \in Nat, j + 2 <= n, NEW q \in Nat, q = at + j
  PROVE  Word16(m, q) = Word16(s, j)
<1>1. m[q + 1] = s[j + 1]
  BY InPart
<1>2. m[q + 2] = s[j + 2]
  BY InPart
<1> QED
  BY <1>1, <1>2 DEF Word16

\* The field that is the whole of a part.
LEMMA WholeField ==
  ASSUME NEW m, NEW at \in Nat, NEW s \in Seq(Int), NEW n \in Nat, n = Len(s),
         Agree(m, at, s, 0, n)
  PROVE  Field(m, at, n) = s
<1>1. Written(s, 0, n)
  BY DEF Written
<1>2. Field(m, at, n) = Field(s, 0, n)
  BY <1>1, FieldsAgree
<1>3. PICK f : f = Field(s, 0, n)
  OBVIOUS
<1>4. f \in Seq(Int) /\ Len(f) = n /\ \A i \in 1 .. n : f[i] = s[0 + i]
  BY <1>1, <1>3, FieldProperties
<1>5. f = s
  BY <1>4, SeqEqual
<1> QED
  BY <1>2, <1>3, <1>5

\* A part of a part is a part.
LEMMA Within ==
  ASSUME NEW m, NEW p, NEW n \in Nat, Agree(m, 0, p, 0, n),
         NEW off \in Nat, NEW s, NEW k \in Nat, Agree(p, off, s, 0, k), off + k <= n
  PROVE  Agree(m, off, s, 0, k)
<1>1. ASSUME NEW i \in 1 .. k PROVE m[off + i] = s[0 + i]
  <2>1. PICK x \in 1 .. n : x = off + i
    OBVIOUS
  <2>2. m[0 + x] = p[0 + x] /\ p[off + i] = s[0 + i]
    BY DEF Agree
  <2> QED
    BY <2>1, <2>2
<1> QED
  BY <1>1 DEF Agree

\* p is s, t and r behind each other, of a, b and c octets.
Joins(p, n, s, a, t, b, r, c) ==
  /\ s \in Seq(Int) /\ Len(s) = a /\ a \in Nat
  /\ t \in Seq(Int) /\ Len(t) = b /\ b \in Nat
  /\ r \in Seq(Int) /\ Len(r) = c /\ c \in Nat
  /\ p = Cat(Cat(s, t), r) /\ n = a + b + c

LEMMA ThreeParts ==
  ASSUME NEW p, NEW n, NEW s, NEW a \in Nat, NEW t, NEW b \in Nat, NEW r, NEW c \in Nat,
         Joins(p, n, s, a, t, b, r, c)
  PROVE  /\ p \in Seq(Int) /\ Len(p) = n
         /\ Agree(p, 0, s, 0, a)
         /\ Agree(p, a, t, 0, b)
         /\ Agree(p, a + b, r, 0, c)
<1>0. /\ s \in Seq(Int) /\ Len(s) = a /\ a \in Nat
      /\ t \in Seq(Int) /\ Len(t) = b /\ b \in Nat
      /\ r \in Seq(Int) /\ Len(r) = c /\ c \in Nat
      /\ p = Cat(Cat(s, t), r) /\ n = a + b + c
  BY DEF Joins
<1>1. PICK u : u = Cat(s, t)
  OBVIOUS
<1>2. /\ u \in Seq(Int)
      /\ Len(u) = a + b
      /\ \A i \in 1 .. a : u[i] = s[i]
      /\ \A i \in 1 .. b : u[a + i] = t[i]
  <2>1. /\ Cat(s, t) \in Seq(Int)
        /\ Len(Cat(s, t)) = Len(s) + Len(t)
        /\ \A i \in 1 .. Len(s) : Cat(s, t)[i] = s[i]
        /\ \A i \in 1 .. Len(t) : Cat(s, t)[Len(s) + i] = t[i]
    BY <1>0, CatParts, Zenon
  <2> QED
    BY <1>0, <1>1, <2>1
<1>3. /\ p \in Seq(Int)
      /\ Len(p) = a + b + c
      /\ \A i \in 1 .. a + b : p[i] = u[i]
      /\ \A i \in 1 .. c : p[a + b + i] = r[i]
  <2>1. /\ Cat(u, r) \in Seq(Int)
        /\ Len(Cat(u, r)) = Len(u) + Len(r)
        /\ \A i \in 1 .. Len(u) : Cat(u, r)[i] = u[i]
        /\ \A i \in 1 .. Len(r) : Cat(u, r)[Len(u) + i] = r[i]
    BY <1>0, <1>2, CatParts, Zenon
  <2> QED
    BY <1>0, <1>1, <1>2, <2>1
<1>4. Agree(p, 0, s, 0, a)
  <2>1. ASSUME NEW i \in 1 .. a PROVE p[0 + i] = s[0 + i]
    <3>1. i \in 1 .. a + b /\ 0 + i = i
      BY <1>0
    <3> QED
      BY <1>2, <1>3, <3>1
  <2> QED
    BY <2>1 DEF Agree
<1>5. ASSUME NEW i \in 1 .. b PROVE p[a + i] = t[i]
  <2>1. a + i \in 1 .. a + b
    BY <1>0
  <2> QED
    BY <1>2, <1>3, <2>1
<1>6. Agree(p, a, t, 0, b)
  BY <1>0, <1>5 DEF Agree
<1>7. Agree(p, a + b, r, 0, c)
  BY <1>0, <1>3 DEF Agree
<1> QED
  BY <1>0, <1>3, <1>4, <1>6, <1>7

\* The first twelve octets of a packet: the basic and the common header.
LEMMA CommonOctets ==
  ASSUME NEW ht \in Nat, NEW hops \in Nat, NEW btp \in Nat, NEW size \in Nat
  PROVE  LET c == Common(ht, hops, btp, size)
         IN  /\ c[1] = 17 /\ c[4] = hops /\ c[5] = 16 * btp /\ c[6] = 16 * ht
             /\ c[9] = size \div 256 /\ c[10] = size % 256 /\ c[11] = hops
BY DEF Common

LEMMA CommonLength ==
  ASSUME NEW ht \in Nat, NEW hops \in Nat, NEW btp \in Nat, NEW size \in Nat
  PROVE  Common(ht, hops, btp, size) \in Seq(Int) /\ Len(Common(ht, hops, btp, size)) = 12
<1>1. size \div 256 \in Int /\ size % 256 \in Int /\ 16 * btp \in Int /\ 16 * ht \in Int
  OBVIOUS
<1> QED
  BY <1>1 DEF Common

\* A station's two header types: what they are and where their parts are.
LEMMA HeadersSHB ==
  ASSUME NEW btp \in Nat, NEW size \in Nat, NEW vector \in Seq(Int), Len(vector) = 24, NEW area,
         NEW h, h = GNHeaders("SHB", btp, size, vector, area)
  PROVE  /\ h \in Seq(Int) /\ Len(h) = 40
         /\ Agree(h, 0, Common(TSB, 1, btp, size), 0, 12)
         /\ Agree(h, 12, vector, 0, 24)
<1>1. PICK c : c = Common(TSB, 1, btp, size)
  OBVIOUS
<1>2. c \in Seq(Int) /\ Len(c) = 12
  <2>1. TSB \in Nat /\ 1 \in Nat
    BY DEF TSB
  <2> QED
    BY <1>1, <2>1, CommonLength
<1>3. PICK z : z = <<0, 0, 0, 0>>
  OBVIOUS
<1>4. z \in Seq(Int) /\ Len(z) = 4
  BY <1>3
<1>5. h = Cat(Cat(c, vector), z)
  BY <1>1, <1>3, Zenon DEF GNHeaders, Common, Cat
<1>6. h \in Seq(Int) /\ Len(h) = 40 /\ Agree(h, 0, c, 0, 12) /\ Agree(h, 12, vector, 0, 24)
  <2>1. Joins(h, 40, c, 12, vector, 24, z, 4)
    BY <1>2, <1>4, <1>5 DEF Joins
  <2>2. h \in Seq(Int) /\ Agree(h, 0, c, 0, 12) /\ Agree(h, 12, vector, 0, 24)
    BY <2>1, ThreeParts
  <2>3. Len(h) = 40
    BY <2>1, ThreeParts, Zenon
  <2> QED
    BY <2>2, <2>3
<1> QED
  BY <1>1, <1>6

LEMMA HeadersGBC ==
  ASSUME NEW btp \in Nat, NEW size \in Nat, NEW vector \in Seq(Int), Len(vector) = 24,
         NEW area \in Seq(Int), Len(area) = 14,
         NEW h, h = GNHeaders("GBC", btp, size, vector, area)
  PROVE  /\ h \in Seq(Int) /\ Len(h) = 56
         /\ Agree(h, 0, Common(GBC, 3, btp, size), 0, 12)
         /\ Agree(h, 16, vector, 0, 24)
         /\ Agree(h, 40, area, 0, 14)
<1>1. PICK c : c = Common(GBC, 3, btp, size)
  OBVIOUS
<1>2. c \in Seq(Int) /\ Len(c) = 12
  <2>1. PICK ht \in Nat, hops \in Nat : ht = GBC /\ hops = 3
    BY DEF GBC
  <2>2. c = Common(ht, hops, btp, size)
    BY <1>1, <2>1
  <2> QED
    BY <2>2, CommonLength, SMTT(20)
<1>3. PICK y, z : y = <<0, 1, 0, 0>> /\ z = <<0, 0>>
  OBVIOUS
<1>4. y \in Seq(Int) /\ Len(y) = 4 /\ z \in Seq(Int) /\ Len(z) = 2
  BY <1>3
<1>5. PICK u : u = Cat(Cat(c, y), vector)
  OBVIOUS
<1>6. /\ u \in Seq(Int) /\ Len(u) = 40
      /\ Agree(u, 0, c, 0, 12) /\ Agree(u, 12 + 4, vector, 0, 24)
  <2>1. Joins(u, 40, c, 12, y, 4, vector, 24)
    BY <1>2, <1>4, <1>5 DEF Joins
  <2>2. u \in Seq(Int) /\ Agree(u, 0, c, 0, 12) /\ Agree(u, 12 + 4, vector, 0, 24)
    BY <2>1, ThreeParts
  <2>3. Len(u) = 40
    BY <2>1, ThreeParts
  <2> QED
    BY <2>2, <2>3
<1>7. h = Cat(Cat(u, area), z)
  BY <1>1, <1>3, <1>5, Zenon DEF GNHeaders, Common, Cat
<1>8. /\ h \in Seq(Int) /\ Len(h) = 56
      /\ Agree(h, 0, u, 0, 40) /\ Agree(h, 40, area, 0, 14)
  <2>1. Len(u) = 40
    BY <1>6
  <2>2. Joins(h, 56, u, 40, area, 14, z, 2)
    BY <1>4, <1>6, <1>7, <2>1 DEF Joins
  <2>3. h \in Seq(Int) /\ Agree(h, 0, u, 0, 40) /\ Agree(h, 40, area, 0, 14)
    BY <2>2, ThreeParts
  <2>4. Len(h) = 56
    BY <2>2, ThreeParts
  <2> QED
    BY <2>3, <2>4
<1>9. Agree(h, 0, c, 0, 12) /\ Agree(h, 16, vector, 0, 24)
  <2>1. Agree(h, 0, u, 0, 40) /\ Agree(u, 0, c, 0, 12) /\ Agree(u, 16, vector, 0, 24)
    BY <1>6, <1>8
  <2>2. /\ 0 \in Nat /\ 12 \in Nat /\ 16 \in Nat /\ 24 \in Nat /\ 40 \in Nat
        /\ 0 + 12 <= 40 /\ 16 + 24 <= 40
    OBVIOUS
  <2>3. Agree(h, 0, c, 0, 12)
    BY <2>1, <2>2, Within
  <2>4. Agree(h, 16, vector, 0, 24)
    BY <2>1, <2>2, Within
  <2> QED
    BY <2>3, <2>4
<1> QED
  BY <1>1, <1>8, <1>9

ReadAs(m, ht, btp, size) ==
  /\ decodeGN(m).code = "GN_OK"
  /\ High4(Octet(m, 4)) = btp
  /\ High4(Octet(m, 5)) = ht
  /\ Word16(m, 8) = size

\* The first twelve octets are read as they were written: the packet is accepted.
LEMMA CommonIsRead ==
  ASSUME NEW m, NEW ht \in {TSB, GBC}, NEW hops \in Nat, NEW btp \in 0 .. 15, NEW size \in Nat,
         Agree(m, 0, Common(ht, hops, btp, size), 0, 12)
  PROVE  ReadAs(m, ht, btp, size)
<1>1. PICK c : c = Common(ht, hops, btp, size)
  OBVIOUS
<1>2. /\ c[1] = 17 /\ c[4] = hops /\ c[5] = 16 * btp /\ c[6] = 16 * ht
      /\ c[9] = size \div 256 /\ c[10] = size % 256 /\ c[11] = hops
  <2>1. ht \in Nat /\ btp \in Nat
    BY DEF TSB, GBC
  <2>2. LET d == Common(ht, hops, btp, size)
        IN  /\ d[1] = 17 /\ d[4] = hops /\ d[5] = 16 * btp /\ d[6] = 16 * ht
            /\ d[9] = size \div 256 /\ d[10] = size % 256 /\ d[11] = hops
    BY <2>1, CommonOctets
  <2> QED
    BY <1>1, <2>2
<1>3. \A i \in 1 .. 12 : m[i] = c[i]
  BY <1>1 DEF Agree
<1>4. /\ m[1] = 17 /\ m[4] = hops /\ m[5] = 16 * btp /\ m[6] = 16 * ht
      /\ m[9] = size \div 256 /\ m[10] = size % 256 /\ m[11] = hops
  BY <1>2, <1>3
<1>5. Word16(m, 8) = size
  BY <1>4 DEF Word16
<1>6. High4(Octet(m, 4)) = btp
  BY <1>4 DEF High4, Octet
<1>7. High4(Octet(m, 5)) = ht /\ Low4(Octet(m, 5)) = 0
  BY <1>4 DEF High4, Low4, Octet, TSB, GBC
<1>8. LET b == basicHeader_removeHeader(m, 0)
      IN  b.version = 1 /\ b.nextHeader = 1 /\ b.remainingHopLimit = hops
  BY <1>4 DEF basicHeader_removeHeader, High4, Low4, Octet
<1>9. LET c4 == commonHeader_removeHeader(m, 4)
      IN  c4.headerType = ht /\ c4.headerSubType = 0 /\ c4.maxHopLimit = hops
  BY <1>4, <1>7 DEF commonHeader_removeHeader, Octet
<1>10. decodeGN(m).code = "GN_OK"
  BY <1>8, <1>9 DEF decodeGN, TSB, GBC
<1> QED
  BY <1>5, <1>6, <1>7, <1>10 DEF ReadAs

\* The 16 bits of the common header can say the size of the payload with its BTP header.
PayloadFits(payload) == Len(payload) + 4 < 65536

\* Where the parts of a packet are.
HeaderLength(layer) == IF layer = "GBC" THEN 56 ELSE 40
VectorOffset(layer) == IF layer = "GBC" THEN 16 ELSE 12
Transport(layer)    == IF layer = "GBC" THEN GBC ELSE TSB
HopLimit(layer)     == IF layer = "GBC" THEN 3 ELSE 1

\* p begins with the octets of a packet whose payload has n octets.
Laid(p, layer, btp, port, vector, area, payload, n) ==
  /\ Agree(p, 0, Common(Transport(layer), HopLimit(layer), btp, n + 4), 0, 12)
  /\ Agree(p, VectorOffset(layer), vector, 0, 24)
  /\ layer = "GBC" => Agree(p, 40, area, 0, 14)
  /\ Word16(p, HeaderLength(layer)) = port
  /\ Agree(p, HeaderLength(layer) + 4, payload, 0, n)

LEMMA PacketParts ==
  ASSUME NEW layer \in {"SHB", "GBC"}, NEW btp \in {BTP_A, BTP_B}, NEW port \in {CA_PORT, DEN_PORT},
         NEW vector \in Seq(Int), Len(vector) = 24, NEW area \in Seq(Int), Len(area) = 14,
         NEW payload \in Seq(Int), NEW n \in Nat, n = Len(payload),
         NEW p, p = Packet(layer, btp, port, vector, area, payload),
         NEW m, SameUpTo(p, m, Len(p))
  PROVE  /\ p \in Seq(Int) /\ Len(p) = HeaderLength(layer) + 4 + n
         /\ Laid(m, layer, btp, port, vector, area, payload, n)
<1>1. PICK size \in Nat : size = n + 4
  OBVIOUS
<1>2. PICK h : h = GNHeaders(layer, btp, size, vector, area)
  OBVIOUS
<1>3. PICK bh : bh = <<port \div 256, port % 256, 0, 0>>
  OBVIOUS
<1>4. /\ bh \in Seq(Int) /\ Len(bh) = 4
      /\ bh[1] = port \div 256 /\ bh[2] = port % 256
  BY <1>3 DEF CA_PORT, DEN_PORT
<1>5. p = Cat(Cat(h, bh), payload)
  <2>1. p = GNHeaders(layer, btp, Len(payload) + 4, vector, area)
              \o <<port \div 256, port % 256, 0, 0>> \o payload
    BY Zenon DEF Packet
  <2> QED
    BY <1>1, <1>2, <1>3, <2>1, Zenon DEF Cat
<1>6. btp \in Nat /\ btp \in 0 .. 15
  BY DEF BTP_A, BTP_B
<1>7. PICK k \in {40, 56}, ht \in {TSB, GBC}, hops \in Nat, at \in {12, 16} :
         /\ k = HeaderLength(layer) /\ at = VectorOffset(layer)
         /\ ht = Transport(layer) /\ hops = HopLimit(layer)
         /\ h \in Seq(Int) /\ Len(h) = k
         /\ Agree(h, 0, Common(ht, hops, btp, size), 0, 12)
         /\ Agree(h, at, vector, 0, 24)
         /\ layer = "GBC" => Agree(h, 40, area, 0, 14)
  <2>1. CASE layer = "SHB"
    <3>1. h = GNHeaders("SHB", btp, size, vector, area)
      BY <1>2, <2>1
    <3>2. /\ h \in Seq(Int) /\ Len(h) = 40
          /\ Agree(h, 0, Common(TSB, 1, btp, size), 0, 12)
          /\ Agree(h, 12, vector, 0, 24)
      BY <1>6, <3>1, HeadersSHB
    <3> QED
      BY <2>1, <3>2 DEF HeaderLength, VectorOffset, Transport, HopLimit
  <2>2. CASE layer = "GBC"
    <3>1. h = GNHeaders("GBC", btp, size, vector, area)
      BY <1>2, <2>2
    <3>2. /\ h \in Seq(Int) /\ Len(h) = 56
          /\ Agree(h, 0, Common(GBC, 3, btp, size), 0, 12)
          /\ Agree(h, 16, vector, 0, 24)
          /\ Agree(h, 40, area, 0, 14)
      BY <1>6, <3>1, HeadersGBC
    <3> QED
      BY <2>2, <3>2 DEF HeaderLength, VectorOffset, Transport, HopLimit
  <2> QED
    BY <2>1, <2>2
<1>8. PICK total \in Nat : total = k + 4 + n
  OBVIOUS
<1>9. /\ p \in Seq(Int) /\ Len(p) = total
      /\ Agree(p, 0, h, 0, k) /\ Agree(p, k, bh, 0, 4) /\ Agree(p, k + 4, payload, 0, n)
  <2>1. Joins(p, total, h, k, bh, 4, payload, n)
    BY <1>1, <1>4, <1>5, <1>7, <1>8 DEF Joins
  <2>2. k \in Nat
    OBVIOUS
  <2>3. p \in Seq(Int) /\ Len(p) = total
    <3>1. p \in Seq(Int)
      BY <2>1, <2>2, ThreeParts
    <3>2. Len(p) = total
      BY <2>1, <2>2, ThreeParts
    <3> QED
      BY <3>1, <3>2
  <2>4. Agree(p, 0, h, 0, k)
    BY <2>1, <2>2, ThreeParts
  <2>6. Agree(p, k, bh, 0, 4)
    BY <2>1, <2>2, ThreeParts
  <2>5. Agree(p, k + 4, payload, 0, n)
    BY <2>1, <2>2, ThreeParts, Zenon
  <2> QED
    BY <2>3, <2>4, <2>5, <2>6
<1>10. Agree(m, 0, p, 0, total)
  BY <1>9 DEF Agree, SameUpTo
<1>11. /\ Agree(m, k, bh, 0, 4) /\ Agree(m, k + 4, payload, 0, n)
       /\ Agree(m, 0, Common(ht, hops, btp, size), 0, 12)
       /\ Agree(m, at, vector, 0, 24)
       /\ layer = "GBC" => Agree(m, 40, area, 0, 14)
  <2>1. PICK q \in Nat : q = k + 4
    OBVIOUS
  <2>2. /\ k \in Nat /\ at \in Nat /\ 0 + k <= total /\ k + 4 <= total
        /\ q + n <= total /\ 0 + 12 <= k /\ at + 24 <= k
    BY <1>7, <1>8, <2>1 DEF VectorOffset, HeaderLength
  <2>3. Agree(m, 0, h, 0, k)
    BY <1>9, <1>10, <2>2, Within
  <2>4. Agree(m, k, bh, 0, 4)
    BY <1>9, <1>10, <2>2, Within
  <2>5. Agree(m, q, payload, 0, n)
    BY <1>9, <1>10, <2>1, <2>2, Within
  <2>6. Agree(m, 0, Common(ht, hops, btp, size), 0, 12)
    BY <1>7, <2>2, <2>3, Within, SMTT(20)
  <2>7. Agree(m, at, vector, 0, 24)
    BY <1>7, <2>2, <2>3, Within, SMTT(20)
  <2>8. layer = "GBC" => Agree(m, 40, area, 0, 14)
    <3>1. layer = "GBC" => 40 + 14 <= k
      BY <1>7 DEF HeaderLength
    <3> QED
      BY <1>7, <2>2, <2>3, <3>1, Within, SMTT(20)
  <2> QED
    BY <2>1, <2>4, <2>5, <2>6, <2>7, <2>8
<1>12. Word16(m, k) = port
  <2>1. m[k + 1] = bh[1] /\ m[k + 2] = bh[2]
    BY <1>11 DEF Agree
  <2> QED
    BY <1>4, <2>1 DEF Word16, CA_PORT, DEN_PORT
<1>13. Laid(m, layer, btp, port, vector, area, payload, n)
  BY <1>1, <1>7, <1>11, <1>12 DEF Laid
<1> QED
  BY <1>7, <1>8, <1>9, <1>13

\* The payload BTP announces ends behind n octets.
EndsAt(b, n) == b.data \in Nat /\ b.lenght \in Nat /\ b.data + b.lenght = n

\* A packet as a station sends it, in a memory that goes on behind it: its headers are removed,
\* all of them and nothing else.  The long position vector, the destination port and the payload
\* decodeGN and decodeBTP find are the ones that were sent, for payloads of any length the
\* 16 bits of the common header can say.
THEOREM PacketIsRead ==
  ASSUME NEW layer \in {"SHB", "GBC"}, NEW btp \in {BTP_A, BTP_B}, NEW port \in {CA_PORT, DEN_PORT},
         NEW vector \in Seq(Int), Len(vector) = 24, NEW area \in Seq(Int), Len(area) = 14,
         NEW payload \in Seq(Int), PayloadFits(payload),
         NEW p, p = Packet(layer, btp, port, vector, area, payload),
         NEW m, SameUpTo(p, m, Len(p)), NEW Wrapped,
         NEW gn, gn = decodeGN(m), NEW b, b = decodeBTP(m, gn, Wrapped)
  PROVE  /\ gn.code = "GN_OK"
         /\ gn.SourcePV = LongPositionVector(vector, 0)
         /\ layer = "GBC" => /\ gn.GnAddressDest.posLat = Field(area, 0, 4)
                             /\ gn.GnAddressDest.posLong = Field(area, 4, 4)
                             /\ gn.GnAddressDest.distA = Word16(area, 8)
                             /\ gn.GnAddressDest.distB = Word16(area, 10)
                             /\ gn.GnAddressDest.angle = Word16(area, 12)
         /\ b.code = "BTP_OK"
         /\ b.destPort = port
         /\ EndsAt(b, Len(p))
         /\ Field(m, b.data, b.lenght) = payload
<1>1. PICK n \in Nat, size \in Nat : n = Len(payload) /\ size = n + 4
  BY SeqLen
<1>2. Len(p) = HeaderLength(layer) + 4 + n /\ Laid(m, layer, btp, port, vector, area, payload, n)
  BY <1>1, PacketParts
<1>6. btp \in Nat /\ btp \in 0 .. 15
  BY DEF BTP_A, BTP_B
<1>7. PICK k \in {40, 56}, ht \in {TSB, GBC}, hops \in Nat, at \in {12, 16} :
         /\ k = IF layer = "GBC" THEN 56 ELSE 40
         /\ at = IF layer = "GBC" THEN 16 ELSE 12
         /\ ht = IF layer = "GBC" THEN GBC ELSE TSB
         /\ k = HeaderLength(layer) /\ at = VectorOffset(layer)
         /\ ht = Transport(layer) /\ hops = HopLimit(layer)
  BY DEF HeaderLength, VectorOffset, Transport, HopLimit
<1>11. /\ Agree(m, k + 4, payload, 0, n)
       /\ Agree(m, 0, Common(ht, hops, btp, size), 0, 12)
       /\ Agree(m, at, vector, 0, 24)
       /\ layer = "GBC" => Agree(m, 40, area, 0, 14)
       /\ Word16(m, k) = port
  BY <1>1, <1>2, <1>7 DEF Laid
<1>12. /\ gn.code = "GN_OK" /\ High4(Octet(m, 4)) = btp /\ High4(Octet(m, 5)) = ht
       /\ Word16(m, 8) = size
  <2>1. ReadAs(m, ht, btp, size)
    BY <1>6, <1>11, CommonIsRead
  <2> QED
    BY <2>1 DEF ReadAs
<1>13. /\ gn.lenght = size /\ gn.upperProtocol = btp /\ gn.data = k
       /\ gn.SourcePV = LongPositionVector(m, at)
       /\ layer = "GBC" => gn.GnAddressDest = gbcHeader_GetGeoArea(m, 12)
  <2>1. (ht = GBC) = (layer = "GBC")
    BY <1>7 DEF GBC, TSB
  <2> QED
    BY <1>7, <1>12, <2>1, Accepted
<1>14. LongPositionVector(m, at) = LongPositionVector(vector, 0)
  <2>1. Part(m, at, vector, 24)
    BY <1>11 DEF Part
  <2>2. PICK q8 \in Nat, q12 \in Nat, q16 \in Nat, q20 \in Nat, q22 \in Nat :
           q8 = at + 8 /\ q12 = at + 12 /\ q16 = at + 16 /\ q20 = at + 20 /\ q22 = at + 22
    OBVIOUS
  <2>3. at \in Nat /\ at = at + 0
    OBVIOUS
  <2>4. Field(m, at, 8) = Field(vector, 0, 8)
    BY <2>1, <2>3, StartOfPart
  <2>5. Field(m, q8, 4) = Field(vector, 8, 4)
    BY <2>1, <2>2, <2>3, FieldOfPart
  <2>6. Field(m, q12, 4) = Field(vector, 12, 4)
    BY <2>1, <2>2, <2>3, FieldOfPart
  <2>7. Field(m, q16, 4) = Field(vector, 16, 4)
    BY <2>1, <2>2, <2>3, FieldOfPart
  <2>8. Word16(m, q20) = Word16(vector, 20)
    BY <2>1, <2>2, <2>3, WordOfPart
  <2>9. Word16(m, q22) = Word16(vector, 22)
    BY <2>1, <2>2, <2>3, WordOfPart
  <2> QED
    BY <2>2, <2>4, <2>5, <2>6, <2>7, <2>8, <2>9 DEF LongPositionVector
<1>15. layer = "GBC" =>
          LET d == gbcHeader_GetGeoArea(m, 12)
          IN  /\ d.posLat = Field(area, 0, 4) /\ d.posLong = Field(area, 4, 4)
              /\ d.distA = Word16(area, 8) /\ d.distB = Word16(area, 10)
              /\ d.angle = Word16(area, 12)
  <2> SUFFICES ASSUME layer = "GBC"
               PROVE  LET d == gbcHeader_GetGeoArea(m, 12)
                      IN  /\ d.posLat = Field(area, 0, 4) /\ d.posLong = Field(area, 4, 4)
                          /\ d.distA = Word16(area, 8) /\ d.distB = Word16(area, 10)
                          /\ d.angle = Word16(area, 12)
    OBVIOUS
  <2>1. PICK at2 \in Nat : at2 = 40
    OBVIOUS
  <2>2. Part(m, at2, area, 14)
    BY <1>11, <2>1 DEF Part
  <2>3. PICK q4 \in Nat, q8 \in Nat, q10 \in Nat, q12 \in Nat :
           q4 = at2 + 4 /\ q8 = at2 + 8 /\ q10 = at2 + 10 /\ q12 = at2 + 12
    OBVIOUS
  <2>5. Field(m, at2, 4) = Field(area, 0, 4)
    BY <2>2, StartOfPart
  <2>6. Field(m, q4, 4) = Field(area, 4, 4)
    BY <2>2, <2>3, FieldOfPart
  <2>7. Word16(m, q8) = Word16(area, 8)
    BY <2>2, <2>3, WordOfPart
  <2>8. Word16(m, q10) = Word16(area, 10)
    BY <2>2, <2>3, WordOfPart
  <2>9. Word16(m, q12) = Word16(area, 12)
    BY <2>2, <2>3, WordOfPart
  <2> QED
    BY <2>1, <2>3, <2>5, <2>6, <2>7, <2>8, <2>9 DEF gbcHeader_GetGeoArea
<1>16. /\ b.code = "BTP_OK" /\ b.destPort = port
       /\ b.data = k + 4 /\ b.lenght = n
  <2> QED
    BY <1>1, <1>11, <1>12, <1>13 DEF decodeBTP, btpHeader_removeHeader
<1>17. Field(m, k + 4, n) = payload
  <2>1. PICK q \in Nat : q = k + 4
    OBVIOUS
  <2>2. Agree(m, q, payload, 0, n)
    BY <1>11, <2>1
  <2>3. Field(m, q, n) = payload
    BY <1>1, <2>2, WholeField
  <2> QED
    BY <2>1, <2>3
<1>18. EndsAt(b, Len(p))
  BY <1>2, <1>7, <1>16 DEF EndsAt
<1> QED
  BY <1>12, <1>13, <1>14, <1>15, <1>16, <1>17, <1>18

-----------------------------------------------------------------------------
(* What the frontend needs of the codec and of the messages for its        *)
(* properties to hold with any other codec: the hypotheses of their        *)
(* proofs.  All but DecodedInRange are finite, and TLC has found them true *)
(* of EtsiCodec.                                                           *)

Gives(r, v) == r.code = "OK" /\ r.val = v

Fits(e) == Len(EncodingOf(e)) <= BufferOctets

(* A decoder gives back what the encoder wrote, and a CAM without lists    *)
(* once more when it is decoded into itself.                               *)
RoundTrip ==
    /\ \A e \in Messages \cup Values : Fits(e) =>
           Gives(Decoded(e.type, <<>>, EncodingOf(e)), Message(e.type, e.kind))
    /\ \A e \in Messages : Fits(e) /\ e.type = "CAM" /\ ~HasLists(Message(e.type, e.kind)) =>
           Gives(Decoded("CAM", <<Message(e.type, e.kind)>>, EncodingOf(e)), Message(e.type, e.kind))

(* Messages begin with their ItsPduHeader: the second octet is messageID.  *)
HeaderFirst ==
    \A e \in Messages :
        Len(EncodingOf(e)) >= 2 /\ EncodingOf(e)[2] = IF e.type = "DENM" THEN 1 ELSE 2

Exposed(e) == e.kind \in FaultKinds /\ e.newer = 0

(* No decoder takes an encoding without its end, or a single octet.        *)
CutRefused ==
    /\ \A e \in Messages \cup Values : Exposed(e) =>
           \A n \in 1 .. Len(EncodingOf(e)) - 1 :
               Decoded(e.type, <<>>, SubSeq(EncodingOf(e), 1, n)).code # "OK"
    /\ \A type \in {"CAM", "DENM"}, octet \in 0 .. 255 :
           Decoded(type, <<>>, <<octet>>).code # "OK"

(* A decoder gives values within the constraints of their types only.      *)
DecodedInRange ==
    \A octets \in Seq(0 .. 255) :
        /\ \A type \in {"CAM", "CAMEnhanced", "DENM"} \cup ValueTypes :
               LET r == Decoded(type, <<>>, octets) IN r.code = "OK" => Satisfying(type, r.val, FALSE)
        /\ LET r == DecodedAgain(Decoded("CAM", <<>>, octets), octets)
           IN  r.code = "OK" => Satisfying("CAM", r.val, FALSE)

(* Octets behind a message do not change what is decoded.                  *)
TrailingIgnored ==
    \A e \in Messages : Exposed(e) =>
        \A stale \in StaleOctets, n \in 0 .. BufferOctets :
            Decoded(e.type, <<>>, EncodingOf(e) \o [i \in 1 .. n |-> stale])
                = Decoded(e.type, <<>>, EncodingOf(e))

(* A message can have the number of a port where it would be that of a     *)
(* packet if other octets were its headers.                                *)
HasPort(octets, at) ==
    /\ at < Len(octets) /\ octets[at + 1] = CA_PORT \div 256
    /\ at + 1 < Len(octets) => octets[at + 2] \in {CA_PORT % 256, DEN_PORT % 256}

PortsApart ==
    \A e \in Messages : Exposed(e) => \A at \in {12, 40, 56} : ~HasPort(EncodingOf(e), at)

-----------------------------------------------------------------------------
(* The inductive invariant                                                 *)

Entry(s) == [type |-> s.type, kind |-> s.kind, newer |-> s.newer]

\* What a station can send: a message with its framing, or a value without one.
Valid(s) ==
    \/ /\ s.framing \in Framings
       /\ Entry(s) \in Messages /\ s.type \in {CAMType, "DENM"}
    \/ /\ s.framing = [layer |-> "none", btp |-> 0]
       /\ Entry(s) \in Values /\ ~m_enhanced_CAMs

SentKnown ==
    /\ m_enhanced_CAMs \in BOOLEAN
    /\ sent = <<>> => frame = <<>> /\ fault = NoFault /\ rc = Unwritten
    /\ sent # <<>> => Valid(sent[1])

\* What the network makes of a datagram: it loses its end, or one octet is another one.
CutFrom(d) ==
    \E n \in 1 .. Len(d) - 1 : fault = [kind |-> "cut", at |-> n] /\ frame = SubSeq(d, 1, n)

FlipOf(d) ==
    \E i \in 1 .. Len(d), octet \in 0 .. 255 :
        fault = [kind |-> "flip", at |-> i] /\ frame = [d EXCEPT ![i] = octet]

Damaged(d) == CutFrom(d) \/ FlipOf(d)

FrameKnown ==
    sent # <<>> =>
        LET d == Datagram(sent[1])
        IN  /\ d \in Seq(0 .. 255) /\ Len(d) <= BufferOctets
            /\ \/ fault = NoFault /\ frame = d
               \/ Exposed(sent[1]) /\ ~m_enhanced_CAMs /\ Damaged(d)

DataKnown == rc = Unwritten => data = NoData

IInv == TypeOK /\ SentKnown /\ FrameKnown /\ DataKnown

-----------------------------------------------------------------------------
LEMMA BufferRange == BufferOctets \in Nat /\ BufferOctets >= 64
BY BufferAssumption

LEMMA StaleRange ==
  ASSUME NEW stale \in StaleOctets
  PROVE  stale \in 0 .. 255
BY BufferAssumption

LEMMA WiderSeq ==
  ASSUME NEW S, NEW T, S \subseteq T, NEW s \in Seq(S)
  PROVE  s \in Seq(T)
<1>1. PICK n \in Nat : n = Len(s)
  BY LenProperties
<1>2. s \in [1 .. n -> S]
  BY <1>1, LenProperties
<1>3. s \in [1 .. n -> T]
  BY <1>2
<1> QED
  BY <1>3

LEMMA OctetSeq ==
  ASSUME NEW s \in Seq(0 .. 255)
  PROVE  /\ s \in Seq(Int) /\ Len(s) \in Nat
         /\ \A i \in 1 .. Len(s) : s[i] \in 0 .. 255 /\ s[i] \in Int
<1>1. ASSUME NEW i \in 1 .. Len(s) PROVE s[i] \in 0 .. 255
  BY ElementOfSeq
<1>2. Len(s) \in Nat
  BY LenProperties
<1>3. s \in Seq(Int)
  BY WiderSeq, 0 .. 255 \subseteq Int, Zenon
<1> QED
  BY <1>1, <1>2, <1>3

LEMMA OctetSubSeq ==
  ASSUME NEW s \in Seq(0 .. 255), NEW a \in Nat, NEW b \in Nat, a >= 1, b <= Len(s)
  PROVE  SubSeq(s, a, b) \in Seq(0 .. 255)
<1>1. ASSUME NEW i \in a .. b PROVE s[i] \in 0 .. 255
  <2>1. i \in 1 .. Len(s)
    BY OctetSeq
  <2> QED
    BY <2>1, OctetSeq
<1>2. a \in Int /\ b \in Int
  OBVIOUS
<1> QED
  BY <1>1, <1>2, SubSeqProperties

LEMMA OctetCat ==
  ASSUME NEW s \in Seq(0 .. 255), NEW t \in Seq(0 .. 255)
  PROVE  s \o t \in Seq(0 .. 255)
OBVIOUS

LEMMA MemoryParts ==
  ASSUME NEW b \in Seq(0 .. 255), Len(b) <= BufferOctets, NEW stale \in 0 .. 255,
         NEW m, m = Memory(b, stale)
  PROVE  /\ m \in Seq(0 .. 255) /\ Len(m) = BufferOctets
         /\ \A i \in 1 .. Len(b) : m[i] = b[i]
         /\ \A i \in 1 .. BufferOctets : i > Len(b) => m[i] = stale
<1>1. PICK n \in Nat : n = BufferOctets - Len(b)
  BY BufferRange
<1>2. PICK t : t = [i \in 1 .. n |-> stale]
  OBVIOUS
<1>3. t \in Seq(0 .. 255) /\ Len(t) = n /\ \A i \in 1 .. n : t[i] = stale
  BY <1>2
<1>4. m = b \o t
  BY <1>1, <1>2, Zenon DEF Memory
<1> QED
  BY <1>1, <1>3, <1>4, BufferRange

\* The framed message is the same message.
LEMMA SameEncoding ==
  ASSUME NEW s
  PROVE  EncodingOf(s) = EncodingOf(Entry(s))
BY DEF EncodingOf, Entry

LEMMA ValidEncoding ==
  ASSUME NEW s, Valid(s)
  PROVE  EncodingOf(s) \in Seq(0 .. 255)
<1>1. Entry(s) \in Messages \cup Values
  BY DEF Valid
<1>2. EncodingOf(Entry(s)) \in Seq(0 .. 255)
  BY <1>1, EncodingAssumption
<1> QED
  BY <1>2, SameEncoding

LEMMA FramingLayers ==
  ASSUME NEW s, Valid(s)
  PROVE  /\ s.framing.layer \in {"SHB", "GBC"} => s.framing.btp \in {BTP_A, BTP_B}
         /\ s.framing.layer \in {"SHB", "GBC", "facilities", "none"}
         /\ s.framing.layer # "none" => Entry(s) \in Messages /\ s.type \in {CAMType, "DENM"}
         /\ s.framing.layer = "none" => Entry(s) \in Values /\ ~m_enhanced_CAMs
BY DEF Valid, Framings

LEMMA VectorOctets ==
  Vector \in Seq(0 .. 255) /\ Len(Vector) = 24 /\ Area \in Seq(0 .. 255) /\ Len(Area) = 14
<1>1. /\ Address \in Seq(0 .. 255) /\ Len(Address) = 8
      /\ Stamp \in Seq(0 .. 255) /\ Len(Stamp) = 4
  BY DEF Address, Stamp
<1>2. PICK r : r = <<27, 82, 84, 77, 4, 201, 19, 140, 133, 220, 14, 16>>
  OBVIOUS
<1>3. r \in Seq(0 .. 255) /\ Len(r) = 12
  BY <1>2
<1>4. Vector = (Address \o Stamp) \o r
  BY <1>2, Zenon DEF Vector
<1>5. Vector \in Seq(0 .. 255) /\ Len(Vector) = 24
  <2>1. PICK u : u = Address \o Stamp
    OBVIOUS
  <2>2. u \in Seq(0 .. 255) /\ Len(u) = 12
    <3>1. u \in Seq(0 .. 255)
      BY <1>1, <2>1, OctetCat
    <3>2. u = Cat(Address, Stamp) /\ Address \in Seq(Int) /\ Stamp \in Seq(Int)
      BY <1>1, <2>1, OctetSeq DEF Cat
    <3>3. Len(u) = Len(Address) + Len(Stamp)
      BY <3>2, CatParts
    <3> QED
      BY <1>1, <3>1, <3>3
  <2>3. Vector = u \o r
    BY <1>4, <2>1
  <2>4. Vector \in Seq(0 .. 255)
    BY <1>3, <2>2, <2>3
  <2>5. Len(Vector) = Len(u) + Len(r)
    BY <1>3, <2>2, <2>3, ConcatProperties
  <2> QED
    BY <1>3, <2>2, <2>4, <2>5
<1>6. Area \in Seq(0 .. 255) /\ Len(Area) = 14
  BY DEF Area
<1> QED
  BY <1>5, <1>6

LEMMA SentPorts ==
  ASSUME NEW s
  PROVE  (IF s.type = "DENM" THEN DEN_PORT ELSE CA_PORT) \in {CA_PORT, DEN_PORT}
OBVIOUS

\* A packet has the octets of its headers before the payload.
LEMMA PacketOctets ==
  ASSUME NEW layer \in {"SHB", "GBC"}, NEW btp \in {BTP_A, BTP_B}, NEW port \in {CA_PORT, DEN_PORT},
         NEW payload \in Seq(0 .. 255), PayloadFits(payload),
         NEW p, p = Packet(layer, btp, port, Vector, Area, payload)
  PROVE  p \in Seq(0 .. 255)
<1>1. PICK size \in Nat : size = Len(payload) + 4
  OBVIOUS
<1>2. size \div 256 \in 0 .. 255 /\ size % 256 \in 0 .. 255
  <2>1. size < 65536
    BY <1>1 DEF PayloadFits
  <2> QED
    BY <2>1
<1>3. ASSUME NEW ht \in {GBC, TSB}, NEW hops \in 0 .. 255
      PROVE  Common(ht, hops, btp, size) \in Seq(0 .. 255)
  <2>1. 16 * btp \in 0 .. 255 /\ 16 * ht \in 0 .. 255
    BY DEF BTP_A, BTP_B, GBC, TSB
  <2> QED
    BY <1>2, <2>1 DEF Common
<1>4. PICK h : h = GNHeaders(layer, btp, size, Vector, Area)
  OBVIOUS
<1>5. h \in Seq(0 .. 255)
  <2>1. CASE layer = "SHB"
    <3>1. PICK c, z : c = Common(TSB, 1, btp, size) /\ z = <<0, 0, 0, 0>>
      OBVIOUS
    <3>2. c \in Seq(0 .. 255) /\ z \in Seq(0 .. 255)
      BY <1>3, <3>1
    <3>3. h = (c \o Vector) \o z
      BY <1>4, <2>1, <3>1, Zenon DEF GNHeaders
    <3> QED
      BY <3>2, <3>3, VectorOctets, OctetCat
  <2>2. CASE layer = "GBC"
    <3>1. PICK c, y, z : c = Common(GBC, 3, btp, size) /\ y = <<0, 1, 0, 0>> /\ z = <<0, 0>>
      OBVIOUS
    <3>2. c \in Seq(0 .. 255) /\ y \in Seq(0 .. 255) /\ z \in Seq(0 .. 255)
      BY <1>3, <3>1
    <3>3. layer # "SHB"
      BY <2>2
    <3>4. h = ((c \o y) \o Vector \o Area) \o z
      BY <1>4, <3>3, <3>1, Zenon DEF GNHeaders
    <3>5. c \o y \in Seq(0 .. 255)
      BY <3>2, OctetCat
    <3>6. (c \o y) \o Vector \in Seq(0 .. 255)
      BY <3>5, VectorOctets, OctetCat
    <3>7. ((c \o y) \o Vector) \o Area \in Seq(0 .. 255)
      BY <3>6, VectorOctets, OctetCat
    <3> QED
      BY <3>2, <3>4, <3>7, OctetCat
  <2> QED
    BY <2>1, <2>2
<1>6. PICK bh : bh = <<port \div 256, port % 256, 0, 0>>
  OBVIOUS
<1>7. bh \in Seq(0 .. 255)
  BY <1>6 DEF CA_PORT, DEN_PORT
<1>8. p = (h \o bh) \o payload
  BY <1>1, <1>4, <1>6, Zenon DEF Packet
<1>9. h \o bh \in Seq(0 .. 255)
  BY <1>5, <1>7, OctetCat
<1> QED
  BY <1>8, <1>9, OctetCat

-----------------------------------------------------------------------------
(* What a call can return                                                  *)

None(r) ==
    /\ r.rc \in {ETSI_DECODER_OK, ETSI_DECODER_ERROR}
    /\ r.data.decoded_msg = <<>> /\ r.data.type \in {Unwritten} \cup DataTypes

Good(r, tag, v) ==
    r.rc = ETSI_DECODER_OK /\ r.data.decoded_msg = <<v>> /\ r.data.type = tag

\* v is what a decoder of the type behind the tag has made of some octets.
Came(tag, v) ==
    \E o \in Seq(0 .. 255) :
        \/ tag = "CAM" /\ Gives(Decoded(CAMType, <<>>, o), v)
        \/ /\ tag = "CAM_NOGN"
           /\ IF m_enhanced_CAMs THEN v = Mixed
              ELSE Gives(DecodedAgain(Decoded("CAM", <<>>, o), o), v)
        \/ tag \in {"DENM", "DENM_NOGN"} /\ Gives(Decoded("DENM", <<>>, o), v)
        \/ tag = "value" /\ sent[1].type \in ValueTypes /\ Gives(Decoded(sent[1].type, <<>>, o), v)

Yields(r) ==
    None(r) \/ \E tag \in DataTypes : \E v : tag # "ERROR" /\ Good(r, tag, v) /\ Came(tag, v)

LEMMA ResultYields ==
  ASSUME NEW r, NEW tag \in DataTypes, tag # "ERROR", r.code = "OK" => Came(tag, r.val),
         NEW ts, NEW address, NEW area,
         NEW d, d = [type |-> tag, gnTimestamp |-> ts, GNaddress |-> address, area |-> area,
                     decoded_msg |-> <<>>]
  PROVE  Yields(Result(r, d))
<1>1. CASE r.code = "OK"
  <2>1. Good(Result(r, d), tag, r.val)
    BY <1>1 DEF Result, Good
  <2> QED
    BY <1>1, <2>1 DEF Yields
<1>2. CASE r.code # "OK"
  <2>1. None(Result(r, d))
    BY <1>2 DEF Result, None
  <2> QED
    BY <2>1 DEF Yields
<1> QED
  BY <1>1, <1>2

LEMMA FacilitiesYield ==
  ASSUME data = NoData, NEW b \in Seq(0 .. 255), NEW id
  PROVE  Yields(decodeFacilities(id, b))
<1>1. CASE id = 2 /\ ~m_enhanced_CAMs
  <2>1. PICK r : r = DecodedAgain(Decoded("CAM", <<>>, b), b)
    OBVIOUS
  <2>2. r.code = "OK" => Came("CAM_NOGN", r.val)
    BY <1>1, <2>1 DEF Came, Gives
  <2>3. PICK d : d = [type |-> "CAM_NOGN", gnTimestamp |-> Unwritten, GNaddress |-> Unwritten,
                      area |-> Unwritten, decoded_msg |-> <<>>]
    OBVIOUS
  <2>4. decodeFacilities(id, b) = Result(r, d)
    BY <1>1, <2>1, <2>3 DEF decodeFacilities, NoData
  <2>5. "CAM_NOGN" \in DataTypes
    BY DEF DataTypes
  <2> QED
    BY <2>2, <2>3, <2>4, <2>5, ResultYields
<1>2. CASE id = 2 /\ m_enhanced_CAMs
  <2>1. PICK r : r = [code |-> Decoded("CAMEnhanced", <<>>, b).code, val |-> Mixed]
    OBVIOUS
  <2>2. r.code = "OK" => Came("CAM_NOGN", r.val)
    BY <1>2, <2>1 DEF Came
  <2>3. PICK d : d = [type |-> "CAM_NOGN", gnTimestamp |-> Unwritten, GNaddress |-> Unwritten,
                      area |-> Unwritten, decoded_msg |-> <<>>]
    OBVIOUS
  <2>4. decodeFacilities(id, b) = Result(r, d)
    BY <1>2, <2>1, <2>3 DEF decodeFacilities, NoData
  <2>5. "CAM_NOGN" \in DataTypes
    BY DEF DataTypes
  <2> QED
    BY <2>2, <2>3, <2>4, <2>5, ResultYields
<1>3. CASE id = 1
  <2>1. PICK r : r = Decoded("DENM", <<>>, b)
    OBVIOUS
  <2>2. r.code = "OK" => Came("DENM_NOGN", r.val)
    BY <2>1 DEF Came, Gives
  <2>3. PICK d : d = [type |-> "DENM_NOGN", gnTimestamp |-> Unwritten, GNaddress |-> Unwritten,
                      area |-> Unwritten, decoded_msg |-> <<>>]
    OBVIOUS
  <2>4. decodeFacilities(id, b) = Result(r, d)
    BY <1>3, <2>1, <2>3 DEF decodeFacilities, NoData
  <2>5. "DENM_NOGN" \in DataTypes
    BY DEF DataTypes
  <2> QED
    BY <2>2, <2>3, <2>4, <2>5, ResultYields
<1>4. CASE id \notin {1, 2}
  <2>1. None(decodeFacilities(id, b))
    BY <1>4 DEF decodeFacilities, NoData, None, DataTypes
  <2> QED
    BY <2>1 DEF Yields
<1> QED
  BY <1>1, <1>2, <1>3, <1>4

LEMMA PayloadOctets ==
  ASSUME NEW m \in Seq(0 .. 255), Len(m) = BufferOctets,
         NEW b, b.data \in Nat, b.lenght \in Nat
  PROVE  Payload(m, b) \in Seq(0 .. 255)
<1>1. PICK first \in Nat, last \in Nat :
         /\ first = b.data + 1 /\ first >= 1 /\ last <= BufferOctets
         /\ Payload(m, b) = SubSeq(m, first, last)
  <2>1. PICK end \in Nat : end = b.data + b.lenght
    OBVIOUS
  <2>2. PICK last \in Nat : last = IF end < BufferOctets THEN end ELSE BufferOctets
    BY BufferRange
  <2>3. Payload(m, b) = SubSeq(m, b.data + 1, last)
    BY <2>1, <2>2 DEF Payload
  <2>4. last <= BufferOctets
    BY <2>2, BufferRange
  <2>5. PICK first \in Nat : first = b.data + 1 /\ first >= 1
    OBVIOUS
  <2> QED
    BY <2>3, <2>4, <2>5
<1> QED
  BY <1>1, OctetSubSeq, SMTT(20)

\* The headers a packet can have are read as numbers.
LEMMA HeadersAreNumbers ==
  ASSUME NEW m \in Seq(0 .. 255), Len(m) = BufferOctets, Len(m) >= 44,
         NEW gn, gn = decodeGN(m), gn.code = "GN_OK",
         NEW b, b = decodeBTP(m, gn, BufferOctets), b.code = "BTP_OK"
  PROVE  /\ gn.data \in {40, 56} /\ gn.lenght \in Nat
         /\ b.data = gn.data + 4
         /\ b.lenght = IF gn.lenght < 4 THEN BufferOctets ELSE gn.lenght - 4
         /\ b.data \in Nat /\ b.lenght \in Nat
         /\ b.destPort \in {CA_PORT, DEN_PORT}
<1>1. gn.data \in {40, 56} /\ gn.lenght = Word16(m, 8)
  BY Accepted
<1>2. Word16(m, 8) \in Nat
  <2>1. m[9] \in 0 .. 255 /\ m[10] \in 0 .. 255
    BY OctetSeq
  <2>2. PICK x \in 0 .. 255, y \in 0 .. 255 : x = m[9] /\ y = m[10]
    BY <2>1
  <2>3. Word16(m, 8) = x * 256 + y
    BY <2>2 DEF Word16
  <2> QED
    BY <2>3
<1>3. /\ b.data = gn.data + 4
      /\ b.lenght = IF gn.lenght < 4 THEN BufferOctets ELSE gn.lenght - 4
      /\ b.destPort \in {CA_PORT, DEN_PORT}
  BY DEF decodeBTP, BTPError, btpHeader_removeHeader
<1> QED
  BY <1>1, <1>2, <1>3, BufferRange

LEMMA PacketYields ==
  ASSUME data = NoData, NEW m \in Seq(0 .. 255), Len(m) = BufferOctets, Len(m) >= 44
  PROVE  Yields(decodePacket(m))
<1>1. PICK gn : gn = decodeGN(m)
  OBVIOUS
<1>2. PICK b : b = IF gn.code = "GN_OK" THEN decodeBTP(m, gn, BufferOctets) ELSE BTPError
  OBVIOUS
<1>3. decodePacket(m) = afterBTP(gn, b, m)
  BY <1>1, <1>2 DEF decodePacket, afterGN
<1>4. CASE b.code # "BTP_OK"
  <2>1. None(decodePacket(m))
    BY <1>3, <1>4 DEF afterBTP, None, NoData
  <2> QED
    BY <2>1 DEF Yields
<1>5. CASE b.code = "BTP_OK"
  <2>1. gn.code = "GN_OK" /\ b = decodeBTP(m, gn, BufferOctets)
    BY <1>2, <1>5 DEF BTPError
  <2>2. decodePacket(m) = decodePayload(gn, b, m)
    BY <1>3, <1>5 DEF afterBTP
  <2>3. Payload(m, b) \in Seq(0 .. 255)
    BY <1>1, <1>5, <2>1, HeadersAreNumbers, PayloadOctets
  <2>4. CASE b.destPort = CA_PORT
    <3>1. PICK r : r = Decoded(CAMType, <<>>, Payload(m, b))
      OBVIOUS
    <3>2. r.code = "OK" => Came("CAM", r.val)
      BY <2>3, <3>1 DEF Came, Gives
    <3>3. PICK d : d = [type |-> "CAM", gnTimestamp |-> gn.SourcePV.TST,
                        GNaddress |-> gn.SourcePV.GnAddress, area |-> Unwritten,
                        decoded_msg |-> <<>>]
      OBVIOUS
    <3>4. decodePayload(gn, b, m) = Result(r, d)
      <4>1. PICK d1 : d1 = [data EXCEPT !.gnTimestamp = gn.SourcePV.TST,
                                        !.GNaddress = gn.SourcePV.GnAddress, !.type = "CAM"]
        OBVIOUS
      <4>2. d1 = [type |-> "CAM", gnTimestamp |-> gn.SourcePV.TST,
                  GNaddress |-> gn.SourcePV.GnAddress, area |-> Unwritten, decoded_msg |-> <<>>]
        BY <4>1 DEF NoData
      <4>3. d = d1
        BY <3>3, <4>2
      <4> QED
        BY <2>4, <3>1, <4>1, <4>3 DEF decodePayload
    <3>5. "CAM" \in DataTypes
      BY DEF DataTypes
    <3> QED
      BY <2>2, <3>2, <3>3, <3>4, <3>5, ResultYields
  <2>5. CASE b.destPort # CA_PORT
    <3>1. PICK r : r = Decoded("DENM", <<>>, Payload(m, b))
      OBVIOUS
    <3>2. r.code = "OK" => Came("DENM", r.val)
      BY <2>3, <3>1 DEF Came, Gives
    <3>3. PICK d : d = [type |-> "DENM", gnTimestamp |-> gn.SourcePV.TST,
                        GNaddress |-> gn.SourcePV.GnAddress, area |-> gn.GnAddressDest,
                        decoded_msg |-> <<>>]
      OBVIOUS
    <3>4. decodePayload(gn, b, m) = Result(r, d)
      <4>1. PICK d1 : d1 = [data EXCEPT !.gnTimestamp = gn.SourcePV.TST,
                                        !.GNaddress = gn.SourcePV.GnAddress, !.type = "DENM"]
        OBVIOUS
      <4>2. d1 = [type |-> "DENM", gnTimestamp |-> gn.SourcePV.TST,
                  GNaddress |-> gn.SourcePV.GnAddress, area |-> Unwritten, decoded_msg |-> <<>>]
        BY <4>1 DEF NoData
      <4>3. d = [d1 EXCEPT !.area = gn.GnAddressDest]
        BY <3>3, <4>2
      <4> QED
        BY <2>5, <3>1, <4>1, <4>3 DEF decodePayload
    <3>5. "DENM" \in DataTypes
      BY DEF DataTypes
    <3> QED
      BY <2>2, <3>2, <3>3, <3>4, <3>5, ResultYields
  <2> QED
    BY <2>4, <2>5
<1> QED
  BY <1>4, <1>5

-----------------------------------------------------------------------------
(* The steps                                                               *)

LEMMA PacketLength ==
  ASSUME NEW layer \in {"SHB", "GBC"}, NEW btp \in {BTP_A, BTP_B}, NEW port \in {CA_PORT, DEN_PORT},
         NEW payload \in Seq(Int), NEW p, p = Packet(layer, btp, port, Vector, Area, payload)
  PROVE  p \in Seq(Int) /\ Len(p) \in Nat /\ Len(p) >= Len(payload) + 44
<1>1. PICK size \in Nat : size = Len(payload) + 4
  BY SeqLen
<1>2. PICK h : h = GNHeaders(layer, btp, size, Vector, Area)
  OBVIOUS
<1>3. Vector \in Seq(Int) /\ Len(Vector) = 24 /\ Area \in Seq(Int) /\ Len(Area) = 14
  BY VectorOctets, OctetSeq
<1>4. btp \in Nat
  BY DEF BTP_A, BTP_B
<1>5. h \in Seq(Int) /\ Len(h) >= 40
  <2>1. CASE layer = "SHB"
    <3>1. h = GNHeaders("SHB", btp, size, Vector, Area)
      BY <1>2, <2>1
    <3>2. h \in Seq(Int) /\ Len(h) = 40
      BY <1>3, <1>4, <3>1, HeadersSHB
    <3> QED
      BY <3>2
  <2>2. CASE layer = "GBC"
    <3>1. h = GNHeaders("GBC", btp, size, Vector, Area)
      BY <1>2, <2>2
    <3>2. h \in Seq(Int) /\ Len(h) = 56
      BY <1>3, <1>4, <3>1, HeadersGBC
    <3> QED
      BY <3>2
  <2> QED
    BY <2>1, <2>2
<1>6. PICK bh : bh = <<port \div 256, port % 256, 0, 0>>
  OBVIOUS
<1>7. bh \in Seq(Int) /\ Len(bh) = 4
  BY <1>6 DEF CA_PORT, DEN_PORT
<1>8. PICK u : u = Cat(h, bh)
  OBVIOUS
<1>9. u \in Seq(Int) /\ Len(u) = Len(h) + 4
  <2>1. Cat(h, bh) \in Seq(Int) /\ Len(Cat(h, bh)) = Len(h) + Len(bh)
    BY <1>5, <1>7, CatParts, Zenon
  <2> QED
    BY <1>7, <1>8, <2>1
<1>10. p = Cat(u, payload)
  <2>1. p = GNHeaders(layer, btp, Len(payload) + 4, Vector, Area)
              \o <<port \div 256, port % 256, 0, 0>> \o payload
    BY Zenon DEF Packet
  <2> QED
    BY <1>1, <1>2, <1>6, <1>8, <2>1, Zenon DEF Cat
<1>11. p \in Seq(Int) /\ Len(p) = Len(u) + Len(payload)
  <2>1. Cat(u, payload) \in Seq(Int) /\ Len(Cat(u, payload)) = Len(u) + Len(payload)
    BY <1>9, CatParts, Zenon
  <2> QED
    BY <1>10, <2>1
<1> QED
  BY <1>5, <1>9, <1>11, SeqLen

\* The payload of a packet that fits into msgbuf has a size the common header can say.
LEMMA FittingPayload ==
  ASSUME NEW n \in Nat, n + 44 <= BufferOctets
  PROVE  n + 4 < 65536
BY BufferAssumption

Port(s) == IF s.type = "DENM" THEN DEN_PORT ELSE CA_PORT

\* A packet that fits into msgbuf, by its parts.
LEMMA SentPacket ==
  ASSUME NEW s, Valid(s), s.framing.layer \in {"SHB", "GBC"}, Len(Datagram(s)) <= BufferOctets
  PROVE  /\ Datagram(s) = Packet(s.framing.layer, s.framing.btp, Port(s), Vector, Area, EncodingOf(s))
         /\ s.framing.btp \in {BTP_A, BTP_B} /\ Port(s) \in {CA_PORT, DEN_PORT}
         /\ EncodingOf(s) \in Seq(0 .. 255) /\ EncodingOf(s) \in Seq(Int)
         /\ PayloadFits(EncodingOf(s)) /\ Len(Datagram(s)) >= Len(EncodingOf(s)) + 44
<1>1. Datagram(s) = Packet(s.framing.layer, s.framing.btp, Port(s), Vector, Area, EncodingOf(s))
  BY DEF Datagram, Port
<1>2. s.framing.btp \in {BTP_A, BTP_B} /\ Port(s) \in {CA_PORT, DEN_PORT}
  BY FramingLayers DEF Port
<1>3. EncodingOf(s) \in Seq(0 .. 255) /\ EncodingOf(s) \in Seq(Int)
  BY ValidEncoding, OctetSeq
<1>4. Len(Datagram(s)) >= Len(EncodingOf(s)) + 44
  BY <1>1, <1>2, <1>3, PacketLength
<1>5. PayloadFits(EncodingOf(s))
  <2>1. PICK n \in Nat : n = Len(EncodingOf(s))
    BY <1>3, SeqLen
  <2>2. n + 44 <= BufferOctets
    <3>1. PICK p : p = Datagram(s)
      OBVIOUS
    <3>2. Len(p) \in Nat
      <4>1. p = Packet(s.framing.layer, s.framing.btp, Port(s), Vector, Area, EncodingOf(s))
        BY <1>1, <3>1
      <4> QED
        BY <4>1, <1>2, <1>3, PacketLength
    <3> QED
      BY <1>4, <2>1, <3>1, <3>2, BufferRange
  <2> QED
    BY <2>1, <2>2, FittingPayload DEF PayloadFits
<1> QED
  BY <1>1, <1>2, <1>3, <1>4, <1>5

LEMMA DatagramOctets ==
  ASSUME NEW s, Valid(s), Len(Datagram(s)) <= BufferOctets
  PROVE  Datagram(s) \in Seq(0 .. 255)
<1>1. CASE s.framing.layer \in {"SHB", "GBC"}
  <2>1. PICK layer \in {"SHB", "GBC"}, btp \in {BTP_A, BTP_B}, port \in {CA_PORT, DEN_PORT},
             payload \in Seq(0 .. 255) :
           PayloadFits(payload) /\ Datagram(s) = Packet(layer, btp, port, Vector, Area, payload)
    BY <1>1, SentPacket
  <2> QED
    BY <2>1, PacketOctets
<1>2. CASE s.framing.layer \notin {"SHB", "GBC"}
  BY <1>2, ValidEncoding DEF Datagram
<1> QED
  BY <1>1, <1>2

LEMMA InvertedOctet ==
  ASSUME NEW octet \in 0 .. 255, NEW bit \in BitValues
  PROVE  Inverted(octet, bit) \in 0 .. 255
<1>1. bit \in {1, 2, 4, 8, 16, 32, 64, 128}
  BY DEF BitValues
<1>2. CASE bit = 1
  BY <1>2 DEF Inverted
<1>3. CASE bit = 2
  BY <1>3 DEF Inverted
<1>4. CASE bit = 4
  BY <1>4 DEF Inverted
<1>5. CASE bit = 8
  BY <1>5 DEF Inverted
<1>6. CASE bit = 16
  BY <1>6 DEF Inverted
<1>7. CASE bit = 32
  BY <1>7 DEF Inverted
<1>8. CASE bit = 64
  BY <1>8 DEF Inverted
<1>9. CASE bit = 128
  BY <1>9 DEF Inverted
<1> QED
  BY <1>1, <1>2, <1>3, <1>4, <1>5, <1>6, <1>7, <1>8, <1>9

LEMMA InvInit == Init => IInv
<1> SUFFICES ASSUME Init PROVE IInv
  OBVIOUS
<1>1. TypeOK
  <2>1. <<>> \in Seq(0 .. 255) /\ Len(<<>>) = 0
    BY EmptySeq
  <2> QED
    BY <2>1, BufferRange DEF Init, TypeOK, NoData
<1>2. SentKnown
  BY DEF Init, SentKnown
<1>3. FrameKnown
  BY DEF Init, FrameKnown
<1>4. DataKnown
  BY DEF Init, DataKnown
<1> QED
  BY <1>1, <1>2, <1>3, <1>4 DEF IInv

LEMMA SendStep ==
  ASSUME IInv, sent = <<>>, NEW s, Valid(s), Send(s)
  PROVE  IInv'
<1>1. sent' # <<>> /\ sent'[1] = s
  BY DEF Send
<1>2. Len(Datagram(s)) <= BufferOctets /\ frame' = Datagram(s)
  BY DEF Send
<1>3. Datagram(s) \in Seq(0 .. 255)
  BY <1>2, DatagramOctets
<1>4. TypeOK'
  BY <1>2, <1>3 DEF Send, IInv, TypeOK
<1>5. SentKnown'
  <2>1. Valid(s)'
    BY DEF Valid, CAMType, Send
  <2> QED
    BY <1>1, <2>1 DEF Send, IInv, SentKnown, Valid, CAMType
<1>6. FrameKnown'
  BY <1>1, <1>2, <1>3 DEF Send, FrameKnown
<1>7. DataKnown'
  BY DEF Send, IInv, DataKnown
<1> QED
  BY <1>4, <1>5, <1>6, <1>7 DEF IInv

LEMMA ValidSent ==
  ASSUME IInv, sent # <<>>
  PROVE  /\ Valid(sent[1]) /\ Datagram(sent[1]) \in Seq(0 .. 255)
         /\ Len(Datagram(sent[1])) <= BufferOctets
BY DEF IInv, SentKnown, FrameKnown

LEMMA ValidKept ==
  ASSUME NEW s, Valid(s), UNCHANGED m_enhanced_CAMs
  PROVE  Valid(s)'
BY DEF Valid, CAMType

LEMMA WholeFrame ==
  ASSUME IInv, sent # <<>>, fault = NoFault
  PROVE  frame = Datagram(sent[1])
<1>1. ASSUME Damaged(Datagram(sent[1])) PROVE FALSE
  BY <1>1 DEF Damaged, CutFrom, FlipOf, NoFault
<1> QED
  BY <1>1 DEF IInv, FrameKnown

LEMMA OctetPrefix ==
  ASSUME NEW s \in Seq(0 .. 255), NEW n \in Nat, n <= Len(s)
  PROVE  /\ SubSeq(s, 1, n) \in Seq(0 .. 255) /\ Len(SubSeq(s, 1, n)) = n
         /\ \A i \in 1 .. n : SubSeq(s, 1, n)[i] = s[i]
<1>1. PICK k \in Nat : k = Len(s)
  BY LenProperties
<1>2. PICK S : S = 0 .. 255
  OBVIOUS
<1>3. ASSUME NEW i \in 1 .. n PROVE s[i] \in S
  <2>1. i \in 1 .. Len(s)
    BY <1>1
  <2> QED
    BY <1>2, <2>1, ElementOfSeq
<1>4. PICK one \in Nat : one = 1
  OBVIOUS
<1>5. \A i \in one .. n : s[i] \in S
  BY <1>3, <1>4
<1>6. /\ SubSeq(s, one, n) \in Seq(S)
      /\ Len(SubSeq(s, one, n)) = IF one <= n THEN n - one + 1 ELSE 0
      /\ \A i \in 1 .. n - one + 1 : SubSeq(s, one, n)[i] = s[one + i - 1]
  <2>1. one \in Int /\ n \in Int
    BY <1>4
  <2> QED
    BY <1>5, <2>1, SubSeqProperties
<1> QED
  BY <1>2, <1>4, <1>6

LEMMA SendMessageStep ==
  ASSUME IInv, SendMessage
  PROVE  IInv'
<1>1. PICK e \in Messages, f \in Framings : e.type \in {CAMType, "DENM"} /\ Send(Framed(e, f))
  BY DEF SendMessage
<1>2. PICK s : s = Framed(e, f)
  OBVIOUS
<1>3. Entry(s) = e
  BY <1>2 DEF Framed, Entry, Messages
<1>4. Valid(s)
  BY <1>1, <1>2, <1>3 DEF Valid, Framed
<1>5. sent = <<>> /\ Send(s)
  BY <1>1, <1>2 DEF SendMessage
<1> QED
  BY <1>4, <1>5, SendStep

LEMMA SendValueStep ==
  ASSUME IInv, SendValue
  PROVE  IInv'
<1>1. PICK e \in Values : Send(Framed(e, [layer |-> "none", btp |-> 0]))
  BY DEF SendValue
<1>2. PICK s : s = Framed(e, [layer |-> "none", btp |-> 0])
  OBVIOUS
<1>3. Entry(s) = e
  BY <1>2 DEF Framed, Entry, Values
<1>4. Valid(s)
  BY <1>2, <1>3 DEF Valid, Framed, SendValue
<1>5. sent = <<>> /\ Send(s)
  BY <1>1, <1>2 DEF SendValue
<1> QED
  BY <1>4, <1>5, SendStep

\* A damaged datagram is still one of octets that fits into msgbuf.
LEMMA FaultStep ==
  ASSUME IInv, Faulty, UNCHANGED <<m_enhanced_CAMs, sent, rc, data>>,
         frame' \in Seq(0 .. 255), Len(frame') <= Len(frame), Damaged(Datagram(sent[1]))'
  PROVE  IInv'
<1>1. /\ sent # <<>> /\ fault = NoFault /\ ~m_enhanced_CAMs /\ Exposed(sent[1])
      /\ rc = Unwritten
  BY DEF Faulty, Exposed
<1>2. /\ Valid(sent[1]) /\ Datagram(sent[1]) \in Seq(0 .. 255)
      /\ Len(Datagram(sent[1])) <= BufferOctets
  BY <1>1, ValidSent
<1>3. TypeOK'
  <2>1. Len(frame') <= BufferOctets
    <3>1. frame \in Seq(0 .. 255) /\ Len(frame) <= BufferOctets
      BY DEF IInv, TypeOK
    <3>2. Len(frame) \in Nat /\ Len(frame') \in Nat
      BY <3>1, LenProperties
    <3> QED
      BY <3>1, <3>2, BufferRange
  <2> QED
    BY <2>1 DEF IInv, TypeOK
<1>4. SentKnown'
  <2>1. Valid(sent[1])'
    BY <1>2 DEF Valid, CAMType
  <2> QED
    BY <1>1, <2>1 DEF IInv, SentKnown
<1>5. FrameKnown'
  <2>1. sent'[1] = sent[1]
    OBVIOUS
  <2> QED
    BY <1>1, <1>2, <2>1 DEF FrameKnown
<1>6. DataKnown'
  BY DEF IInv, DataKnown
<1> QED
  BY <1>3, <1>4, <1>5, <1>6 DEF IInv

LEMMA CutStep ==
  ASSUME IInv, Cut
  PROVE  IInv'
<1>1. Faulty /\ UNCHANGED <<m_enhanced_CAMs, sent, rc, data>>
  BY DEF Cut
<1>2. PICK n \in 1 .. Len(frame) - 1 :
         frame' = SubSeq(frame, 1, n) /\ fault' = [kind |-> "cut", at |-> n]
  BY DEF Cut
<1>3. frame = Datagram(sent[1]) /\ frame \in Seq(0 .. 255)
  BY <1>1, WholeFrame DEF Faulty, IInv, TypeOK
<1>4. frame' \in Seq(0 .. 255) /\ Len(frame') <= Len(frame)
  <2>1. Len(frame) \in Nat
    BY <1>3, LenProperties
  <2>2. n \in Nat /\ n >= 1 /\ n <= Len(frame)
    BY <1>2, <2>1
  <2> QED
    BY <1>2, <1>3, <2>2, OctetPrefix
<1>5. Damaged(Datagram(sent[1]))'
  <2>1. Datagram(sent[1])' = frame
    BY <1>1, <1>3
  <2>2. CutFrom(Datagram(sent[1]))'
    BY <1>2, <2>1 DEF CutFrom
  <2> QED
    BY <2>2 DEF Damaged
<1> QED
  BY <1>1, <1>4, <1>5, FaultStep

LEMMA FlipStep ==
  ASSUME IInv, Flip
  PROVE  IInv'
<1>1. Faulty /\ UNCHANGED <<m_enhanced_CAMs, sent, rc, data>>
  BY DEF Flip
<1>2. PICK i \in 1 .. Len(frame), bit \in BitValues :
         /\ frame' = [frame EXCEPT ![i] = Inverted(frame[i], bit)]
         /\ fault' = [kind |-> "flip", at |-> i]
  BY DEF Flip
<1>3. frame = Datagram(sent[1]) /\ frame \in Seq(0 .. 255)
  BY <1>1, WholeFrame DEF Faulty, IInv, TypeOK
<1>4. PICK octet \in 0 .. 255 : octet = Inverted(frame[i], bit)
  <2>1. frame[i] \in 0 .. 255
    BY <1>2, <1>3, OctetSeq
  <2> QED
    BY <1>2, <2>1, InvertedOctet
<1>5. frame' \in Seq(0 .. 255) /\ Len(frame') = Len(frame) /\ Len(frame) \in Nat
  <2>1. [frame EXCEPT ![i] = octet] \in Seq(0 .. 255) /\ Len([frame EXCEPT ![i] = octet]) = Len(frame)
    BY <1>2, <1>3, ExceptSeq
  <2> QED
    BY <1>2, <1>3, <1>4, <2>1, LenProperties
<1>6. Damaged(Datagram(sent[1]))'
  <2>1. Datagram(sent[1])' = frame
    BY <1>1, <1>3
  <2>2. FlipOf(Datagram(sent[1]))'
    BY <1>2, <1>4, <2>1 DEF FlipOf
  <2> QED
    BY <2>2 DEF Damaged
<1> QED
  BY <1>1, <1>5, <1>6, FaultStep

\* What decodeEtsi and asn_decode return.
LEMMA Returned ==
  ASSUME IInv, decodeEtsi \/ asn_decode
  PROVE  \E r : Return(r) /\ Yields(r) /\ sent # <<>>
<1>0. /\ data = NoData /\ frame \in Seq(0 .. 255) /\ Len(frame) <= BufferOctets
      /\ sent # <<>> /\ Len(frame) \in Nat
  BY LenProperties DEF IInv, TypeOK, DataKnown, decodeEtsi, asn_decode
<1>1. CASE decodeEtsi
  <2>1. PICK stale \in StaleOctets : LET m == Memory(frame, stale)
           IN  Return(IF isGeoNet(frame) THEN decodePacket(m) ELSE decodeFacilities(m[2], frame))
    BY <1>1 DEF decodeEtsi
  <2>2. PICK m : m = Memory(frame, stale)
    OBVIOUS
  <2>3. m \in Seq(0 .. 255) /\ Len(m) = BufferOctets
    <3>1. stale \in 0 .. 255
      BY StaleRange
    <3> QED
      BY <1>0, <2>2, <3>1, MemoryParts
  <2>4. CASE isGeoNet(frame)
    <3>1. Len(m) >= 44
      BY <1>0, <2>3, <2>4, BufferRange DEF isGeoNet
    <3> QED
      BY <1>0, <2>1, <2>2, <2>3, <2>4, <3>1, PacketYields
  <2>5. CASE ~isGeoNet(frame)
    BY <1>0, <2>1, <2>2, <2>5, FacilitiesYield
  <2> QED
    BY <2>4, <2>5
<1>2. CASE asn_decode
  <2>1. PICK r : r = Decoded(sent[1].type, <<>>, frame)
    OBVIOUS
  <2>2. r.code = "OK" => Came("value", r.val)
    <3>1. sent[1].type \in ValueTypes
      <4>1. Valid(sent[1]) /\ sent[1].framing.layer = "none"
        BY <1>0, <1>2, ValidSent DEF asn_decode
      <4>2. Entry(sent[1]) \in Values
        BY <4>1, FramingLayers
      <4> QED
        BY <4>2 DEF Entry, Values
    <3> QED
      BY <1>0, <2>1, <3>1 DEF Came, Gives
  <2>3. PICK d : d = [type |-> "value", gnTimestamp |-> Unwritten, GNaddress |-> Unwritten,
                      area |-> Unwritten, decoded_msg |-> <<>>]
    OBVIOUS
  <2>4. d = [data EXCEPT !.type = "value"]
    BY <1>0, <2>3 DEF NoData
  <2>5. Return(Result(r, d))
    BY <1>2, <2>1, <2>4 DEF asn_decode
  <2>6. "value" \in DataTypes
    BY DEF DataTypes
  <2> QED
    BY <1>0, <2>2, <2>3, <2>5, <2>6, ResultYields
<1> QED
  BY <1>1, <1>2

LEMMA ReturnStep ==
  ASSUME IInv, sent # <<>>, NEW r, Return(r), Yields(r)
  PROVE  IInv'
<1>1. rc' = r.rc /\ data' = r.data /\ UNCHANGED <<m_enhanced_CAMs, sent, frame, fault>>
  BY DEF Return
<1>2. /\ rc' \in {ETSI_DECODER_OK, ETSI_DECODER_ERROR}
      /\ data'.type \in {Unwritten} \cup DataTypes
      /\ data'.decoded_msg # <<>> => rc' = ETSI_DECODER_OK /\ data'.type \notin {Unwritten, "ERROR"}
  <2>1. CASE None(r)
    BY <1>1, <2>1 DEF None
  <2>2. CASE \E tag \in DataTypes : \E v : tag # "ERROR" /\ Good(r, tag, v) /\ Came(tag, v)
    BY <1>1, <2>2, UnwrittenAssumption DEF Good
  <2> QED
    BY <2>1, <2>2 DEF Yields
<1>3. TypeOK'
  BY <1>1, <1>2 DEF IInv, TypeOK
<1>4. SentKnown'
  <2>1. Valid(sent[1])'
    BY <1>1, ValidSent DEF Valid, CAMType
  <2> QED
    BY <1>1, <2>1 DEF IInv, SentKnown
<1>5. FrameKnown'
  <2>1. \A d : Damaged(d)' = Damaged(d)
    BY <1>1 DEF Damaged, CutFrom, FlipOf
  <2> QED
    BY <1>1, <2>1 DEF IInv, FrameKnown
<1>6. DataKnown'
  <2>1. rc' # Unwritten
    BY <1>2, UnwrittenAssumption DEF ETSI_DECODER_OK, ETSI_DECODER_ERROR
  <2> QED
    BY <2>1 DEF DataKnown
<1> QED
  BY <1>3, <1>4, <1>5, <1>6 DEF IInv

LEMMA ReleaseStep ==
  ASSUME IInv, Release
  PROVE  IInv'
<1>1. TypeOK'
  <2>1. <<>> \in Seq(0 .. 255) /\ Len(<<>>) = 0
    BY EmptySeq
  <2> QED
    BY <2>1, BufferRange DEF Release, IInv, TypeOK, NoData
<1>2. SentKnown' /\ FrameKnown' /\ DataKnown'
  BY DEF Release, IInv, SentKnown, FrameKnown, DataKnown
<1> QED
  BY <1>1, <1>2 DEF IInv

LEMMA StutterStep ==
  ASSUME IInv, UNCHANGED vars
  PROVE  IInv'
<1>1. UNCHANGED <<m_enhanced_CAMs, sent, frame, fault, rc, data>>
  BY DEF vars
<1>2. TypeOK' /\ DataKnown'
  BY <1>1 DEF IInv, TypeOK, DataKnown
<1>3. SentKnown'
  BY <1>1 DEF IInv, SentKnown, Valid, CAMType
<1>4. FrameKnown'
  BY <1>1, Zenon DEF IInv, FrameKnown, Damaged, CutFrom, FlipOf
<1> QED
  BY <1>2, <1>3, <1>4 DEF IInv

LEMMA InvNext == IInv /\ [Next]_vars => IInv'
<1> SUFFICES ASSUME IInv, [Next]_vars PROVE IInv'
  OBVIOUS
<1>1. CASE SendMessage
  BY <1>1, SendMessageStep
<1>2. CASE SendValue
  BY <1>2, SendValueStep
<1>3. CASE Cut
  BY <1>3, CutStep
<1>4. CASE Flip
  BY <1>4, FlipStep
<1>5. CASE decodeEtsi \/ asn_decode
  BY <1>5, Returned, ReturnStep
<1>6. CASE Release
  BY <1>6, ReleaseStep
<1>7. CASE UNCHANGED vars
  BY <1>7, StutterStep
<1> QED
  BY <1>1, <1>2, <1>3, <1>4, <1>5, <1>6, <1>7 DEF Next

\* Every call of decodeEtsi reports success or failure, a delivered message comes with the kind it
\* is cast to, and a failed call delivers nothing: for any messages, any damage and any codec.
THEOREM TypeCorrect == Spec => []TypeOK
<1>1. Init => IInv
  BY InvInit
<1>2. IInv /\ [Next]_vars => IInv'
  BY InvNext
<1>3. IInv => TypeOK
  BY DEF IInv
<1> QED
  BY <1>1, <1>2, <1>3, PTL DEF Spec

\* A step that is no call of a decoder leaves nothing returned, or everything as it was.
LEMMA QuietStep ==
  ASSUME IInv, [Next]_vars
  PROVE  rc' = Unwritten \/ UNCHANGED vars \/ decodeEtsi \/ asn_decode
<1>1. CASE SendMessage
  <2>1. sent = <<>> /\ rc' = rc
    BY <1>1 DEF SendMessage, Send
  <2> QED
    BY <2>1 DEF IInv, SentKnown
<1>2. CASE SendValue
  <2>1. sent = <<>> /\ rc' = rc
    BY <1>2 DEF SendValue, Send
  <2> QED
    BY <2>1 DEF IInv, SentKnown
<1>3. CASE Cut
  BY <1>3 DEF Cut, Faulty
<1>4. CASE Flip
  BY <1>4 DEF Flip, Faulty
<1>5. CASE Release
  BY <1>5 DEF Release
<1> QED
  BY <1>1, <1>2, <1>3, <1>4, <1>5 DEF Next

-----------------------------------------------------------------------------
(* What is delivered is within the constraints of its type                 *)

LEMMA CameInRange ==
  ASSUME DecodedInRange, NEW tag \in DataTypes, tag # "ERROR", NEW v, v # Mixed, Came(tag, v),
         NEW type, type = CASE tag = "value" -> sent[1].type
                            [] tag \in {"CAM", "CAM_NOGN"} -> CAMType
                            [] OTHER -> "DENM"
  PROVE  Satisfying(type, v, FALSE)
<1>1. PICK o \in Seq(0 .. 255) :
        \/ tag = "CAM" /\ Gives(Decoded(CAMType, <<>>, o), v)
        \/ /\ tag = "CAM_NOGN"
           /\ IF m_enhanced_CAMs THEN v = Mixed
              ELSE Gives(DecodedAgain(Decoded("CAM", <<>>, o), o), v)
        \/ tag \in {"DENM", "DENM_NOGN"} /\ Gives(Decoded("DENM", <<>>, o), v)
        \/ tag = "value" /\ sent[1].type \in ValueTypes /\ Gives(Decoded(sent[1].type, <<>>, o), v)
  BY DEF Came
<1>2. /\ \A t \in {"CAM", "CAMEnhanced", "DENM"} \cup ValueTypes :
             Gives(Decoded(t, <<>>, o), v) => Satisfying(t, v, FALSE)
      /\ Gives(DecodedAgain(Decoded("CAM", <<>>, o), o), v) => Satisfying("CAM", v, FALSE)
  BY DEF DecodedInRange, Gives
<1>3. CAMType \in {"CAM", "CAMEnhanced"}
  BY DEF CAMType
<1>4. CASE tag = "CAM"
  BY <1>1, <1>2, <1>3, <1>4
<1>5. CASE tag = "CAM_NOGN"
  <2>1. ~m_enhanced_CAMs /\ Gives(DecodedAgain(Decoded("CAM", <<>>, o), o), v)
    BY <1>1, <1>5
  <2>2. type = "CAM"
    BY <1>5, <2>1 DEF CAMType
  <2> QED
    BY <1>2, <2>1, <2>2
<1>6. CASE tag \in {"DENM", "DENM_NOGN"}
  BY <1>1, <1>2, <1>6
<1>7. CASE tag = "value"
  BY <1>1, <1>2, <1>7
<1> QED
  BY <1>4, <1>5, <1>6, <1>7 DEF DataTypes

LEMMA InRangeStep ==
  ASSUME DecodedInRange, IInv, InRange, [Next]_vars
  PROVE  InRange'
<1>1. CASE rc' = Unwritten
  <2>1. ~Delivered'
    BY <1>1, UnwrittenAssumption DEF Delivered, ETSI_DECODER_OK
  <2> QED
    BY <2>1 DEF InRange
<1>2. CASE UNCHANGED vars
  BY <1>2 DEF InRange, Delivered, DeliveredType, CAMType, vars
<1>3. CASE decodeEtsi \/ asn_decode
  <2>1. PICK r : Return(r) /\ Yields(r)
    BY <1>3, Returned
  <2>2. rc' = r.rc /\ data' = r.data /\ sent' = sent /\ m_enhanced_CAMs' = m_enhanced_CAMs
    BY <2>1 DEF Return
  <2>3. CASE None(r)
    BY <2>2, <2>3 DEF None, InRange, Delivered
  <2>4. CASE \E tag \in DataTypes : \E v : tag # "ERROR" /\ Good(r, tag, v) /\ Came(tag, v)
    <3>0. PICK tag \in DataTypes : \E v : tag # "ERROR" /\ Good(r, tag, v) /\ Came(tag, v)
      BY <2>4
    <3>1. PICK v : tag # "ERROR" /\ Good(r, tag, v) /\ Came(tag, v)
      BY <3>0
    <3>2. data'.type = tag /\ data'.decoded_msg = <<v>> /\ data'.decoded_msg[1] = v
      BY <2>2, <3>1 DEF Good
    <3>3. PICK type : type = CASE tag = "value" -> sent[1].type
                               [] tag \in {"CAM", "CAM_NOGN"} -> CAMType
                               [] OTHER -> "DENM"
      OBVIOUS
    <3>4. DeliveredType' = type
      BY <2>2, <3>2, <3>3 DEF DeliveredType, CAMType
    <3>5. v # Mixed => Satisfying(type, v, FALSE)
      BY <3>1, <3>3, CameInRange
    <3> QED
      BY <3>2, <3>4, <3>5 DEF InRange
  <2> QED
    BY <2>1, <2>3, <2>4 DEF Yields
<1> QED
  BY <1>1, <1>2, <1>3, QuietStep

\* Whatever is wrong with the datagram, decodeEtsi delivers values within the constraints of the
\* type its caller casts them to, if the decoder of each type does.
THEOREM OnlyInRange ==
  ASSUME DecodedInRange
  PROVE  Spec => []InRange
<1>1. Init => IInv /\ InRange
  <2>1. Init => InRange
    BY UnwrittenAssumption DEF Init, InRange, Delivered, ETSI_DECODER_OK
  <2> QED
    BY <2>1, InvInit
<1>2. IInv /\ InRange /\ [Next]_vars => (IInv /\ InRange)'
  BY InvNext, InRangeStep
<1> QED
  BY <1>1, <1>2, PTL DEF Spec

-----------------------------------------------------------------------------
(* What lost its end is refused                                            *)

LEMMA CutFrame ==
  ASSUME IInv, sent # <<>>, fault.kind = "cut"
  PROVE  /\ Exposed(sent[1]) /\ ~m_enhanced_CAMs
         /\ \E n \in 1 .. Len(Datagram(sent[1])) - 1 :
               frame = SubSeq(Datagram(sent[1]), 1, n)
<1>1. PICK d : d = Datagram(sent[1])
  OBVIOUS
<1>2. fault = NoFault \/ (Exposed(sent[1]) /\ ~m_enhanced_CAMs /\ Damaged(d))
  BY <1>1 DEF IInv, FrameKnown
<1>3. Exposed(sent[1]) /\ ~m_enhanced_CAMs /\ Damaged(d)
  BY <1>2 DEF NoFault
<1>4. ~FlipOf(d)
  BY DEF FlipOf
<1>5. CutFrom(d)
  BY <1>3, <1>4 DEF Damaged
<1>6. \E n \in 1 .. Len(d) - 1 : frame = SubSeq(d, 1, n)
  BY <1>5 DEF CutFrom
<1> QED
  BY <1>1, <1>3, <1>6

LEMMA InMemory ==
  ASSUME NEW b \in Seq(0 .. 255), NEW n \in Nat, n = Len(b), n <= BufferOctets,
         NEW stale \in 0 .. 255, NEW i \in 1 .. n
  PROVE  Memory(b, stale)[i] = b[i]
<1>1. PICK k \in Nat : k = BufferOctets - Len(b)
  BY BufferRange
<1>2. PICK t : t = [j \in 1 .. k |-> stale]
  OBVIOUS
<1>3. t \in Seq(0 .. 255)
  BY <1>2
<1>4. Memory(b, stale) = b \o t
  BY <1>1, <1>2, Zenon DEF Memory
<1>5. (b \o t)[i] = b[i]
  BY <1>3
<1> QED
  BY <1>4, <1>5

\* A bare message without its end: the facilities layer of decodeEtsi refuses it.
LEMMA CutFacilities ==
  ASSUME CutRefused, HeaderFirst, data = NoData, ~m_enhanced_CAMs,
         NEW e \in Messages, Exposed(e), e.type \in {"CAM", "DENM"},
         NEW d \in Seq(0 .. 255), d = EncodingOf(e), NEW n \in 1 .. Len(d) - 1,
         NEW b, b = SubSeq(d, 1, n), Len(d) <= BufferOctets,
         NEW stale \in 0 .. 255, NEW m, m = Memory(b, stale)
  PROVE  ~isGeoNet(b) /\ decodeFacilities(m[2], b).rc = ETSI_DECODER_ERROR
<1>1. Len(d) \in Nat /\ n \in Nat /\ n <= Len(d) /\ n >= 1
  BY OctetSeq
<1>2. b \in Seq(0 .. 255) /\ Len(b) = n /\ \A i \in 1 .. n : b[i] = d[i]
  BY <1>1, OctetPrefix
<1>3. PICK id \in {1, 2} : d[2] = id /\ id = IF e.type = "DENM" THEN 1 ELSE 2
  BY DEF HeaderFirst
<1>4. n >= 2 => m[2] = id /\ b[2] = id
  <2>1. SUFFICES ASSUME n >= 2 PROVE m[2] = id /\ b[2] = id
    OBVIOUS
  <2>2. 2 \in 1 .. n
    BY <1>1, <2>1
  <2>3. b[2] = id
    BY <1>2, <1>3, <2>2
  <2>4. m[2] = b[2]
    <3>1. Len(b) <= BufferOctets
      BY <1>1, <1>2, BufferRange
    <3>2. Memory(b, stale)[2] = b[2]
      BY <1>1, <1>2, <2>2, <3>1, InMemory
    <3> QED
      BY <1>2, <2>2, <3>2
  <2> QED
    BY <2>3, <2>4
<1>5. ~isGeoNet(b)
  <2>1. CASE n >= 2
    BY <1>4, <2>1 DEF isGeoNet, is_enum_valid_etsi_message_t
  <2>2. CASE ~(n >= 2)
    BY <1>1, <1>2, <2>2 DEF isGeoNet
  <2> QED
    BY <2>1, <2>2
<1>6. \A type \in {"CAM", "DENM"} : n < 2 \/ type = e.type => Decoded(type, <<>>, b).code # "OK"
  <2>1. ASSUME NEW type \in {"CAM", "DENM"}, n < 2 PROVE Decoded(type, <<>>, b).code # "OK"
    <3>1. n = 1
      BY <1>1, <2>1
    <3>2. PICK octet \in 0 .. 255 : octet = b[1]
      BY <1>2, <3>1, OctetSeq, SMTT(20)
    <3>3. b = <<octet>>
      <4>1. <<octet>> \in Seq(0 .. 255) /\ Len(<<octet>>) = 1 /\ <<octet>>[1] = octet
        OBVIOUS
      <4> QED
        <5>1. Len(b) = 1 /\ \A i \in 1 .. 1 : b[i] = <<octet>>[i]
          BY <1>2, <3>1, <3>2, <4>1
        <5> QED
          BY <1>2, <4>1, <5>1, SeqEqual, Zenon
    <3> QED
      BY <3>3 DEF CutRefused
  <2>2. Decoded(e.type, <<>>, b).code # "OK"
    BY DEF CutRefused
  <2> QED
    BY <2>1, <2>2
<1>7. CASE m[2] = 2
  <2>1. n < 2 \/ e.type = "CAM"
    BY <1>3, <1>4, <1>7
  <2>2. Decoded("CAM", <<>>, b).code # "OK"
    BY <1>6, <2>1
  <2> QED
    BY <1>5, <1>7, <2>2 DEF decodeFacilities, DecodedAgain, Result
<1>8. CASE m[2] = 1
  <2>1. n < 2 \/ e.type = "DENM"
    BY <1>1, <1>3, <1>4, <1>8
  <2>2. Decoded("DENM", <<>>, b).code # "OK"
    BY <1>6, <2>1
  <2> QED
    BY <1>5, <1>8, <2>2 DEF decodeFacilities, Result
<1>9. CASE m[2] \notin {1, 2}
  BY <1>5, <1>9 DEF decodeFacilities
<1> QED
  BY <1>7, <1>8, <1>9

LEMMA CutReturns ==
  ASSUME CutRefused, HeaderFirst, IInv, decodeEtsi \/ asn_decode, fault.kind = "cut",
         sent[1].framing.layer \in {"none", "facilities"}
  PROVE  rc' = ETSI_DECODER_ERROR
<1>0. /\ data = NoData /\ sent # <<>> /\ Valid(sent[1])
      /\ Datagram(sent[1]) = EncodingOf(sent[1])
      /\ EncodingOf(sent[1]) \in Seq(0 .. 255) /\ Len(EncodingOf(sent[1])) <= BufferOctets
  <2>1. sent # <<>> /\ rc = Unwritten
    BY DEF decodeEtsi, asn_decode
  <2>2. Datagram(sent[1]) = EncodingOf(sent[1])
    BY DEF Datagram
  <2> QED
    BY <2>1, <2>2, ValidSent DEF IInv, DataKnown
<1>1. PICK e : e = Entry(sent[1])
  OBVIOUS
<1>2. PICK d \in Seq(0 .. 255) : d = EncodingOf(e) /\ d = Datagram(sent[1]) /\ Len(d) <= BufferOctets
  BY <1>0, <1>1, SameEncoding
<1>3. Exposed(e) /\ ~m_enhanced_CAMs /\ e.type = sent[1].type
  BY <1>0, <1>1, CutFrame DEF Entry, Exposed
<1>4. PICK n \in 1 .. Len(d) - 1 : frame = SubSeq(d, 1, n)
  BY <1>0, <1>2, CutFrame
<1>5. CASE asn_decode
  <2>1. e \in Values
    BY <1>0, <1>1, <1>5, FramingLayers DEF asn_decode
  <2>2. Decoded(e.type, <<>>, frame).code # "OK"
    BY <1>2, <1>3, <1>4, <2>1 DEF CutRefused
  <2> QED
    BY <1>3, <1>5, <2>2 DEF asn_decode, Return, Result
<1>6. CASE decodeEtsi
  <2>1. e \in Messages /\ e.type \in {"CAM", "DENM"}
    BY <1>0, <1>1, <1>3, <1>6, FramingLayers DEF decodeEtsi, CAMType
  <2>2. PICK stale \in StaleOctets : LET m == Memory(frame, stale)
           IN  Return(IF isGeoNet(frame) THEN decodePacket(m) ELSE decodeFacilities(m[2], frame))
    BY <1>6 DEF decodeEtsi
  <2>3. PICK m : m = Memory(frame, stale)
    OBVIOUS
  <2>4. stale \in 0 .. 255
    BY StaleRange
  <2>5. ~isGeoNet(frame) /\ decodeFacilities(m[2], frame).rc = ETSI_DECODER_ERROR
    BY <1>0, <1>2, <1>3, <1>4, <2>1, <2>3, <2>4, CutFacilities
  <2> QED
    BY <2>2, <2>3, <2>5 DEF Return
<1> QED
  BY <1>5, <1>6

LEMMA TruncationStep ==
  ASSUME CutRefused, HeaderFirst, IInv, TruncationRefused, [Next]_vars
  PROVE  TruncationRefused'
<1>1. CASE rc' = Unwritten
  BY <1>1 DEF TruncationRefused
<1>2. CASE UNCHANGED vars
  BY <1>2 DEF TruncationRefused, vars
<1>3. CASE decodeEtsi \/ asn_decode
  <2>1. fault' = fault /\ sent' = sent
    BY <1>3 DEF decodeEtsi, asn_decode, Return
  <2> QED
    BY <1>3, <2>1, CutReturns DEF TruncationRefused
<1> QED
  BY <1>1, <1>2, <1>3, QuietStep

\* A bare message or value that has lost its end is refused by decodeEtsi, which reads the
\* messageID from the buffer even when the datagram is too short to have one.
THEOREM TruncationNeverDelivered ==
  ASSUME CutRefused, HeaderFirst
  PROVE  Spec => []TruncationRefused
<1>1. Init => IInv /\ TruncationRefused
  BY InvInit DEF Init, TruncationRefused
<1>2. IInv /\ TruncationRefused /\ [Next]_vars => (IInv /\ TruncationRefused)'
  BY InvNext, TruncationStep
<1> QED
  BY <1>1, <1>2, PTL DEF Spec

-----------------------------------------------------------------------------
(* What arrives whole is delivered                                         *)

\* r is what was sent.
SameAs(r) ==
    /\ r.rc = ETSI_DECODER_OK
    /\ r.data.type = SentKind /\ r.data.decoded_msg = <<SentMessage>>
    /\ sent[1].framing.layer \in {"SHB", "GBC"} =>
           r.data.gnTimestamp = Stamp /\ r.data.GNaddress = Address
    /\ sent[1].framing.layer = "GBC" /\ sent[1].type = "DENM" =>
           r.data.area = gbcHeader_GetGeoArea(frame, 12)

LEMMA ResultGiven ==
  ASSUME NEW x, NEW v, Gives(x, v), NEW tag, NEW ts, NEW address, NEW area,
         NEW d, d = [type |-> tag, gnTimestamp |-> ts, GNaddress |-> address, area |-> area,
                     decoded_msg |-> <<>>],
         NEW r, r = Result(x, d)
  PROVE  /\ r.rc = ETSI_DECODER_OK /\ r.data.type = tag /\ r.data.decoded_msg = <<v>>
         /\ r.data.gnTimestamp = ts /\ r.data.GNaddress = address /\ r.data.area = area
BY DEF Result, Gives

\* The decoder of its type gives back what a whole datagram carries.
LEMMA SentGiven ==
  ASSUME RoundTrip, NEW s, Valid(s), Len(EncodingOf(s)) <= BufferOctets
  PROVE  /\ Gives(Decoded(s.type, <<>>, EncodingOf(s)), Message(s.type, s.kind))
         /\ Entry(s) \in Messages /\ s.type = "CAM" /\ ~HasLists(Message(s.type, s.kind)) =>
                Gives(Decoded("CAM", <<Message(s.type, s.kind)>>, EncodingOf(s)), Message(s.type, s.kind))
<1>1. PICK e : e = Entry(s)
  OBVIOUS
<1>2. e.type = s.type /\ e.kind = s.kind /\ EncodingOf(e) = EncodingOf(s)
  BY <1>1, SameEncoding DEF Entry
<1>3. e \in Messages \cup Values /\ Fits(e)
  BY <1>1, <1>2 DEF Valid, Fits
<1> QED
  BY <1>1, <1>2, <1>3 DEF RoundTrip

LEMMA ValueAsSent ==
  ASSUME RoundTrip, data = NoData, NEW s, s = sent[1], Valid(s), s.framing.layer = "none",
         frame = EncodingOf(s), Len(frame) <= BufferOctets
  PROVE  SameAs(Result(Decoded(s.type, <<>>, frame), [data EXCEPT !.type = "value"]))
<1>1. PICK x, v : x = Decoded(s.type, <<>>, frame) /\ v = Message(s.type, s.kind)
  OBVIOUS
<1>2. Gives(x, v)
  BY <1>1, SentGiven
<1>3. PICK d : d = [type |-> "value", gnTimestamp |-> Unwritten, GNaddress |-> Unwritten,
                    area |-> Unwritten, decoded_msg |-> <<>>]
  OBVIOUS
<1>4. d = [data EXCEPT !.type = "value"]
  BY <1>3 DEF NoData
<1>5. PICK r : r = Result(x, d)
  OBVIOUS
<1>6. r.rc = ETSI_DECODER_OK /\ r.data.type = "value" /\ r.data.decoded_msg = <<v>>
  BY <1>2, <1>3, <1>5, ResultGiven
<1>7. SentKind = "value" /\ SentMessage = v
  BY <1>1 DEF SentKind, SentMessage
<1>8. SameAs(r)
  BY <1>6, <1>7 DEF SameAs
<1> QED
  BY <1>1, <1>4, <1>5, <1>8

LEMMA BareAsSent ==
  ASSUME RoundTrip, HeaderFirst, data = NoData, NEW s, s = sent[1], Valid(s),
         s.framing.layer = "facilities", ~DecodedTwice, m_enhanced_CAMs \in BOOLEAN,
         frame \in Seq(0 .. 255), frame = EncodingOf(s), Len(frame) <= BufferOctets,
         NEW stale \in 0 .. 255, NEW m, m = Memory(frame, stale)
  PROVE  ~isGeoNet(frame) /\ SameAs(decodeFacilities(m[2], frame))
<1>1. PICK e \in Messages : e = Entry(s) /\ s.type \in {CAMType, "DENM"}
  BY FramingLayers
<1>2. PICK id \in {1, 2} :
         id = (IF s.type = "DENM" THEN 1 ELSE 2) /\ Len(frame) >= 2 /\ frame[2] = id
  <2>1. e.type = s.type /\ EncodingOf(e) = frame
    BY <1>1, SameEncoding DEF Entry
  <2> QED
    BY <2>1 DEF HeaderFirst
<1>3. m[2] = id
  <2>1. Len(frame) \in Nat /\ 2 \in 1 .. Len(frame)
    BY <1>2, OctetSeq
  <2>2. Memory(frame, stale)[2] = frame[2]
    BY <2>1, InMemory
  <2> QED
    BY <1>2, <2>2
<1>4. ~isGeoNet(frame)
  BY <1>2 DEF isGeoNet, is_enum_valid_etsi_message_t
<1>5. PICK v : v = Message(s.type, s.kind) /\ v = SentMessage
  BY DEF SentMessage
<1>6. /\ Gives(Decoded(s.type, <<>>, frame), v)
      /\ s.type = "CAM" /\ ~HasLists(v) => Gives(Decoded("CAM", <<v>>, frame), v)
  BY <1>1, <1>5, SentGiven
<1>7. CASE s.type = "DENM"
  <2>1. PICK d : d = [type |-> "DENM_NOGN", gnTimestamp |-> Unwritten, GNaddress |-> Unwritten,
                      area |-> Unwritten, decoded_msg |-> <<>>]
    OBVIOUS
  <2>2. PICK x : x = Decoded("DENM", <<>>, frame)
    OBVIOUS
  <2>3. PICK r : r = Result(x, d)
    OBVIOUS
  <2>4. decodeFacilities(m[2], frame) = r
    <3>1. m[2] = 1
      BY <1>2, <1>3, <1>7
    <3>2. d = [data EXCEPT !.type = "DENM_NOGN"]
      BY <2>1 DEF NoData
    <3> QED
      BY <2>2, <2>3, <3>1, <3>2 DEF decodeFacilities
  <2>5. r.rc = ETSI_DECODER_OK /\ r.data.type = "DENM_NOGN" /\ r.data.decoded_msg = <<v>>
    BY <1>6, <1>7, <2>1, <2>2, <2>3, ResultGiven
  <2>6. SentKind = "DENM_NOGN"
    BY <1>7 DEF SentKind
  <2>7. SameAs(r)
    BY <1>5, <2>5, <2>6 DEF SameAs
  <2> QED
    BY <1>4, <2>4, <2>7
<1>8. CASE s.type # "DENM"
  <2>0. ~m_enhanced_CAMs /\ ~HasLists(v) /\ s.type = "CAM"
    BY <1>1, <1>5, <1>8 DEF DecodedTwice, CAMType
  <2>1. PICK d : d = [type |-> "CAM_NOGN", gnTimestamp |-> Unwritten, GNaddress |-> Unwritten,
                      area |-> Unwritten, decoded_msg |-> <<>>]
    OBVIOUS
  <2>2. PICK first, x : first = Decoded("CAM", <<>>, frame) /\ x = DecodedAgain(first, frame)
    OBVIOUS
  <2>3. PICK r : r = Result(x, d)
    OBVIOUS
  <2>4. decodeFacilities(m[2], frame) = r
    <3>1. m[2] = 2
      BY <1>2, <1>3, <1>8
    <3>2. d = [data EXCEPT !.type = "CAM_NOGN"]
      BY <2>1 DEF NoData
    <3> QED
      BY <2>0, <2>2, <2>3, <3>1, <3>2 DEF decodeFacilities
  <2>5. Gives(x, v)
    BY <1>6, <2>0, <2>2 DEF Gives, DecodedAgain
  <2>6. r.rc = ETSI_DECODER_OK /\ r.data.type = "CAM_NOGN" /\ r.data.decoded_msg = <<v>>
    BY <2>1, <2>3, <2>5, ResultGiven
  <2>7. SentKind = "CAM_NOGN"
    BY <1>8 DEF SentKind
  <2>8. SameAs(r)
    BY <1>5, <2>6, <2>7 DEF SameAs
  <2> QED
    BY <1>4, <2>4, <2>8
<1> QED
  BY <1>7, <1>8

LEMMA VectorFields ==
  Field(Vector, 0, 8) = Address /\ Field(Vector, 8, 4) = Stamp
<1>1. /\ Address \in Seq(Int) /\ Len(Address) = 8
      /\ Stamp \in Seq(Int) /\ Len(Stamp) = 4
  BY DEF Address, Stamp
<1>2. PICK r : r = <<27, 82, 84, 77, 4, 201, 19, 140, 133, 220, 14, 16>>
  OBVIOUS
<1>3. r \in Seq(Int) /\ Len(r) = 12
  BY <1>2
<1>4. Vector = Cat(Cat(Address, Stamp), r)
  BY <1>2, Zenon DEF Vector, Cat
<1>5. Agree(Vector, 0, Address, 0, 8) /\ Agree(Vector, 8, Stamp, 0, 4)
  <2>1. Joins(Vector, 24, Address, 8, Stamp, 4, r, 12)
    BY <1>1, <1>3, <1>4 DEF Joins
  <2> QED
    BY <2>1, ThreeParts
<1>6. Field(Vector, 0, 8) = Address
  BY <1>1, <1>5, WholeField
<1>7. Field(Vector, 8, 4) = Stamp
  BY <1>1, <1>5, WholeField
<1> QED
  BY <1>6, <1>7

\* The headers of a packet, as far as the frontend looks at them.
LEMMA PacketHeaders ==
  ASSUME NEW s, Valid(s), s.framing.layer \in {"SHB", "GBC"},
         NEW p, p = Datagram(s), Len(p) <= BufferOctets, NEW m, SameUpTo(p, m, Len(p))
  PROVE  /\ Len(p) \in Nat /\ Len(p) = HeaderLength(s.framing.layer) + 4 + Len(EncodingOf(s))
         /\ Laid(m, s.framing.layer, s.framing.btp, Port(s), Vector, Area, EncodingOf(s),
                 Len(EncodingOf(s)))
<1>1. PICK layer \in {"SHB", "GBC"}, btp \in {BTP_A, BTP_B}, port \in {CA_PORT, DEN_PORT},
           payload \in Seq(Int) :
         /\ layer = s.framing.layer /\ btp = s.framing.btp /\ port = Port(s)
         /\ payload = EncodingOf(s)
         /\ p = Packet(layer, btp, port, Vector, Area, payload)
  BY SentPacket
<1>2. Vector \in Seq(Int) /\ Len(Vector) = 24 /\ Area \in Seq(Int) /\ Len(Area) = 14
  BY VectorOctets, OctetSeq
<1>3. PICK n \in Nat : n = Len(payload)
  BY SeqLen
<1>4. p \in Seq(Int) /\ Len(p) = HeaderLength(layer) + 4 + n
  BY <1>1, <1>2, <1>3, PacketParts
<1>5. Laid(m, layer, btp, port, Vector, Area, payload, n)
  BY <1>1, <1>2, <1>3, PacketParts
<1> QED
  BY <1>1, <1>3, <1>4, <1>5, SeqLen

\* What the first twelve octets of a packet are.
LEMMA LaidCommon ==
  ASSUME NEW layer \in {"SHB", "GBC"}, NEW btp \in {BTP_A, BTP_B}, NEW port, NEW payload,
         NEW n \in Nat, NEW m, Laid(m, layer, btp, port, Vector, Area, payload, n)
  PROVE  /\ m[1] = 17 /\ m[2] = 0 /\ m[4] = HopLimit(layer) /\ m[5] = 16 * btp
         /\ m[6] = 16 * Transport(layer)
         /\ m[9] = (n + 4) \div 256 /\ m[10] = (n + 4) % 256 /\ m[11] = HopLimit(layer)
<1>1. PICK c : c = Common(Transport(layer), HopLimit(layer), btp, n + 4)
  OBVIOUS
<1>2. \A i \in 1 .. 12 : m[i] = c[i]
  BY <1>1 DEF Laid, Agree
<1>3. /\ c[1] = 17 /\ c[2] = 0 /\ c[4] = HopLimit(layer) /\ c[5] = 16 * btp
      /\ c[6] = 16 * Transport(layer)
      /\ c[9] = (n + 4) \div 256 /\ c[10] = (n + 4) % 256 /\ c[11] = HopLimit(layer)
  BY <1>1 DEF Common
<1> QED
  BY <1>2, <1>3

LEMMA PacketIsGeoNet ==
  ASSUME NEW s, Valid(s), s.framing.layer \in {"SHB", "GBC"},
         NEW p, p = Datagram(s), Len(p) <= BufferOctets
  PROVE  isGeoNet(p)
<1>1. SameUpTo(p, p, Len(p))
  BY DEF SameUpTo
<1>2. Len(p) = HeaderLength(s.framing.layer) + 4 + Len(EncodingOf(s))
  BY <1>1, PacketHeaders
<1>3. Laid(p, s.framing.layer, s.framing.btp, Port(s), Vector, Area, EncodingOf(s), Len(EncodingOf(s)))
  BY <1>1, PacketHeaders
<1>4. Len(EncodingOf(s)) \in Nat
  BY ValidEncoding, OctetSeq
<1>5. p[2] = 0
  BY <1>3, <1>4, LaidCommon, FramingLayers
<1> QED
  BY <1>2, <1>4, <1>5 DEF isGeoNet, is_enum_valid_etsi_message_t, HeaderLength

\* A packet in msgbuf is read as it was sent.
LEMMA SentIsRead ==
  ASSUME NEW s, Valid(s), s.framing.layer \in {"SHB", "GBC"},
         NEW p, p = Datagram(s), Len(p) <= BufferOctets, NEW m, SameUpTo(p, m, Len(p)),
         NEW gn, gn = decodeGN(m), NEW b, b = decodeBTP(m, gn, BufferOctets)
  PROVE  /\ gn.code = "GN_OK" /\ b.code = "BTP_OK" /\ b.destPort = Port(s)
         /\ gn.SourcePV.GnAddress = Address /\ gn.SourcePV.TST = Stamp
         /\ s.framing.layer = "GBC" => gn.GnAddressDest = gbcHeader_GetGeoArea(m, 12)
         /\ b.data \in Nat /\ b.lenght \in Nat /\ b.data + b.lenght = Len(p)
         /\ Field(m, b.data, b.lenght) = EncodingOf(s)
<1>1. PICK layer \in {"SHB", "GBC"}, btp \in {BTP_A, BTP_B}, port \in {CA_PORT, DEN_PORT},
           payload \in Seq(Int) :
         /\ layer = s.framing.layer /\ btp = s.framing.btp /\ port = Port(s)
         /\ payload = EncodingOf(s) /\ PayloadFits(payload)
         /\ p = Packet(layer, btp, port, Vector, Area, payload)
  BY SentPacket
<1>2. Vector \in Seq(Int) /\ Len(Vector) = 24 /\ Area \in Seq(Int) /\ Len(Area) = 14
  BY VectorOctets, OctetSeq
<1>3. /\ gn.code = "GN_OK" /\ b.code = "BTP_OK" /\ b.destPort = port
      /\ gn.SourcePV = LongPositionVector(Vector, 0)
      /\ b.data \in Nat /\ b.lenght \in Nat /\ b.data + b.lenght = Len(p)
      /\ Field(m, b.data, b.lenght) = payload
  <2>1. SameUpTo(p, m, Len(p)) /\ gn = decodeGN(m) /\ b = decodeBTP(m, gn, BufferOctets)
    OBVIOUS
  <2>2. gn.code = "GN_OK" /\ gn.SourcePV = LongPositionVector(Vector, 0)
    BY <1>1, <1>2, <2>1, PacketIsRead
  <2>3. b.code = "BTP_OK" /\ b.destPort = port
    BY <1>1, <1>2, <2>1, PacketIsRead, SMTT(20)
  <2>4. EndsAt(b, Len(p))
    BY <1>1, <1>2, <2>1, PacketIsRead
  <2>5. Field(m, b.data, b.lenght) = payload
    BY <1>1, <1>2, <2>1, PacketIsRead
  <2> QED
    BY <2>2, <2>3, <2>4, <2>5 DEF EndsAt
<1>4. gn.SourcePV.GnAddress = Address /\ gn.SourcePV.TST = Stamp
  BY <1>3, VectorFields DEF LongPositionVector
<1>5. layer = "GBC" => gn.GnAddressDest = gbcHeader_GetGeoArea(m, 12)
  <2>1. SUFFICES ASSUME layer = "GBC" PROVE gn.GnAddressDest = gbcHeader_GetGeoArea(m, 12)
    OBVIOUS
  <2>2. PICK n \in Nat : n = Len(payload)
    BY SeqLen
  <2>3. Laid(m, layer, btp, port, Vector, Area, payload, n)
    BY <1>1, <2>2, PacketHeaders
  <2>4. m[6] = 16 * GBC
    BY <2>1, <2>3, LaidCommon DEF Transport
  <2>5. High4(Octet(m, 5)) = GBC
    BY <2>4 DEF High4, Octet, GBC
  <2> QED
    BY <1>3, <2>5, Accepted
<1> QED
  BY <1>1, <1>3, <1>4, <1>5

LEMMA PacketAsSent ==
  ASSUME RoundTrip, data = NoData, NEW s, s = sent[1], Valid(s),
         s.framing.layer \in {"SHB", "GBC"},
         frame \in Seq(0 .. 255), frame = Datagram(s), Len(frame) <= BufferOctets,
         NEW stale \in 0 .. 255, NEW m, m = Memory(frame, stale)
  PROVE  isGeoNet(frame) /\ SameAs(decodePacket(m))
<1>1. isGeoNet(frame)
  BY PacketIsGeoNet
<1>2. PICK p \in Seq(0 .. 255) : p = frame
  OBVIOUS
<1>3. PICK n \in Nat : n = Len(p) /\ n <= BufferOctets /\ n >= 44
  BY <1>1, <1>2, OctetSeq DEF isGeoNet
<1>4. SameUpTo(p, m, n)
  <2>1. ASSUME NEW i \in 1 .. n PROVE p[i] = m[i]
    <3>1. Memory(p, stale)[i] = p[i]
      BY <1>3, InMemory
    <3> QED
      BY <1>2, <3>1
  <2> QED
    BY <2>1 DEF SameUpTo
<1>5. PICK gn : gn = decodeGN(m)
  OBVIOUS
<1>6. PICK b : b = decodeBTP(m, gn, BufferOctets)
  OBVIOUS
<1>7. /\ gn.code = "GN_OK" /\ b.code = "BTP_OK" /\ b.destPort = Port(s)
      /\ gn.SourcePV.GnAddress = Address /\ gn.SourcePV.TST = Stamp
      /\ s.framing.layer = "GBC" => gn.GnAddressDest = gbcHeader_GetGeoArea(m, 12)
      /\ b.data \in Nat /\ b.lenght \in Nat /\ b.data + b.lenght = n
      /\ Field(m, b.data, b.lenght) = EncodingOf(s)
  BY <1>2, <1>3, <1>4, <1>5, <1>6, SentIsRead
<1>8. decodePacket(m) = decodePayload(gn, b, m)
  BY <1>5, <1>6, <1>7 DEF decodePacket, afterGN, afterBTP
<1>9. Payload(m, b) = EncodingOf(s)
  <2>1. (IF b.data + b.lenght < BufferOctets THEN b.data + b.lenght ELSE BufferOctets)
           = b.data + b.lenght
    BY <1>3, <1>7, BufferRange
  <2> QED
    BY <1>7, <2>1 DEF Payload, Field
<1>10. PICK v : v = Message(s.type, s.kind) /\ v = SentMessage
  BY DEF SentMessage
<1>11. Gives(Decoded(s.type, <<>>, EncodingOf(s)), v)
  <2>1. Len(EncodingOf(s)) \in Nat /\ Len(Datagram(s)) >= Len(EncodingOf(s)) + 44
    BY SentPacket, ValidEncoding, OctetSeq
  <2>2. Len(EncodingOf(s)) <= BufferOctets
    BY <1>2, <1>3, <2>1, BufferRange
  <2> QED
    BY <1>10, <2>2, SentGiven
<1>12. s.type \in {CAMType, "DENM"}
  BY FramingLayers
<1>13. CASE s.type # "DENM"
  <2>1. PICK x : x = Decoded(CAMType, <<>>, EncodingOf(s))
    OBVIOUS
  <2>2. PICK d : d = [type |-> "CAM", gnTimestamp |-> Stamp, GNaddress |-> Address,
                      area |-> Unwritten, decoded_msg |-> <<>>]
    OBVIOUS
  <2>3. PICK r : r = Result(x, d)
    OBVIOUS
  <2>4. decodePayload(gn, b, m) = r
    <3>1. b.destPort = CA_PORT
      BY <1>7, <1>13 DEF Port
    <3>2. d = [data EXCEPT !.gnTimestamp = gn.SourcePV.TST,
                           !.GNaddress = gn.SourcePV.GnAddress, !.type = "CAM"]
      <4>1. PICK d1 : d1 = [data EXCEPT !.gnTimestamp = gn.SourcePV.TST,
                                        !.GNaddress = gn.SourcePV.GnAddress, !.type = "CAM"]
        OBVIOUS
      <4>2. d1 = [type |-> "CAM", gnTimestamp |-> Stamp, GNaddress |-> Address,
                  area |-> Unwritten, decoded_msg |-> <<>>]
        BY <1>7, <4>1 DEF NoData
      <4> QED
        BY <2>2, <4>1, <4>2
    <3> QED
      BY <1>9, <2>1, <2>3, <3>1, <3>2 DEF decodePayload
  <2>5. Gives(x, v)
    BY <1>11, <1>12, <1>13, <2>1
  <2>6. /\ r.rc = ETSI_DECODER_OK /\ r.data.type = "CAM" /\ r.data.decoded_msg = <<v>>
        /\ r.data.gnTimestamp = Stamp /\ r.data.GNaddress = Address
    BY <2>2, <2>3, <2>5, ResultGiven
  <2>7. SentKind = "CAM"
    BY <1>13 DEF SentKind
  <2>8. SameAs(r)
    BY <1>10, <1>13, <2>6, <2>7 DEF SameAs
  <2> QED
    BY <1>1, <1>8, <2>4, <2>8
<1>14. CASE s.type = "DENM"
  <2>1. PICK x : x = Decoded("DENM", <<>>, EncodingOf(s))
    OBVIOUS
  <2>2. PICK area : area = gn.GnAddressDest
    OBVIOUS
  <2>3. PICK d : d = [type |-> "DENM", gnTimestamp |-> Stamp, GNaddress |-> Address,
                      area |-> area, decoded_msg |-> <<>>]
    OBVIOUS
  <2>4. PICK r : r = Result(x, d)
    OBVIOUS
  <2>5. decodePayload(gn, b, m) = r
    <3>1. b.destPort # CA_PORT
      BY <1>7, <1>14 DEF Port, CA_PORT, DEN_PORT
    <3>2. PICK d1 : d1 = [data EXCEPT !.gnTimestamp = gn.SourcePV.TST,
                                      !.GNaddress = gn.SourcePV.GnAddress, !.type = "DENM"]
      OBVIOUS
    <3>3. d1 = [type |-> "DENM", gnTimestamp |-> Stamp, GNaddress |-> Address,
                area |-> Unwritten, decoded_msg |-> <<>>]
      BY <1>7, <3>2 DEF NoData
    <3>4. d = [d1 EXCEPT !.area = gn.GnAddressDest]
      BY <2>2, <2>3, <3>3
    <3> QED
      BY <1>9, <2>1, <2>4, <3>1, <3>2, <3>4 DEF decodePayload
  <2>6. Gives(x, v)
    BY <1>11, <1>14, <2>1
  <2>7. /\ r.rc = ETSI_DECODER_OK /\ r.data.type = "DENM" /\ r.data.decoded_msg = <<v>>
        /\ r.data.gnTimestamp = Stamp /\ r.data.GNaddress = Address /\ r.data.area = area
    BY <2>3, <2>4, <2>6, ResultGiven
  <2>8. SentKind = "DENM"
    BY <1>14 DEF SentKind
  <2>9. s.framing.layer = "GBC" => area = gbcHeader_GetGeoArea(frame, 12)
    <3>1. SUFFICES ASSUME s.framing.layer = "GBC"
                   PROVE  gbcHeader_GetGeoArea(m, 12) = gbcHeader_GetGeoArea(p, 12)
      BY <1>2, <1>7, <2>2
    <3>2. n >= 60
      <4>1. SameUpTo(p, p, n)
        BY DEF SameUpTo
      <4>2. n = HeaderLength(s.framing.layer) + 4 + Len(EncodingOf(s))
        BY <1>2, <1>3, <4>1, PacketHeaders
      <4>3. Len(EncodingOf(s)) \in Nat
        BY ValidEncoding, OctetSeq
      <4> QED
        BY <3>1, <4>2, <4>3 DEF HeaderLength
    <3> QED
      BY <1>4, <3>2, SameArea
  <2>10. SameAs(r)
    BY <1>10, <1>14, <2>7, <2>8, <2>9 DEF SameAs
  <2> QED
    BY <1>1, <1>8, <2>5, <2>10
<1> QED
  BY <1>13, <1>14

LEMMA WholeReturns ==
  ASSUME RoundTrip, HeaderFirst, IInv, decodeEtsi \/ asn_decode, fault = NoFault, ~DecodedTwice
  PROVE  \E r : Return(r) /\ SameAs(r)
<1>0. sent # <<>> /\ rc = Unwritten
  BY DEF decodeEtsi, asn_decode
<1>1. /\ data = NoData /\ Valid(sent[1]) /\ frame = Datagram(sent[1])
      /\ frame \in Seq(0 .. 255) /\ Len(frame) <= BufferOctets /\ m_enhanced_CAMs \in BOOLEAN
  BY <1>0, ValidSent, WholeFrame DEF IInv, TypeOK, DataKnown
<1>2. PICK s : s = sent[1]
  OBVIOUS
<1>3. CASE asn_decode
  <2>1. s.framing.layer = "none" /\ frame = EncodingOf(s)
    BY <1>1, <1>2, <1>3 DEF asn_decode, Datagram
  <2>2. SameAs(Result(Decoded(s.type, <<>>, frame), [data EXCEPT !.type = "value"]))
    BY <1>1, <1>2, <2>1, ValueAsSent
  <2> QED
    BY <1>2, <1>3, <2>2 DEF asn_decode
<1>4. CASE decodeEtsi
  <2>1. PICK stale \in StaleOctets : LET m == Memory(frame, stale)
           IN  Return(IF isGeoNet(frame) THEN decodePacket(m) ELSE decodeFacilities(m[2], frame))
    BY <1>4 DEF decodeEtsi
  <2>2. PICK m : m = Memory(frame, stale)
    OBVIOUS
  <2>3. stale \in 0 .. 255
    BY StaleRange
  <2>4. CASE s.framing.layer \in {"SHB", "GBC"}
    <3>1. isGeoNet(frame) /\ SameAs(decodePacket(m))
      BY <1>1, <1>2, <2>2, <2>3, <2>4, PacketAsSent
    <3> QED
      BY <2>1, <2>2, <3>1
  <2>5. CASE s.framing.layer = "facilities"
    <3>1. frame = EncodingOf(s)
      BY <1>1, <1>2, <2>5 DEF Datagram
    <3>2. ~isGeoNet(frame) /\ SameAs(decodeFacilities(m[2], frame))
      BY <1>1, <1>2, <2>2, <2>3, <2>5, <3>1, BareAsSent
    <3> QED
      BY <2>1, <2>2, <3>2
  <2> QED
    BY <1>1, <1>2, <1>4, <2>4, <2>5, FramingLayers DEF decodeEtsi
<1> QED
  BY <1>3, <1>4

LEMMA DeliveryStep ==
  ASSUME RoundTrip, HeaderFirst, IInv, DeliveredAsSent, [Next]_vars
  PROVE  DeliveredAsSent'
<1>1. CASE rc' = Unwritten
  BY <1>1 DEF DeliveredAsSent
<1>2. CASE UNCHANGED vars
  BY <1>2 DEF DeliveredAsSent, AsSent, Delivered, SentKind, SentMessage, DecodedTwice, vars
<1>3. CASE decodeEtsi \/ asn_decode
  <2>1. SUFFICES ASSUME fault' = NoFault, ~DecodedTwice' PROVE AsSent'
    BY DEF DeliveredAsSent
  <2>2. UNCHANGED <<m_enhanced_CAMs, sent, frame, fault>>
    BY <1>3 DEF decodeEtsi, asn_decode, Return
  <2>3. ~DecodedTwice
    BY <2>1, <2>2 DEF DecodedTwice, SentMessage
  <2>4. PICK r : Return(r) /\ SameAs(r)
    BY <1>3, <2>1, <2>2, <2>3, WholeReturns
  <2>5. rc' = r.rc /\ data' = r.data
    BY <2>4 DEF Return
  <2>6. SentKind' = SentKind /\ SentMessage' = SentMessage
    BY <2>2 DEF SentKind, SentMessage
  <2>7. Delivered'
    BY <2>4, <2>5 DEF SameAs, Delivered
  <2> QED
    BY <2>2, <2>4, <2>5, <2>6, <2>7 DEF SameAs, AsSent
<1> QED
  BY <1>1, <1>2, <1>3, QuietStep

\* Every message that arrives whole is delivered by decodeEtsi as it was sent, with the time, the
\* address and the area of its packet, unless it is decoded twice.
THEOREM WholeMessagesDelivered ==
  ASSUME RoundTrip, HeaderFirst
  PROVE  Spec => []DeliveredAsSent
<1>1. Init => IInv /\ DeliveredAsSent
  BY InvInit DEF Init, DeliveredAsSent
<1>2. IInv /\ DeliveredAsSent /\ [Next]_vars => (IInv /\ DeliveredAsSent)'
  BY InvNext, DeliveryStep
<1> QED
  BY <1>1, <1>2, PTL DEF Spec

-----------------------------------------------------------------------------
(* What is left of earlier datagrams is not looked at                      *)

\* A packet GeoNet or BTP does not take gives back what there was before.
LEMMA NoPortOutcome ==
  ASSUME NEW m,
         decodeGN(m).code = "GN_OK" => Word16(m, decodeGN(m).data) \notin {CA_PORT, DEN_PORT}
  PROVE  decodePacket(m) = [rc |-> ETSI_DECODER_OK, data |-> data]
<1>1. PICK gn : gn = decodeGN(m)
  OBVIOUS
<1>2. PICK b : b = IF gn.code = "GN_OK" THEN decodeBTP(m, gn, BufferOctets) ELSE BTPError
  OBVIOUS
<1>3. decodePacket(m) = afterBTP(gn, b, m)
  BY <1>1, <1>2 DEF decodePacket, afterGN
<1>4. b.code # "BTP_OK"
  <2>1. CASE gn.code = "GN_OK"
    <3>1. b = decodeBTP(m, gn, BufferOctets) /\ Word16(m, gn.data) \notin {CA_PORT, DEN_PORT}
      BY <1>1, <1>2, <2>1
    <3>2. b = BTPError
      BY <3>1 DEF decodeBTP, btpHeader_removeHeader
    <3> QED
      BY <3>2 DEF BTPError
  <2>2. CASE gn.code # "GN_OK"
    BY <1>2, <2>2 DEF BTPError
  <2> QED
    BY <2>1, <2>2
<1> QED
  BY <1>3, <1>4 DEF afterBTP

\* Two octets of which one or both are left of an earlier datagram are no port.
LEMMA StaleIsNoPort ==
  ASSUME NEW x \in 0 .. 255, NEW y \in 0 .. 255, x = y \/ x # 7
  PROVE  x * 256 + y \notin {CA_PORT, DEN_PORT}
BY DEF CA_PORT, DEN_PORT

\* f is a sequence of n octets.
Bytes(f, n) == f \in Seq(0 .. 255) /\ Len(f) = n

\* m is msgbuf with the n octets of f at its start and an octet of earlier datagrams behind them.
Holds(m, f, n, stale) ==
  /\ Bytes(m, BufferOctets)
  /\ \A i \in 1 .. n : m[i] = f[i]
  /\ \A i \in 1 .. BufferOctets : i > n => m[i] = stale

LEMMA ConstantOctets ==
  ASSUME NEW octet \in 0 .. 255, NEW n \in Nat, NEW t, t = [i \in 1 .. n |-> octet]
  PROVE  Bytes(t, n) /\ \A i \in 1 .. n : t[i] = octet
BY DEF Bytes

\* r is the n octets of s and the k octets of t behind them.
Joined(r, s, n, t, k) ==
  /\ Bytes(r, n + k)
  /\ \A i \in 1 .. n + k : r[i] = IF i <= n THEN s[i] ELSE t[i - n]

LEMMA JoinedOctets ==
  ASSUME NEW n \in Nat, NEW s, Bytes(s, n), NEW k \in Nat, NEW t, Bytes(t, k)
  PROVE  Joined(s \o t, s, n, t, k)
<1>1. PICK r : r = s \o t
  OBVIOUS
<1>2. Bytes(r, n + k)
  <2>1. r \in Seq(0 .. 255)
    BY <1>1, OctetCat DEF Bytes
  <2>2. Len(r) = Len(s) + Len(t)
    BY <1>1, ConcatProperties DEF Bytes
  <2> QED
    BY <2>1, <2>2 DEF Bytes
<1>3. \A i \in 1 .. n + k : r[i] = IF i <= n THEN s[i] ELSE t[i - n]
  BY <1>1 DEF Bytes
<1> QED
  BY <1>1, <1>2, <1>3 DEF Joined

LEMMA MemoryHolds ==
  ASSUME NEW n \in Nat, NEW f, Bytes(f, n), n <= BufferOctets, NEW stale \in 0 .. 255
  PROVE  Holds(Memory(f, stale), f, n, stale)
<1>1. PICK k \in Nat : k = BufferOctets - n
  BY BufferRange
<1>2. PICK t : t = [i \in 1 .. k |-> stale]
  OBVIOUS
<1>3. Bytes(t, k) /\ \A i \in 1 .. k : t[i] = stale
  BY <1>2, ConstantOctets
<1>4. PICK m : m = f \o t
  OBVIOUS
<1>5. m = Memory(f, stale)
  <2>1. k = BufferOctets - Len(f)
    BY <1>1 DEF Bytes
  <2> QED
    BY <1>2, <1>4, <2>1, Zenon DEF Memory
<1>6. n + k = BufferOctets
  BY <1>1, BufferRange
<1>7. /\ Bytes(m, BufferOctets)
      /\ \A i \in 1 .. BufferOctets : m[i] = IF i <= n THEN f[i] ELSE t[i - n]
  <2>1. Joined(m, f, n, t, k)
    BY <1>3, <1>4, JoinedOctets
  <2> QED
    BY <1>6, <2>1 DEF Joined
<1>8. \A i \in 1 .. n : m[i] = f[i]
  BY <1>6, <1>7
<1>9. \A i \in 1 .. BufferOctets : i > n => m[i] = stale
  BY <1>1, <1>3, <1>7, BufferRange
<1> QED
  BY <1>5, <1>7, <1>8, <1>9 DEF Holds

\* No port is at offset q of the n octets of f, and none can begin with their last one.
NoPortAt(f, n, q) ==
  /\ q + 2 <= n => f[q + 1] # 7 \/ f[q + 2] \notin {209, 210}
  /\ q + 1 = n => f[q + 1] # 7

LEMMA PortAbsent ==
  ASSUME NEW n \in Nat, NEW f, Bytes(f, n), n <= BufferOctets,
         NEW stale \in 0 .. 255, NEW q \in Nat, q + 2 <= BufferOctets,
         NoPortAt(f, n, q)
  PROVE  Word16(Memory(f, stale), q) \notin {CA_PORT, DEN_PORT}
<1>1. PICK m : m = Memory(f, stale)
  OBVIOUS
<1>2. PICK i \in Nat, j \in Nat : i = q + 1 /\ j = q + 2
  OBVIOUS
<1>3. /\ Bytes(m, BufferOctets)
      /\ \A x \in 1 .. n : m[x] = f[x]
      /\ \A x \in 1 .. BufferOctets : x > n => m[x] = stale
  <2>1. Holds(m, f, n, stale)
    BY <1>1, MemoryHolds
  <2> QED
    BY <2>1 DEF Holds
<1>4. i \in 1 .. BufferOctets /\ j \in 1 .. BufferOctets
  BY <1>2, BufferRange
<1>5. PICK x \in 0 .. 255, y \in 0 .. 255 : x = m[i] /\ y = m[j]
  BY <1>3, <1>4, OctetSeq DEF Bytes
<1>6. Word16(m, q) = x * 256 + y
  BY <1>2, <1>5 DEF Word16
<1>7. CASE q + 2 <= n
  <2>1. x = f[i] /\ y = f[j]
    BY <1>2, <1>3, <1>5, <1>7
  <2>2. x # 7 \/ y \notin {209, 210}
    BY <1>2, <1>7, <2>1 DEF NoPortAt
  <2> QED
    BY <1>1, <1>6, <2>2 DEF CA_PORT, DEN_PORT
<1>8. CASE q + 1 = n
  <2>1. x = f[i]
    BY <1>2, <1>3, <1>5, <1>8
  <2>2. x # 7
    BY <1>2, <1>8, <2>1 DEF NoPortAt
  <2> QED
    <3>1. x * 256 + y \notin {CA_PORT, DEN_PORT}
      BY <2>2, StaleIsNoPort, Zenon
    <3> QED
      BY <1>1, <1>6, <3>1
<1>9. CASE q >= n
  <2>1. x = stale /\ y = stale
    BY <1>2, <1>3, <1>4, <1>5, <1>9
  <2> QED
    <3>1. x * 256 + y \notin {CA_PORT, DEN_PORT}
      BY <2>1, StaleIsNoPort
    <3> QED
      BY <1>1, <1>6, <3>1
<1> QED
  BY <1>7, <1>8, <1>9

\* A packet whose payload lies within what was received.
LEMMA InFrame ==
  ASSUME NEW m1, NEW m2, NEW n \in Nat, n >= 44, n <= BufferOctets, SameUpTo(m1, m2, n),
         NEW gn, gn = decodeGN(m1),
         gn.code = "GN_OK" => gn.lenght \in Nat /\ gn.lenght >= 4 /\ gn.data + gn.lenght <= n
  PROVE  decodePacket(m1) = decodePacket(m2)
<1>1. decodeGN(m2) = gn
  BY StaleIgnored
<1>2. CASE gn.code # "GN_OK"
  BY <1>1, <1>2 DEF decodePacket, afterGN, afterBTP, BTPError
<1>3. CASE gn.code = "GN_OK"
  <2>1. PICK b : b = decodeBTP(m1, gn, BufferOctets)
    OBVIOUS
  <2>2. /\ decodeBTP(m2, gn, BufferOctets) = b
        /\ b.code = "BTP_OK" => Field(m1, b.data, b.lenght) = Field(m2, b.data, b.lenght)
    BY <1>3, <2>1, StaleIgnored
  <2>3. decodePacket(m1) = afterBTP(gn, b, m1) /\ decodePacket(m2) = afterBTP(gn, b, m2)
    BY <1>1, <1>3, <2>1, <2>2 DEF decodePacket, afterGN
  <2>4. CASE b.code # "BTP_OK"
    BY <2>3, <2>4 DEF afterBTP
  <2>5. CASE b.code = "BTP_OK"
    <3>1. b.data = gn.data + 4 /\ b.lenght = gn.lenght - 4
      BY <1>3, <2>1, <2>5 DEF decodeBTP, BTPError
    <3>2. gn.data \in {40, 56}
      BY <1>3, Accepted
    <3>3. (IF b.data + b.lenght < BufferOctets THEN b.data + b.lenght ELSE BufferOctets)
             = b.data + b.lenght
      BY <1>3, <3>1, <3>2, BufferRange
    <3>4. Payload(m1, b) = Payload(m2, b)
      BY <2>2, <2>5, <3>3 DEF Payload, Field
    <3> QED
      BY <2>3, <2>5, <3>4 DEF afterBTP, decodePayload
  <2> QED
    BY <2>4, <2>5
<1> QED
  BY <1>2, <1>3

\* f is d but for one octet.
AllBut(f, d, i) ==
  /\ f \in Seq(0 .. 255) /\ Len(f) = Len(d)
  /\ \A j \in 1 .. Len(d) : j # i => f[j] = d[j]

\* The n octets of f end with the k octets of enc, at offset at.
EndsWith(f, n, enc, k, at) ==
  n = at + k /\ \A j \in 1 .. k : f[at + j] = enc[j]

\* From offset at to last, m holds enc and an octet of earlier datagrams behind it.
AndMore(m, at, last, enc, stale) ==
  \E t \in 0 .. BufferOctets : SubSeq(m, at + 1, last) = enc \o [i \in 1 .. t |-> stale]

\* What Payload takes of msgbuf behind the octets enc that end the datagram.
LEMMA TrailingPayload ==
  ASSUME NEW n \in Nat, NEW f, Bytes(f, n), n <= BufferOctets, NEW stale \in 0 .. 255,
         NEW k \in Nat, NEW enc, Bytes(enc, k), NEW at \in Nat, EndsWith(f, n, enc, k, at),
         NEW last \in Nat, n <= last, last <= BufferOctets
  PROVE  AndMore(Memory(f, stale), at, last, enc, stale)
<1>0. n = at + k /\ \A j \in 1 .. k : f[at + j] = enc[j]
  BY DEF EndsWith
<1>1. PICK m : m = Memory(f, stale)
  OBVIOUS
<1>2. PICK t \in Nat : t = last - n /\ t \in 0 .. BufferOctets
  BY BufferRange
<1>3. PICK first \in Nat : first = at + 1 /\ first >= 1
  OBVIOUS
<1>4. /\ Bytes(m, BufferOctets)
      /\ \A x \in 1 .. n : m[x] = f[x]
      /\ \A x \in 1 .. BufferOctets : x > n => m[x] = stale
  <2>1. Holds(m, f, n, stale)
    BY <1>1, MemoryHolds
  <2> QED
    BY <2>1 DEF Holds
<1>5. \A x \in first .. last : m[x] \in 0 .. 255
  <2>1. ASSUME NEW x \in first .. last PROVE m[x] \in 0 .. 255
    <3>1. x \in 1 .. Len(m)
      BY <1>3, <1>4, BufferRange DEF Bytes
    <3> QED
      BY <1>4, <3>1, OctetSeq DEF Bytes
  <2> QED
    BY <2>1
<1>6. PICK p : p = SubSeq(m, first, last)
  OBVIOUS
<1>7. /\ p \in Seq(0 .. 255)
      /\ Len(p) = IF first <= last THEN last - first + 1 ELSE 0
      /\ \A i \in 1 .. last - first + 1 : p[i] = m[first + i - 1]
  BY <1>5, <1>6, SubSeqProperties
<1>8. Bytes(p, k + t) /\ \A i \in 1 .. k + t : p[i] = m[at + i]
  <2>1. Len(p) = k + t
    BY <1>0, <1>2, <1>3, <1>7
  <2>2. \A i \in 1 .. k + t : p[i] = m[at + i]
    BY <1>0, <1>2, <1>3, <1>7
  <2> QED
    BY <1>7, <2>1, <2>2 DEF Bytes
<1>9. PICK tail : tail = [i \in 1 .. t |-> stale]
  OBVIOUS
<1>10. Bytes(tail, t) /\ \A i \in 1 .. t : tail[i] = stale
  BY <1>9, ConstantOctets
<1>11. PICK r : r = enc \o tail
  OBVIOUS
<1>12. /\ Bytes(r, k + t)
       /\ \A i \in 1 .. k + t : r[i] = IF i <= k THEN enc[i] ELSE tail[i - k]
  <2>1. Joined(r, enc, k, tail, t)
    BY <1>10, <1>11, JoinedOctets
  <2> QED
    BY <2>1 DEF Joined
<1>13. ASSUME NEW i \in 1 .. k + t PROVE p[i] = r[i]
  <2>1. CASE i <= k
    <3>1. r[i] = enc[i] /\ i \in 1 .. k
      BY <1>12, <2>1
    <3>2. PICK x \in 1 .. n : x = at + i
      BY <1>0, <3>1
    <3>3. m[x] = f[at + i] /\ f[at + i] = enc[i]
      BY <1>0, <1>4, <3>1, <3>2
    <3> QED
      BY <1>8, <3>1, <3>2, <3>3
  <2>2. CASE i > k
    <3>1. r[i] = stale
      <4>1. i - k \in 1 .. t
        BY <2>2
      <4> QED
        BY <1>10, <1>12, <2>2, <4>1
    <3>2. PICK x \in 1 .. BufferOctets : x = at + i /\ x > n
      <4>1. at + i \in Nat /\ at + i > n /\ at + i <= last
        BY <1>0, <1>2, <2>2
      <4> QED
        BY <4>1, BufferRange
    <3>3. m[x] = stale
      BY <1>4, <3>2
    <3> QED
      BY <1>8, <3>1, <3>2, <3>3
  <2> QED
    BY <2>1, <2>2
<1>14. p = r
  BY <1>8, <1>12, <1>13, SeqEqual DEF Bytes
<1> QED
  BY <1>1, <1>2, <1>3, <1>6, <1>9, <1>11, <1>14 DEF AndMore

\* The octets at offset q of f, of n octets, are those at offset at of enc, of c octets, and as
\* many octets are behind them.
SameEnd(f, n, q, enc, c, at) ==
  /\ n + at = c + q
  /\ at < c => f[q + 1] = enc[at + 1]
  /\ at + 1 < c => f[q + 2] = enc[at + 2]

\* Where a message has no port, msgbuf has none.
LEMMA NoPortThere ==
  ASSUME NEW n \in Nat, NEW f, Bytes(f, n), n <= BufferOctets, NEW stale \in 0 .. 255,
         NEW c \in Nat, NEW enc, Bytes(enc, c), NEW at \in Nat, NEW q \in Nat,
         q + 2 <= BufferOctets, ~HasPort(enc, at), SameEnd(f, n, q, enc, c, at)
  PROVE  Word16(Memory(f, stale), q) \notin {CA_PORT, DEN_PORT}
<1>1. CA_PORT \div 256 = 7 /\ CA_PORT % 256 = 209 /\ DEN_PORT % 256 = 210
  BY DEF CA_PORT, DEN_PORT
<1>2. at < c => enc[at + 1] # 7 \/ (at + 1 < c /\ enc[at + 2] \notin {209, 210})
  BY <1>1 DEF HasPort, Bytes
<1>0. /\ n + at = c + q
      /\ at < c => f[q + 1] = enc[at + 1]
      /\ at + 1 < c => f[q + 2] = enc[at + 2]
  BY DEF SameEnd
<1>3. q + 2 <= n => f[q + 1] # 7 \/ f[q + 2] \notin {209, 210}
  <2>1. SUFFICES ASSUME q + 2 <= n PROVE f[q + 1] # 7 \/ f[q + 2] \notin {209, 210}
    OBVIOUS
  <2>2. at < c /\ at + 1 < c
    BY <1>0, <2>1
  <2> QED
    BY <1>0, <1>2, <2>2
<1>4. q + 1 = n => f[q + 1] # 7
  <2>1. SUFFICES ASSUME q + 1 = n PROVE f[q + 1] # 7
    OBVIOUS
  <2>2. at < c /\ ~(at + 1 < c)
    BY <1>0, <2>1
  <2> QED
    BY <1>0, <1>2, <2>2
<1>5. NoPortAt(f, n, q)
  BY <1>3, <1>4 DEF NoPortAt
<1> QED
  BY <1>5, PortAbsent

\* The datagram in msgbuf, at most one of its octets being wrong.
LEMMA DamageKnown ==
  ASSUME IInv, sent # <<>>, fault.kind # "cut"
  PROVE  \E i \in Nat : /\ AllBut(frame, Datagram(sent[1]), i)
                        /\ i # 0 => Exposed(sent[1]) /\ ~m_enhanced_CAMs
<1>1. PICK d : d = Datagram(sent[1]) /\ d \in Seq(0 .. 255)
  BY ValidSent
<1>2. \/ fault = NoFault /\ frame = d
      \/ Exposed(sent[1]) /\ ~m_enhanced_CAMs /\ Damaged(d)
  BY <1>1 DEF IInv, FrameKnown
<1>3. CASE frame = d
  <2>1. AllBut(frame, d, 0)
    BY <1>1, <1>3 DEF AllBut
  <2> QED
    BY <1>1, <2>1
<1>4. CASE Exposed(sent[1]) /\ ~m_enhanced_CAMs /\ Damaged(d)
  <2>1. ~CutFrom(d)
    BY DEF CutFrom
  <2>2. PICK i \in 1 .. Len(d), octet \in 0 .. 255 : frame = [d EXCEPT ![i] = octet]
    BY <1>4, <2>1 DEF Damaged, FlipOf
  <2>3. Len(d) \in Nat
    BY <1>1, OctetSeq
  <2>4. i \in Nat
    BY <2>2, <2>3
  <2>5. frame \in Seq(0 .. 255) /\ Len(frame) = Len(d)
    <3>1. [d EXCEPT ![i] = octet] \in Seq(0 .. 255) /\ Len([d EXCEPT ![i] = octet]) = Len(d)
      BY <1>1, <2>2, ExceptSeq
    <3> QED
      BY <2>2, <3>1
  <2>6. \A j \in 1 .. Len(d) : j # i => frame[j] = d[j]
    BY <1>1, <2>2, <2>3
  <2>7. AllBut(frame, d, i)
    BY <2>5, <2>6 DEF AllBut
  <2> QED
    BY <1>1, <1>4, <2>4, <2>7
<1> QED
  BY <1>2, <1>3, <1>4

\* A packet and its damaged copy, by their parts.
Arrived(s, f, i, layer, k, c, n, enc) ==
  /\ layer = s.framing.layer /\ k = HeaderLength(layer) /\ n = k + 4 + c
  /\ enc = EncodingOf(s) /\ Bytes(enc, c)
  /\ Bytes(f, n) /\ n <= BufferOctets
  /\ \A j \in 1 .. n : j # i => f[j] = Datagram(s)[j]
  /\ Laid(Datagram(s), layer, s.framing.btp, Port(s), Vector, Area, enc, c)

LEMMA ArrivedPacket ==
  ASSUME NEW s, Valid(s), s.framing.layer \in {"SHB", "GBC"},
         Len(Datagram(s)) <= BufferOctets, NEW i \in Nat, NEW f, AllBut(f, Datagram(s), i)
  PROVE  \E layer \in {"SHB", "GBC"}, k \in {40, 56}, c \in Nat, n \in Nat : \E enc :
            Arrived(s, f, i, layer, k, c, n, enc)
<1>1. PICK enc : enc = EncodingOf(s) /\ enc \in Seq(0 .. 255)
  BY ValidEncoding
<1>2. PICK c \in Nat : c = Len(enc)
  BY <1>1, OctetSeq
<1>3. PICK layer \in {"SHB", "GBC"} : layer = s.framing.layer
  OBVIOUS
<1>4. PICK k \in {40, 56} : k = HeaderLength(layer)
  BY DEF HeaderLength
<1>5. PICK d : d = Datagram(s)
  OBVIOUS
<1>6. SameUpTo(d, d, Len(d))
  BY DEF SameUpTo
<1>7. Len(d) = HeaderLength(s.framing.layer) + 4 + Len(EncodingOf(s))
  BY <1>5, <1>6, PacketHeaders
<1>8. Laid(d, s.framing.layer, s.framing.btp, Port(s), Vector, Area, EncodingOf(s),
           Len(EncodingOf(s)))
  BY <1>5, <1>6, PacketHeaders
<1>9. PICK n \in Nat : n = Len(d) /\ n = k + 4 + c /\ n <= BufferOctets
  BY <1>1, <1>2, <1>3, <1>4, <1>5, <1>7
<1>10. Bytes(f, n) /\ \A j \in 1 .. n : j # i => f[j] = d[j]
  BY <1>5, <1>9 DEF AllBut, Bytes
<1>11. Arrived(s, f, i, layer, k, c, n, enc)
  BY <1>1, <1>2, <1>3, <1>4, <1>5, <1>8, <1>9, <1>10 DEF Arrived, Bytes
<1> QED
  BY <1>11

\* The octets of a damaged packet that the frontend looks at.
LEMMA ArrivedOctets ==
  ASSUME NEW s, Valid(s), NEW i \in Nat, NEW f, NEW layer \in {"SHB", "GBC"}, NEW k \in {40, 56},
         NEW c \in Nat, NEW n \in Nat, NEW enc, Arrived(s, f, i, layer, k, c, n, enc)
  PROVE  /\ i # 6 => f[6] = 16 * Transport(layer)
         /\ i \notin {9, 10} => f[9] = (c + 4) \div 256 /\ f[10] = (c + 4) % 256
         /\ i \notin {k + 1, k + 2} => Word16(f, k) = Port(s)
         /\ layer = "GBC" /\ i # 41 => f[41] = 26
         /\ i <= k + 4 => EndsWith(f, n, enc, c, k + 4)
<1>1. PICK d : d = Datagram(s)
  OBVIOUS
<1>2. /\ n = k + 4 + c /\ layer = s.framing.layer /\ k = HeaderLength(layer)
      /\ \A j \in 1 .. n : j # i => f[j] = d[j]
      /\ Laid(d, layer, s.framing.btp, Port(s), Vector, Area, enc, c)
  BY <1>1 DEF Arrived
<1>3. s.framing.btp \in {BTP_A, BTP_B}
  BY <1>2, FramingLayers
<1>4. /\ d[6] = 16 * Transport(layer)
      /\ d[9] = (c + 4) \div 256 /\ d[10] = (c + 4) % 256
  BY <1>2, <1>3, LaidCommon
<1>5. i # 6 => f[6] = 16 * Transport(layer)
  <2>1. 6 \in 1 .. n
    BY <1>2
  <2> QED
    BY <1>2, <1>4, <2>1
<1>6. i \notin {9, 10} => f[9] = (c + 4) \div 256 /\ f[10] = (c + 4) % 256
  <2>1. 9 \in 1 .. n /\ 10 \in 1 .. n
    BY <1>2
  <2> QED
    BY <1>2, <1>4, <2>1
<1>7. i \notin {k + 1, k + 2} => Word16(f, k) = Port(s)
  <2>1. PICK x \in 1 .. n, y \in 1 .. n : x = k + 1 /\ y = k + 2
    BY <1>2
  <2>2. Word16(d, k) = Port(s)
    BY <1>2 DEF Laid
  <2>3. i \notin {x, y} => f[x] = d[x] /\ f[y] = d[y]
    BY <1>2
  <2> QED
    BY <2>1, <2>2, <2>3 DEF Word16
<1>8. layer = "GBC" /\ i # 41 => f[41] = 26
  <2>1. SUFFICES ASSUME layer = "GBC", i # 41 PROVE f[41] = 26
    OBVIOUS
  <2>2. Agree(d, 40, Area, 0, 14)
    BY <1>2, <2>1 DEF Laid
  <2>3. d[40 + 1] = Area[0 + 1]
    BY <2>2 DEF Agree
  <2>4. Area[1] = 26
    BY DEF Area
  <2>5. 41 \in 1 .. n
    BY <1>2, <2>1 DEF HeaderLength
  <2> QED
    BY <1>2, <2>1, <2>3, <2>4, <2>5
<1>9. ASSUME NEW j \in 1 .. c, i # k + 4 + j PROVE f[k + 4 + j] = enc[j]
  <2>1. PICK q \in Nat : q = k + 4
    OBVIOUS
  <2>2. Agree(d, q, enc, 0, c)
    BY <1>2, <2>1 DEF Laid
  <2>3. d[q + j] = enc[0 + j]
    BY <2>2 DEF Agree
  <2>4. PICK x \in 1 .. n : x = q + j
    BY <1>2, <2>1
  <2>5. f[x] = d[x]
    BY <1>2, <1>9, <2>1, <2>4
  <2> QED
    BY <2>1, <2>3, <2>4, <2>5
<1>10. i <= k + 4 => EndsWith(f, n, enc, c, k + 4)
  <2>1. SUFFICES ASSUME i <= k + 4 PROVE EndsWith(f, n, enc, c, k + 4)
    OBVIOUS
  <2>2. \A j \in 1 .. c : i # k + 4 + j
    BY <2>1
  <2>3. \A j \in 1 .. c : f[k + 4 + j] = enc[j]
    BY <1>9, <2>2
  <2> QED
    BY <1>2, <2>3 DEF EndsWith
<1> QED
  BY <1>5, <1>6, <1>7, <1>8, <1>10

\* Two contents of msgbuf with the same datagram.
LEMMA SameFrame ==
  ASSUME NEW n \in Nat, NEW f, Bytes(f, n), n <= BufferOctets, NEW one \in 0 .. 255,
         NEW other \in 0 .. 255
  PROVE  SameUpTo(Memory(f, one), Memory(f, other), n)
<1>1. PICK m1, m2 : m1 = Memory(f, one) /\ m2 = Memory(f, other)
  OBVIOUS
<1>2. Holds(m1, f, n, one)
  BY <1>1, MemoryHolds
<1>3. Holds(m2, f, n, other)
  BY <1>1, MemoryHolds
<1>4. SameUpTo(m1, m2, n)
  BY <1>2, <1>3 DEF Holds, SameUpTo
<1> QED
  BY <1>1, <1>4

LEMMA WordRange ==
  ASSUME NEW n \in Nat, NEW m, Bytes(m, n), NEW at \in Nat, at + 2 <= n
  PROVE  Word16(m, at) \in Nat
<1>1. PICK i \in 1 .. n, j \in 1 .. n : i = at + 1 /\ j = at + 2
  OBVIOUS
<1>2. PICK x \in 0 .. 255, y \in 0 .. 255 : x = m[i] /\ y = m[j]
  BY OctetSeq DEF Bytes
<1>3. Word16(m, at) = x * 256 + y
  BY <1>1, <1>2 DEF Word16
<1> QED
  BY <1>3

LEMMA FromFrame ==
  ASSUME NEW n \in Nat, NEW f, Bytes(f, n), n <= BufferOctets, NEW stale \in 0 .. 255,
         NEW i \in 1 .. n
  PROVE  Memory(f, stale)[i] = f[i]
<1>1. PICK m : m = Memory(f, stale)
  OBVIOUS
<1>2. Holds(m, f, n, stale)
  BY <1>1, MemoryHolds
<1>3. m[i] = f[i]
  BY <1>2 DEF Holds
<1> QED
  BY <1>1, <1>3

\* BTP says that the payload goes from offset at to end.
Reaches(b, at, end) == b.data = at /\ b.data + b.lenght = end

\* What a packet gives when its message is decoded from its own octets.
WholeOutcome(s, enc, gn) ==
    LET CA == Port(s) = CA_PORT
        d  == [data EXCEPT !.gnTimestamp = gn.SourcePV.TST,
                           !.GNaddress = gn.SourcePV.GnAddress,
                           !.type = IF CA THEN "CAM" ELSE "DENM"]
    IN  Result(Decoded(s.type, <<>>, enc),
               IF CA THEN d ELSE [d EXCEPT !.area = gn.GnAddressDest])

\* With a payload length that reaches behind the datagram, the decoder is given the whole
\* message and octets it ignores.
LEMMA WholeAndMore ==
  ASSUME TrailingIgnored, NEW s, Valid(s), s.framing.layer # "none", Exposed(s), ~m_enhanced_CAMs,
         NEW c \in Nat, NEW enc, Bytes(enc, c), enc = EncodingOf(s),
         NEW n \in Nat, NEW f, Bytes(f, n), n <= BufferOctets, NEW at \in Nat,
         EndsWith(f, n, enc, c, at),
         NEW b, b.destPort = Port(s), NEW end \in Nat, Reaches(b, at, end), end >= n,
         NEW stale \in StaleOctets, NEW m, m = Memory(f, stale), NEW gn
  PROVE  decodePayload(gn, b, m) = WholeOutcome(s, enc, gn)
<1>1. PICK last \in Nat : /\ last = IF end < BufferOctets THEN end ELSE BufferOctets
                          /\ n <= last /\ last <= BufferOctets
  BY BufferRange
<1>2. Payload(m, b) = SubSeq(m, at + 1, last)
  BY <1>1 DEF Payload, Reaches
<1>3. stale \in 0 .. 255
  BY StaleRange
<1>4. PICK t \in 0 .. BufferOctets :
         SubSeq(Memory(f, stale), at + 1, last) = enc \o [i \in 1 .. t |-> stale]
  <2>1. AndMore(Memory(f, stale), at, last, enc, stale)
    BY <1>1, <1>3, TrailingPayload, Zenon
  <2> QED
    BY <2>1 DEF AndMore
<1>5. PICK e \in Messages : e = Entry(s) /\ s.type \in {"CAM", "DENM"}
  BY FramingLayers DEF CAMType
<1>6. e.type = s.type /\ EncodingOf(e) = enc /\ Exposed(e)
  BY <1>5, SameEncoding DEF Entry, Exposed
<1>7. Decoded(s.type, <<>>, enc \o [i \in 1 .. t |-> stale]) = Decoded(s.type, <<>>, enc)
  BY <1>5, <1>6, Zenon DEF TrailingIgnored
<1>8. Decoded(s.type, <<>>, Payload(m, b)) = Decoded(s.type, <<>>, enc)
  BY <1>2, <1>4, <1>7
<1>9. (IF b.destPort = CA_PORT THEN CAMType ELSE "DENM") = s.type
  BY <1>5 DEF Port, CA_PORT, DEN_PORT, CAMType
<1> QED
  BY <1>8, <1>9 DEF decodePayload, WholeOutcome

\* A packet that has kept its kind: its payload is looked for where it is.
LEMMA InPlace ==
  ASSUME TrailingIgnored, NEW s, Valid(s), s.framing.layer # "none",
         NEW i \in Nat, i # 0 => Exposed(s) /\ ~m_enhanced_CAMs,
         NEW f, NEW layer \in {"SHB", "GBC"}, NEW k \in {40, 56}, NEW c \in Nat, NEW n \in Nat,
         NEW enc, Arrived(s, f, i, layer, k, c, n, enc),
         High4(f[6]) = GBC <=> layer = "GBC",
         NEW one \in StaleOctets, NEW other \in StaleOctets
  PROVE  decodePacket(Memory(f, one)) = decodePacket(Memory(f, other))
<1>0. one \in 0 .. 255 /\ other \in 0 .. 255
  BY StaleRange
<1>1. /\ k = HeaderLength(layer) /\ n = k + 4 + c /\ n >= 44 /\ (layer = "GBC" => n >= 60)
      /\ enc = EncodingOf(s) /\ Bytes(enc, c) /\ Bytes(f, n) /\ n <= BufferOctets
  BY DEF Arrived, HeaderLength
<1>11. enc = EncodingOf(s) /\ Bytes(enc, c) /\ Bytes(f, n) /\ n <= BufferOctets
  BY DEF Arrived
<1>2. PICK m1, m2 : m1 = Memory(f, one) /\ m2 = Memory(f, other)
  OBVIOUS
<1>3. SameUpTo(m1, m2, n)
  BY <1>0, <1>1, <1>2, SameFrame, Zenon
<1>4. \A j \in 1 .. n : m1[j] = f[j] /\ m2[j] = f[j]
  <2>1. ASSUME NEW j \in 1 .. n PROVE m1[j] = f[j]
    <3>1. Holds(m1, f, n, one)
      BY <1>0, <1>11, <1>2, MemoryHolds, SMTT(20)
    <3> QED
      BY <3>1 DEF Holds
  <2>2. ASSUME NEW j \in 1 .. n PROVE m2[j] = f[j]
    <3>1. Holds(m2, f, n, other)
      BY <1>0, <1>11, <1>2, MemoryHolds, SMTT(20)
    <3> QED
      BY <3>1 DEF Holds
  <2> QED
    BY <2>1, <2>2
<1>5. High4(Octet(m1, 5)) = GBC <=> layer = "GBC"
  <2>1. Octet(m1, 5) = f[6]
    BY <1>1, <1>4 DEF Octet
  <2> QED
    BY <2>1
<1>6. PICK gn : gn = decodeGN(m1)
  OBVIOUS
<1>7. decodeGN(m2) = gn
  <2>1. commonHeader_removeHeader(m1, 4).headerType = GBC => n >= 54
    BY <1>1, <1>5 DEF commonHeader_removeHeader
  <2> QED
    BY <1>1, <1>3, <1>6, <2>1, SameHeaders
<1>8. gn.code = "GN_OK" => gn.data = k /\ gn.lenght = Word16(m1, 8) /\ gn.lenght \in Nat
  <2>1. SUFFICES ASSUME gn.code = "GN_OK"
                 PROVE  gn.data = k /\ gn.lenght = Word16(m1, 8) /\ gn.lenght \in Nat
    OBVIOUS
  <2>2. gn.lenght = Word16(m1, 8) /\ gn.data = IF High4(Octet(m1, 5)) = GBC THEN 56 ELSE 40
    BY <1>6, <2>1, Accepted
  <2>3. gn.data = k
    BY <1>1, <1>5, <2>2 DEF HeaderLength
  <2>4. Word16(m1, 8) \in Nat
    <3>1. PICK size \in Nat : size = BufferOctets /\ 8 + 2 <= size
      BY BufferRange
    <3>2. Bytes(m1, size)
      <4>1. Holds(m1, f, n, one)
        BY <1>0, <1>1, <1>2, MemoryHolds, SMTT(20)
      <4> QED
        BY <3>1, <4>1 DEF Holds
    <3> QED
      BY <3>1, <3>2, WordRange
  <2> QED
    BY <2>2, <2>3, <2>4
<1>9. CASE gn.code = "GN_OK" => gn.lenght >= 4 /\ gn.data + gn.lenght <= n
  <2>1. gn.code = "GN_OK" => gn.lenght \in Nat /\ gn.lenght >= 4 /\ gn.data + gn.lenght <= n
    BY <1>8, <1>9
  <2>2. decodePacket(m1) = decodePacket(m2)
    BY <1>1, <1>3, <1>6, <2>1, InFrame
  <2> QED
    BY <1>2, <2>2
<1>10. CASE gn.code = "GN_OK" /\ ~(gn.lenght >= 4 /\ gn.data + gn.lenght <= n)
  <2>1. i \in {9, 10}
    <3>1. SUFFICES ASSUME i \notin {9, 10} PROVE FALSE
      OBVIOUS
    <3>2. f[9] = (c + 4) \div 256 /\ f[10] = (c + 4) % 256
      BY <3>1, ArrivedOctets
    <3>3. Word16(m1, 8) = c + 4
      <4>1. m1[9] = f[9] /\ m1[10] = f[10]
        BY <1>1, <1>4
      <4> QED
        BY <3>2, <4>1 DEF Word16
    <3> QED
      BY <1>1, <1>8, <1>10, <3>3
  <2>2. Exposed(s) /\ ~m_enhanced_CAMs
    BY <2>1
  <2>3. PICK b : b = decodeBTP(m1, gn, BufferOctets)
    OBVIOUS
  <2>4. decodeBTP(m2, gn, BufferOctets) = b
    <3>1. PICK q \in Nat : q = k + 2
      OBVIOUS
    <3>2. k \in Nat /\ k + 2 <= n /\ q + 2 <= n
      BY <1>1, <3>1
    <3>3. Word16(m1, k) = Word16(m2, k)
      BY <1>3, <3>2, SameWord
    <3>4. Word16(m1, q) = Word16(m2, q)
      BY <1>3, <3>2, SameWord
    <3>5. btpHeader_removeHeader(m1, gn.data) = btpHeader_removeHeader(m2, gn.data)
      BY <1>8, <1>10, <3>1, <3>3, <3>4 DEF btpHeader_removeHeader
    <3> QED
      BY <2>3, <3>5 DEF decodeBTP
  <2>5. decodePacket(m1) = afterBTP(gn, b, m1) /\ decodePacket(m2) = afterBTP(gn, b, m2)
    BY <1>6, <1>7, <1>10, <2>3, <2>4 DEF decodePacket, afterGN
  <2>6. CASE b.code # "BTP_OK"
    BY <1>2, <2>5, <2>6 DEF afterBTP
  <2>7. CASE b.code = "BTP_OK"
    <3>1. /\ b.data = k + 4 /\ b.destPort = Word16(m1, k)
          /\ b.lenght = IF gn.lenght < 4 THEN BufferOctets ELSE gn.lenght - 4
      BY <1>8, <1>10, <2>3, <2>7 DEF decodeBTP, btpHeader_removeHeader, BTPError
    <3>2. b.destPort = Port(s)
      <4>1. Word16(f, k) = Port(s)
        BY <2>1, ArrivedOctets
      <4>2. m1[k + 1] = f[k + 1] /\ m1[k + 2] = f[k + 2]
        BY <1>1, <1>4
      <4> QED
        BY <3>1, <4>1, <4>2 DEF Word16
    <3>3. PICK at \in Nat : at = k + 4
      OBVIOUS
    <3>4. PICK end \in Nat : Reaches(b, at, end) /\ end >= n
      <4>1. PICK end \in Nat : end = b.data + b.lenght /\ end >= n
        BY <1>1, <1>8, <1>10, <3>1, BufferRange
      <4> QED
        BY <3>1, <3>3, <4>1 DEF Reaches
    <3>5. EndsWith(f, n, enc, c, at)
      BY <2>1, <3>3, ArrivedOctets
    <3>7. PICK x : x = WholeOutcome(s, enc, gn)
      OBVIOUS
    <3>8. decodePayload(gn, b, m1) = x
      BY <1>11, <1>2, <2>2, <3>2, <3>4, <3>5, <3>7, WholeAndMore
    <3>9. decodePayload(gn, b, m2) = x
      BY <1>11, <1>2, <2>2, <3>2, <3>4, <3>5, <3>7, WholeAndMore
    <3> QED
      BY <1>2, <2>5, <2>7, <3>8, <3>9 DEF afterBTP
  <2> QED
    BY <2>6, <2>7
<1> QED
  BY <1>9, <1>10

\* The offset of the BTP header is that of the kind of packet the sixth octet says.
OffsetOf(gn, f) == gn.data = IF High4(f[6]) = GBC THEN 56 ELSE 40

LEMMA OffsetByKind ==
  ASSUME NEW n \in Nat, NEW f, Bytes(f, n), n <= BufferOctets, n >= 44, NEW stale \in 0 .. 255,
         decodeGN(Memory(f, stale)).code = "GN_OK"
  PROVE  OffsetOf(decodeGN(Memory(f, stale)), f)
<1>1. PICK m : m = Memory(f, stale)
  OBVIOUS
<1>2. decodeGN(m).data = IF High4(Octet(m, 5)) = GBC THEN 56 ELSE 40
  BY <1>1, Accepted
<1>3. PICK i \in 1 .. n : i = 6
  OBVIOUS
<1>4. m[i] = f[i]
  BY <1>1, FromFrame
<1>5. Octet(m, 5) = f[6]
  BY <1>3, <1>4 DEF Octet
<1> QED
  BY <1>1, <1>2, <1>5 DEF OffsetOf

\* A packet that has become one of the other kind has no port where one is looked for.
LEMMA Misread ==
  ASSUME PortsApart, NEW s, Valid(s), s.framing.layer # "none",
         NEW i \in Nat, i # 0 => Exposed(s) /\ ~m_enhanced_CAMs,
         NEW f, NEW layer \in {"SHB", "GBC"}, NEW k \in {40, 56}, NEW c \in Nat, NEW n \in Nat,
         NEW enc, Arrived(s, f, i, layer, k, c, n, enc),
         ~(High4(f[6]) = GBC <=> layer = "GBC"),
         NEW stale \in StaleOctets
  PROVE  decodePacket(Memory(f, stale)) = [rc |-> ETSI_DECODER_OK, data |-> data]
<1>0. stale \in 0 .. 255
  BY StaleRange
<1>1. /\ k = HeaderLength(layer) /\ n = k + 4 + c /\ n >= 44 /\ (layer = "GBC" => n >= 60)
      /\ enc = EncodingOf(s)
  BY DEF Arrived, HeaderLength
<1>2. Bytes(enc, c) /\ Bytes(f, n) /\ n <= BufferOctets
  BY DEF Arrived
<1>3. i = 6
  <2>1. SUFFICES ASSUME i # 6 PROVE FALSE
    OBVIOUS
  <2>2. f[6] = 16 * Transport(layer)
    BY <2>1, ArrivedOctets
  <2> QED
    BY <2>2 DEF Transport, High4, GBC, TSB
<1>4. ~HasPort(enc, 12)
  <2>1. PICK e \in Messages : e = Entry(s)
    BY FramingLayers
  <2>2. Exposed(e) /\ EncodingOf(e) = enc
    BY <1>1, <1>3, <2>1, SameEncoding DEF Entry, Exposed
  <2> QED
    BY <2>2 DEF PortsApart
<1>5. PICK m : m = Memory(f, stale)
  OBVIOUS
<1>6. ASSUME decodeGN(m).code = "GN_OK" PROVE Word16(m, decodeGN(m).data) \notin {CA_PORT, DEN_PORT}
  <2>0. PICK gn : gn = decodeGN(m)
    OBVIOUS
  <2>1. gn.data = IF High4(f[6]) = GBC THEN 56 ELSE 40
    <3>1. n >= 44
      BY <1>1
    <3> QED
      <4>1. OffsetOf(decodeGN(Memory(f, stale)), f)
        BY <1>0, <1>2, <1>5, <1>6, <3>1, OffsetByKind
      <4> QED
        BY <1>5, <2>0, <4>1 DEF OffsetOf
  <2>2. CASE layer = "SHB"
    <3>1. gn.data = 56 /\ k = 40
      BY <1>1, <2>1, <2>2 DEF HeaderLength
    <3>2. EndsWith(f, n, enc, c, k + 4)
      BY <1>3, ArrivedOctets
    <3>3. PICK off \in Nat, at \in Nat, q \in Nat :
             off = 44 /\ at = 12 /\ q = 56 /\ q = off + at /\ q + 2 <= BufferOctets
      BY BufferRange
    <3>4. EndsWith(f, n, enc, c, off)
      BY <3>1, <3>2, <3>3
    <3>5. at < c => f[q + 1] = enc[at + 1]
      <4>1. SUFFICES ASSUME at < c PROVE f[q + 1] = enc[at + 1]
        OBVIOUS
      <4>2. PICK j \in 1 .. c : j = at + 1
        BY <4>1
      <4>3. f[off + j] = enc[j]
        BY <3>4 DEF EndsWith
      <4> QED
        BY <3>3, <4>2, <4>3
    <3>6. at + 1 < c => f[q + 2] = enc[at + 2]
      <4>1. SUFFICES ASSUME at + 1 < c PROVE f[q + 2] = enc[at + 2]
        OBVIOUS
      <4>2. PICK j \in 1 .. c : j = at + 2
        BY <4>1
      <4>3. f[off + j] = enc[j]
        BY <3>4 DEF EndsWith
      <4> QED
        BY <3>3, <4>2, <4>3
    <3>7. SameEnd(f, n, q, enc, c, at) /\ ~HasPort(enc, at)
      BY <1>4, <3>3, <3>4, <3>5, <3>6 DEF EndsWith, SameEnd
    <3>8. Word16(Memory(f, stale), q) \notin {CA_PORT, DEN_PORT}
      BY <1>0, <1>2, <3>3, <3>7, NoPortThere
    <3> QED
      BY <1>5, <2>0, <3>1, <3>3, <3>8
  <2>3. CASE layer = "GBC"
    <3>1. gn.data = 40
      BY <2>1, <2>3
    <3>2. f[41] = 26
      <4>1. layer = "GBC" /\ i # 41 => f[41] = 26
        BY ArrivedOctets
      <4> QED
        BY <1>3, <2>3, <4>1
    <3>3. PICK q \in Nat : q = 40 /\ q + 2 <= BufferOctets
      BY BufferRange
    <3>4. NoPortAt(f, n, q)
      BY <3>2, <3>3 DEF NoPortAt
    <3>5. Word16(Memory(f, stale), q) \notin {CA_PORT, DEN_PORT}
      BY <1>0, <1>2, <3>3, <3>4, PortAbsent
    <3> QED
      BY <1>5, <2>0, <3>1, <3>3, <3>5
  <2> QED
    BY <2>2, <2>3
<1> QED
  BY <1>5, <1>6, NoPortOutcome

\* A bare message taken for a packet has no port.
LEMMA MessageAsPacket ==
  ASSUME PortsApart, HeaderFirst, NEW s, Valid(s), s.framing.layer = "facilities",
         NEW i \in Nat, i # 0 => Exposed(s) /\ ~m_enhanced_CAMs,
         NEW f, AllBut(f, Datagram(s), i), isGeoNet(f), Len(Datagram(s)) <= BufferOctets,
         NEW stale \in StaleOctets
  PROVE  decodePacket(Memory(f, stale)) = [rc |-> ETSI_DECODER_OK, data |-> data]
<1>0. stale \in 0 .. 255
  BY StaleRange
<1>1. PICK d : d = Datagram(s) /\ d = EncodingOf(s) /\ d \in Seq(0 .. 255)
  BY ValidEncoding DEF Datagram
<1>2. PICK n \in Nat : n = Len(d)
  BY <1>1, OctetSeq
<1>3. Bytes(f, n) /\ n <= BufferOctets /\ n >= 44 /\ Len(d) = n
  BY <1>1, <1>2 DEF AllBut, Bytes, isGeoNet
<1>4. \A j \in 1 .. n : j # i => f[j] = d[j]
  BY <1>1, <1>2 DEF AllBut
<1>5. PICK e \in Messages : e = Entry(s)
  BY FramingLayers
<1>6. EncodingOf(e) = d
  BY <1>1, <1>5, SameEncoding
<1>7. i = 2
  <2>1. d[2] \in {1, 2}
    BY <1>6 DEF HeaderFirst
  <2>2. f[2] \notin {1, 2}
    BY DEF isGeoNet, is_enum_valid_etsi_message_t
  <2>3. 2 \in 1 .. n
    BY <1>3
  <2> QED
    BY <1>4, <2>1, <2>2, <2>3
<1>8. ~HasPort(d, 40) /\ ~HasPort(d, 56)
  <2>1. Exposed(e)
    BY <1>5, <1>7 DEF Entry, Exposed
  <2> QED
    BY <1>6, <2>1 DEF PortsApart
<1>9. PICK m : m = Memory(f, stale)
  OBVIOUS
<1>10. ASSUME decodeGN(m).code = "GN_OK" PROVE Word16(m, decodeGN(m).data) \notin {CA_PORT, DEN_PORT}
  <2>1. PICK gn : gn = decodeGN(m)
    OBVIOUS
  <2>2. gn.data \in {40, 56}
    <3>1. OffsetOf(decodeGN(Memory(f, stale)), f)
      BY <1>0, <1>3, <1>9, <1>10, OffsetByKind
    <3> QED
      BY <1>9, <2>1, <3>1 DEF OffsetOf
  <2>3. PICK q \in Nat :
           q = gn.data /\ q >= 40 /\ q + 2 <= BufferOctets /\ ~HasPort(d, q)
    BY <1>8, <2>2, BufferRange
  <2>5. q < n => f[q + 1] = d[q + 1]
    <3>1. SUFFICES ASSUME q < n PROVE f[q + 1] = d[q + 1]
      OBVIOUS
    <3>2. PICK j \in 1 .. n : j = q + 1 /\ j # 2
      BY <2>3, <3>1
    <3> QED
      BY <1>4, <1>7, <3>2
  <2>6. q + 1 < n => f[q + 2] = d[q + 2]
    <3>1. SUFFICES ASSUME q + 1 < n PROVE f[q + 2] = d[q + 2]
      OBVIOUS
    <3>2. PICK j \in 1 .. n : j = q + 2 /\ j # 2
      BY <2>3, <3>1
    <3> QED
      BY <1>4, <1>7, <3>2
  <2>7. Word16(Memory(f, stale), q) \notin {CA_PORT, DEN_PORT}
    <3>1. SameEnd(f, n, q, d, n, q)
      BY <2>5, <2>6 DEF SameEnd
    <3>2. Bytes(d, n)
      BY <1>1, <1>3 DEF Bytes
    <3> QED
      BY <1>0, <1>3, <2>3, <3>1, <3>2, NoPortThere
  <2> QED
    BY <1>9, <2>1, <2>3, <2>7
<1> QED
  BY <1>9, <1>10, NoPortOutcome

LEMMA StaleUnseen ==
  ASSUME TrailingIgnored, PortsApart, HeaderFirst, IInv, rc # Unwritten, fault.kind # "cut",
         sent[1].framing.layer # "none", isGeoNet(frame),
         NEW one \in StaleOctets, NEW other \in StaleOctets
  PROVE  decodePacket(Memory(frame, one)) = decodePacket(Memory(frame, other))
<1>1. sent # <<>>
  BY DEF IInv, SentKnown
<1>2. PICK s : s = sent[1] /\ Valid(s) /\ Len(Datagram(s)) <= BufferOctets
  BY <1>1, ValidSent
<1>3. PICK i \in Nat : AllBut(frame, Datagram(s), i) /\ (i # 0 => Exposed(s) /\ ~m_enhanced_CAMs)
  BY <1>1, <1>2, DamageKnown
<1>4. CASE s.framing.layer = "facilities"
  <2>1. decodePacket(Memory(frame, one)) = [rc |-> ETSI_DECODER_OK, data |-> data]
    BY <1>2, <1>3, <1>4, MessageAsPacket
  <2>2. decodePacket(Memory(frame, other)) = [rc |-> ETSI_DECODER_OK, data |-> data]
    BY <1>2, <1>3, <1>4, MessageAsPacket
  <2> QED
    BY <2>1, <2>2
<1>5. CASE s.framing.layer \in {"SHB", "GBC"}
  <2>1. PICK layer \in {"SHB", "GBC"}, k \in {40, 56}, c \in Nat, n \in Nat :
           \E enc : Arrived(s, frame, i, layer, k, c, n, enc)
    BY <1>2, <1>3, <1>5, ArrivedPacket
  <2>2. PICK enc : Arrived(s, frame, i, layer, k, c, n, enc)
    BY <2>1
  <2>3. CASE High4(frame[6]) = GBC <=> layer = "GBC"
    BY <1>2, <1>3, <2>2, <2>3, InPlace, SMTT(20)
  <2>4. CASE ~(High4(frame[6]) = GBC <=> layer = "GBC")
    <3>1. decodePacket(Memory(frame, one)) = [rc |-> ETSI_DECODER_OK, data |-> data]
      BY <1>2, <1>3, <2>2, <2>4, Misread, SMTT(20)
    <3>2. decodePacket(Memory(frame, other)) = [rc |-> ETSI_DECODER_OK, data |-> data]
      BY <1>2, <1>3, <2>2, <2>4, Misread, SMTT(20)
    <3> QED
      BY <3>1, <3>2
  <2> QED
    BY <2>3, <2>4
<1> QED
  BY <1>2, <1>4, <1>5, FramingLayers

\* What decodeEtsi makes of a packet does not depend on what earlier datagrams left in msgbuf,
\* whichever bit of the packet is inverted, those of the payload length included.
THEOREM StaleNeverDelivered ==
  ASSUME TrailingIgnored, PortsApart, HeaderFirst
  PROVE  Spec => []NothingStale
<1>1. Init => IInv
  BY InvInit
<1>2. IInv /\ [Next]_vars => IInv'
  BY InvNext
<1>3. IInv => NothingStale
  BY StaleUnseen DEF NothingStale
<1> QED
  BY <1>1, <1>2, <1>3, PTL DEF Spec

-----------------------------------------------------------------------------
(* The types without parts                                                 *)

Bit == {0, 1}

\* A set of numbers has a least one.
LEMMA LeastMember ==
  ASSUME NEW S, S \subseteq Nat, S # {}
  PROVE  \E k \in S : \A j \in Nat : j < k => j \notin S
<1> DEFINE Less == {ss \in Nat \X Nat : ss[1] < ss[2]}
<1>1. OpToRel(<, Nat) = Less
  BY Zenon DEF OpToRel
<1>2. IsWellFoundedOn(Less, Nat)
  BY <1>1, NatLessThanWellFounded, Zenon
<1> HIDE DEF Less
<1>3. PICK k \in S : \A j \in S : ~ (<<j, k>> \in Less)
  BY <1>2, WFMin, Zenon
<1>4. \A j \in Nat : j < k => <<j, k>> \in Less
  BY DEF Less
<1> QED
  BY <1>3, <1>4

\* What Value counts n bits with.
Counts(bits, n, f) == f = [i \in 0 .. n |-> IF i = 0 THEN 0 ELSE 2 * f[i - 1] + bits[i]]

\* f counts the first n bits.
UpTo(bits, n, f) ==
    f \in [0 .. n -> Nat] /\ f[0] = 0 /\ \A k \in 1 .. n : f[k] = 2 * f[k - 1] + bits[k]

LEMMA CountExists ==
  ASSUME NEW bits \in Seq(Bit)
  PROVE  \E f : UpTo(bits, Len(bits), f)
<1>0. PICK c \in Nat : c = Len(bits) /\ \A k \in 1 .. c : bits[k] \in Nat
  BY DEF Bit
<1> DEFINE Fails == {n \in 0 .. c : ~ \E f : UpTo(bits, n, f)}
<1>1. Fails = {}
  <2> SUFFICES ASSUME Fails # {} PROVE FALSE
    OBVIOUS
  <2>1. PICK n \in Fails : \A j \in Nat : j < n => j \notin Fails
    <3>1. Fails \subseteq Nat
      BY <1>0
    <3> HIDE DEF Fails
    <3> QED
      BY <3>1, LeastMember, Zenon
  <2>2. n \in 0 .. c /\ ~ \E f : UpTo(bits, n, f)
    BY <2>1
  <2>3. n # 0
    <3> SUFFICES ASSUME n = 0 PROVE FALSE
      OBVIOUS
    <3>1. UpTo(bits, 0, [k \in 0 .. 0 |-> 0])
      BY DEF UpTo
    <3> QED
      BY <2>2, <3>1
  <2>4. n - 1 \in Nat /\ n - 1 < n /\ n - 1 \in 0 .. c
    BY <1>0, <2>2, <2>3
  <2>5. PICK g : UpTo(bits, n - 1, g)
    BY <2>1, <2>4
  <2> DEFINE f == [k \in 0 .. n |-> IF k = n THEN 2 * g[n - 1] + bits[n] ELSE g[k]]
  <2>6. g[n - 1] \in Nat /\ bits[n] \in Nat
    BY <1>0, <2>2, <2>4, <2>5 DEF UpTo
  <2>7. f \in [0 .. n -> Nat] /\ f[0] = 0
    BY <1>0, <2>2, <2>3, <2>4, <2>5, <2>6 DEF UpTo
  <2>8. ASSUME NEW k \in 1 .. n PROVE f[k] = 2 * f[k - 1] + bits[k]
    <3>1. CASE k = n
      BY <1>0, <2>2, <2>4, <3>1
    <3>2. CASE k # n
      <4>1. k \in 1 .. n - 1 /\ k - 1 \in 0 .. n /\ k - 1 # n /\ k \in 0 .. n
        BY <1>0, <2>2, <3>2
      <4>2. g[k] = 2 * g[k - 1] + bits[k]
        BY <2>5, <4>1 DEF UpTo
      <4> QED
        BY <3>2, <4>1, <4>2
    <3> QED
      BY <3>1, <3>2
  <2>9. UpTo(bits, n, f)
    BY <2>7, <2>8 DEF UpTo
  <2> QED
    BY <2>2, <2>9, Zenon
<1>2. c \in 0 .. c
  BY <1>0
<1>3. ~ (c \in Fails)
  BY <1>1
<1> QED
  BY <1>0, <1>2, <1>3

\* The number a sequence of bits stands for is a natural number.
LEMMA ValueIsNat ==
  ASSUME NEW bits \in Seq(Bit)
  PROVE  Value(bits) \in Nat
<1>0. PICK c \in Nat : c = Len(bits) /\ \A k \in 1 .. c : bits[k] \in Nat
  BY DEF Bit
<1>1. PICK f : UpTo(bits, Len(bits), f)
  BY CountExists, Zenon
<1>2. Counts(bits, c, f)
  BY <1>0, <1>1 DEF UpTo, Counts
<1>3. Value(bits) = (CHOOSE g : Counts(bits, c, g))[c]
  BY <1>0, Zenon DEF Value, Counts
<1>4. PICK g : g = CHOOSE h : Counts(bits, c, h)
  OBVIOUS
<1>5. Counts(bits, c, g)
  BY <1>2, <1>4, Zenon
<1>6. /\ g[0] = 0
      /\ \A k \in 1 .. c : g[k] = 2 * g[k - 1] + bits[k]
  <2>1. g[0] = 0
    BY <1>0, <1>5 DEF Counts
  <2>2. ASSUME NEW k \in 1 .. c PROVE g[k] = 2 * g[k - 1] + bits[k]
    <3>1. k \in 0 .. c /\ k # 0
      BY <1>0
    <3> QED
      BY <1>5, <3>1 DEF Counts
  <2> QED
    BY <2>1, <2>2
<1> DEFINE Fails == {n \in 0 .. c : g[n] \notin Nat}
<1>7. Fails = {}
  <2> SUFFICES ASSUME Fails # {} PROVE FALSE
    OBVIOUS
  <2>1. PICK n \in Fails : \A j \in Nat : j < n => j \notin Fails
    <3>1. Fails \subseteq Nat
      BY <1>0
    <3> HIDE DEF Fails
    <3> QED
      BY <3>1, LeastMember, Zenon
  <2>2. n \in 0 .. c /\ g[n] \notin Nat
    BY <2>1
  <2>4. n \in 1 .. c
    BY <1>0, <1>6, <2>2
  <2>6. n - 1 \in Nat /\ n - 1 < n /\ n - 1 \in 0 .. c
    BY <1>0, <2>4
  <2>7. g[n - 1] \in Nat
    BY <2>1, <2>6
  <2> QED
    BY <1>0, <1>6, <2>2, <2>4, <2>7
<1>8. g[c] \in Nat
  <2>1. c \in 0 .. c
    BY <1>0
  <2> QED
    BY <1>7, <2>1
<1> QED
  BY <1>0, <1>3, <1>4, <1>8

-----------------------------------------------------------------------------
LEMMA ManyBits ==
  ASSUME NEW s \in Seq(Bit), NEW p \in Nat, NEW n \in Nat, get_many_bits(s, p, n).code = "OK"
  PROVE  /\ get_many_bits(s, p, n).val \in Seq(Bit) /\ Len(get_many_bits(s, p, n).val) = n
         /\ get_many_bits(s, p, n).pos = p + n
         /\ p + n <= Len(s)
<1>1. p + n <= Len(s) /\ get_many_bits(s, p, n) = OK(SubSeq(s, p + 1, p + n), p + n)
  BY DEF get_many_bits, Starved, OK
<1>2. SubSeq(s, p + 1, p + n) \in Seq(Bit) /\ Len(SubSeq(s, p + 1, p + n)) = n
  BY <1>1
<1> QED
  BY <1>1, <1>2 DEF OK

LEMMA FewBits ==
  ASSUME NEW s \in Seq(Bit), NEW p \in Nat, NEW n \in Nat, get_few_bits(s, p, n).code = "OK"
  PROVE  /\ get_few_bits(s, p, n).val \in Nat
         /\ get_few_bits(s, p, n).pos = p + n
         /\ p + n <= Len(s)
<1>1. get_many_bits(s, p, n).code = "OK"
  BY DEF get_few_bits, Then
<1>2. get_few_bits(s, p, n) = OK(Value(get_many_bits(s, p, n).val), get_many_bits(s, p, n).pos)
  BY <1>1 DEF get_few_bits, Then
<1>3. Value(get_many_bits(s, p, n).val) \in Nat
  BY <1>1, ManyBits, ValueIsNat, Zenon
<1> QED
  BY <1>1, <1>2, <1>3, ManyBits DEF OK

\* A length of a constraint with a field of its own, or of one that has none.
SizeField(ebits, lb) == ebits \in Nat \cup {NoSize} /\ lb \in Nat

LEMMA LengthReads ==
  ASSUME NEW s \in Seq(Bit), NEW p \in Nat, NEW ebits, NEW lb, SizeField(ebits, lb),
         NEW r, r = uper_get_length(s, p, ebits, lb), r.code = "OK"
  PROVE  r.val \in Nat /\ r.pos \in p .. Len(s)
<1>1. CASE ebits \in Nat
  <2> DEFINE a == get_few_bits(s, p, ebits)
  <2>1. a.code = "OK" /\ r = OK(a.val + lb, a.pos)
    BY <1>1 DEF uper_get_length, Then
  <2>2. a.val \in Nat /\ a.pos = p + ebits /\ p + ebits <= Len(s)
    BY <1>1, <2>1, FewBits
  <2> QED
    BY <1>1, <2>1, <2>2 DEF OK, SizeField
<1>2. CASE ebits \notin Nat
  <2> DEFINE a == get_few_bits(s, p, 8)
             b == get_few_bits(s, a.pos, 8)
  <2>0. ~ (ebits >= 0)
    BY <1>2 DEF SizeField, NoSize
  <2>1. a.code = "OK"
    BY <2>0 DEF uper_get_length, Then
  <2>2. a.val \in Nat /\ a.pos = p + 8 /\ p + 8 <= Len(s)
    BY <2>1, FewBits
  <2>3. CASE a.val < 128
    <3>1. r = OK(a.val, a.pos)
      BY <2>0, <2>1, <2>3 DEF uper_get_length, Then
    <3> QED
      BY <2>2, <3>1 DEF OK
  <2>4. CASE ~ (a.val < 128) /\ a.val < 192
    <3>1. b.code = "OK" /\ r = OK((a.val % 64) * 256 + b.val, b.pos)
      BY <2>0, <2>1, <2>4 DEF uper_get_length, Then
    <3>2. b.val \in Nat /\ b.pos = p + 16 /\ p + 16 <= Len(s)
      <4>1. a.pos \in Nat /\ a.pos + 8 = p + 16
        BY <2>2
      <4> QED
        BY <3>1, <4>1, FewBits
    <3>3. (a.val % 64) \in Nat
      BY <2>2
    <3> QED
      BY <3>1, <3>2, <3>3 DEF OK
  <2>5. CASE ~ (a.val < 192)
    <3>1. r = OK(16384 * (a.val % 64), a.pos)
      BY <2>0, <2>1, <2>2, <2>5 DEF uper_get_length, Then, Starved
    <3>2. (a.val % 64) \in Nat
      BY <2>2
    <3> QED
      BY <2>2, <3>1, <3>2 DEF OK
  <2> QED
    BY <2>2, <2>3, <2>4, <2>5
<1> QED
  BY <1>1, <1>2

LEMMA SmallNumberReads ==
  ASSUME NEW s \in Seq(Bit), NEW p \in Nat,
         NEW r, r = uper_get_nsnnwn(s, p), r.code = "OK"
  PROVE  r.val \in Nat /\ r.pos \in p .. Len(s)
<1> DEFINE a == get_few_bits(s, p, 7)
           b == get_few_bits(s, a.pos, 2)
           octets == (a.val % 64) * 4 + b.val
           c == get_few_bits(s, b.pos, 8 * octets)
<1>1. a.code = "OK"
  BY DEF uper_get_nsnnwn, Then
<1>2. a.val \in Nat /\ a.pos = p + 7 /\ p + 7 <= Len(s)
  BY <1>1, FewBits
<1>3. CASE a.val < 64
  <2>1. r = OK(a.val, a.pos)
    BY <1>1, <1>3 DEF uper_get_nsnnwn, Then
  <2> QED
    BY <1>2, <2>1 DEF OK
<1>4. CASE ~ (a.val < 64)
  <2>1. b.code = "OK"
    BY <1>1, <1>4 DEF uper_get_nsnnwn, Then
  <2>2. b.val \in Nat /\ b.pos = p + 9 /\ p + 9 <= Len(s)
    <3>1. a.pos \in Nat /\ a.pos + 2 = p + 9
      BY <1>2
    <3> QED
      BY <2>1, <3>1, FewBits
  <2>3. octets \in Nat
    BY <1>2, <2>2
  <2>4. CASE octets = 0
    <3>1. r = OK(0, b.pos)
      BY <1>1, <1>4, <2>1, <2>4 DEF uper_get_nsnnwn, Then
    <3> QED
      BY <2>2, <3>1 DEF OK
  <2>5. CASE octets \in {1, 2}
    <3>1. r = c
      BY <1>1, <1>4, <2>1, <2>5 DEF uper_get_nsnnwn, Then
    <3>2. 8 * octets \in Nat /\ b.pos \in Nat
      BY <2>2, <2>3
    <3> HIDE DEF octets
    <3>3. c.val \in Nat /\ c.pos = b.pos + 8 * octets /\ b.pos + 8 * octets <= Len(s)
      BY <3>1, <3>2, FewBits
    <3> QED
      BY <2>2, <2>3, <3>1, <3>3
  <2>6. CASE octets \notin {0, 1, 2}
    <3>1. r = Starved
      BY <1>1, <1>4, <2>1, <2>6 DEF uper_get_nsnnwn, Then
    <3> QED
      BY <3>1 DEF Starved
  <2> QED
    BY <2>4, <2>5, <2>6
<1> QED
  BY <1>3, <1>4

LEMMA WholeNumberReads ==
  ASSUME NEW s \in Seq(Bit), NEW p \in Nat, NEW nbits \in Nat,
         NEW r, r = uper_get_constrained_whole_number(s, p, nbits), r.code = "OK"
  PROVE  /\ nbits <= 31 => r.val \in Nat
         /\ nbits > 31 => r.val \in Nat \X Nat
         /\ r.pos = p + nbits /\ r.pos <= Len(s)
<1>1. CASE nbits <= 31
  <2>1. r = get_few_bits(s, p, nbits)
    BY <1>1 DEF uper_get_constrained_whole_number
  <2> QED
    BY <1>1, <2>1, FewBits
<1>2. CASE nbits > 31
  <2> DEFINE a == get_few_bits(s, p, 31)
             b == get_few_bits(s, a.pos, nbits - 31)
  <2>1. a.code = "OK" /\ b.code = "OK" /\ r = OK(<<a.val, b.val>>, b.pos)
    BY <1>2 DEF uper_get_constrained_whole_number, Then
  <2>2. a.val \in Nat /\ a.pos = p + 31 /\ p + 31 <= Len(s)
    BY <2>1, FewBits
  <2>3. a.pos \in Nat /\ nbits - 31 \in Nat /\ a.pos + (nbits - 31) = p + nbits
    BY <1>2, <2>2
  <2>4. b.val \in Nat /\ b.pos = p + nbits /\ p + nbits <= Len(s)
    BY <2>1, <2>3, FewBits
  <2> QED
    BY <1>2, <2>1, <2>2, <2>4 DEF OK
<1> QED
  BY <1>1, <1>2

\* The descriptors of integers: of a range in a field of its own, of one behind a bit that tells
\* whether the value lies in it, and of a range of more than 31 bits.  The values of an unsigned one
\* fill the field, and the code does not compare them with the range.
PlainInteger(td) == \E bits \in 0 .. 31, lb \in Int, ub \in Int : td = Integer(bits, lb, ub)
ExtensibleInteger(td) == \E bits \in 0 .. 31, lb \in Int, ub \in Int : td = ExtInteger(bits, lb, ub)
LongInteger(td) ==
    \E bits \in 32 .. 64, high \in Nat, low \in Nat : td = WideInteger(bits, <<high, low>>, FALSE)
UnsignedInteger(td) ==
    \E bits \in 32 .. 64, high \in Nat, low \in Nat : td = WideInteger(bits, <<high, low>>, TRUE)

Enumeration(td) ==
    \/ \E bits \in Nat, roots \in Nat : td = Enum(bits, roots)
    \/ \E bits \in Nat, roots \in Nat, count \in Nat :
          roots <= count /\ td = ExtEnum(bits, roots, count)

LEMMA PlainFields ==
  ASSUME NEW td, PlainInteger(td)
  PROVE  /\ td.bits \in 0 .. 31 /\ td.lb \in Int /\ td.range \in Int
         /\ td.ext = FALSE /\ td.wide = FALSE /\ td.unsigned = FALSE
<1>1. PICK bits \in 0 .. 31, lb \in Int, ub \in Int : td = Integer(bits, lb, ub)
  BY DEF PlainInteger
<1> QED
  BY <1>1 DEF Integer

LEMMA ExtensibleFields ==
  ASSUME NEW td, ExtensibleInteger(td)
  PROVE  /\ td.bits \in 0 .. 31 /\ td.lb \in Int /\ td.range \in Int
         /\ td.ext = TRUE /\ td.wide = FALSE /\ td.unsigned = FALSE
<1>1. PICK bits \in 0 .. 31, lb \in Int, ub \in Int : td = ExtInteger(bits, lb, ub)
  BY DEF ExtensibleInteger
<1> QED
  BY <1>1 DEF ExtInteger, Integer

LEMMA LongFields ==
  ASSUME NEW td, LongInteger(td)
  PROVE  /\ td.bits \in 32 .. 64 /\ td.range \in Nat \X Nat
         /\ td.ext = FALSE /\ td.wide = TRUE /\ td.unsigned = FALSE
<1>1. PICK bits \in 32 .. 64, high \in Nat, low \in Nat : td = WideInteger(bits, <<high, low>>, FALSE)
  BY DEF LongInteger
<1> QED
  BY <1>1 DEF WideInteger

LEMMA UnsignedFields ==
  ASSUME NEW td, UnsignedInteger(td)
  PROVE  td.bits \in 32 .. 64
<1>1. PICK bits \in 32 .. 64, high \in Nat, low \in Nat : td = WideInteger(bits, <<high, low>>, TRUE)
  BY DEF UnsignedInteger
<1> QED
  BY <1>1 DEF WideInteger

LEMMA EnumerationFields ==
  ASSUME NEW td, Enumeration(td)
  PROVE  td.bits \in Nat /\ td.roots \in Nat /\ td.count \in Nat /\ td.roots <= td.count
<1>1. CASE \E bits \in Nat, roots \in Nat : td = Enum(bits, roots)
  BY <1>1 DEF Enum
<1>2. CASE \E bits \in Nat, roots \in Nat, count \in Nat :
              roots <= count /\ td = ExtEnum(bits, roots, count)
  BY <1>2 DEF Enum, ExtEnum
<1> QED
  BY <1>1, <1>2 DEF Enumeration

LEMMA FieldWidth ==
  ASSUME NEW w
  PROVE  /\ w \in 0 .. 31 => w \in Nat /\ w <= 31
         /\ w \in 32 .. 64 => w \in Nat /\ w > 31
OBVIOUS

LEMMA OctetsRead ==
  ASSUME NEW s \in Seq(Bit), NEW p \in Nat, NEW n \in Nat,
         NEW r, r = GetOctets(s, p, n), r.code = "OK"
  PROVE  r.pos \in p .. Len(s)
<1> DEFINE a == get_many_bits(s, p, 8 * n)
<1>1. a.code = "OK" /\ r.pos = a.pos
  BY DEF GetOctets, Then, OK
<1>2. a.pos = p + 8 * n /\ p + 8 * n <= Len(s)
  <2>1. PICK k \in Nat : k = 8 * n
    OBVIOUS
  <2> QED
    BY <1>1, <2>1, ManyBits
<1> QED
  BY <1>1, <1>2

\* The first step of most decoders: the extension bit, if the type has one.
ExtensionBit(td, s, p) == IF td.ext THEN get_few_bits(s, p, 1) ELSE OK(0, p)

LEMMA ExtensionBitReads ==
  ASSUME NEW s \in Seq(Bit), NEW p \in 0 .. Len(s), NEW td,
         NEW r, r = ExtensionBit(td, s, p), r.code = "OK"
  PROVE  r.val \in Nat /\ r.pos \in p .. Len(s)
<1>1. CASE td.ext
  <2>1. r = get_few_bits(s, p, 1)
    BY <1>1 DEF ExtensionBit
  <2> QED
    BY <2>1, FewBits
<1>2. CASE ~td.ext
  BY <1>2 DEF ExtensionBit, OK
<1> QED
  BY <1>1, <1>2

\* A decoded INTEGER lies in the range of its constraint, whatever the stream is and however much
\* wider than the range its field is, and no bit behind the end of the stream is read for it.
THEOREM IntegersInRange ==
  ASSUME NEW s \in Seq(Bit), NEW p \in 0 .. Len(s),
         NEW td, PlainInteger(td) \/ ExtensibleInteger(td) \/ LongInteger(td),
         NEW r, r = INTEGER_decode_uper(td, s, p), r.code = "OK"
  PROVE  InIntegerRange(td, r.val) /\ r.pos \in p .. Len(s)
<1> DEFINE m == ExtensionBit(td, s, p)
           v == uper_get_constrained_whole_number(s, m.pos, td.bits)
           n == uper_get_length(s, m.pos, NoSize, 0)
           o == GetOctets(s, n.pos, n.val)
<1>1. m.code = "OK"
  BY DEF INTEGER_decode_uper, Then, ExtensionBit
<1>2. m.val \in Nat /\ m.pos \in p .. Len(s)
  BY <1>1, ExtensionBitReads
<1>3. ~td.unsigned
  BY PlainFields, ExtensibleFields, LongFields, Zenon
<1>6. td.bits \in Nat
  <2>1. td.bits \in 0 .. 31 \/ td.bits \in 32 .. 64
    BY PlainFields, ExtensibleFields, LongFields, Zenon
  <2> QED
    BY <2>1, FieldWidth, Zenon
<1>4. CASE m.val = 1
  <2>1. td.ext /\ ~td.wide
    <3>1. td.ext
      BY <1>4 DEF ExtensionBit, OK
    <3> QED
      BY <3>1, PlainFields, ExtensibleFields, LongFields
  <2>2. n.code = "OK" /\ o.code = "OK" /\ r.pos = o.pos
    BY <1>1, <1>4 DEF INTEGER_decode_uper, Then, ExtensionBit, Failed, OK
  <2>3. n.val \in Nat /\ n.pos \in m.pos .. Len(s)
    <3>1. SizeField(NoSize, 0)
      BY DEF SizeField
    <3> QED
      BY <1>2, <2>2, <3>1, LengthReads
  <2>4. o.pos \in n.pos .. Len(s)
    BY <2>2, <2>3, <1>2, OctetsRead
  <2>5. InIntegerRange(td, r.val)
    BY <2>1 DEF InIntegerRange
  <2> QED
    BY <1>2, <2>2, <2>3, <2>4, <2>5
<1>5. CASE m.val # 1
  <2>1. v.code = "OK" /\ ~Exceeds(td, v.val)
    BY <1>1, <1>3, <1>5 DEF INTEGER_decode_uper, Then, ExtensionBit, Failed
  <2>2. r = OK(CASE td.wide -> v.val
                 [] td.ext  -> OctetsOf(td.lb + v.val)
                 [] OTHER   -> td.lb + v.val, v.pos)
    BY <1>1, <1>3, <1>5, <2>1 DEF INTEGER_decode_uper, Then, ExtensionBit, Failed
  <2>3. /\ td.bits <= 31 => v.val \in Nat
        /\ td.bits > 31 => v.val \in Nat \X Nat
        /\ v.pos = m.pos + td.bits /\ v.pos <= Len(s)
    BY <1>2, <1>6, <2>1, WholeNumberReads
  <2>4. r.pos = v.pos
    BY <2>2 DEF OK
  <2>5. InIntegerRange(td, r.val)
    <3>1. CASE PlainInteger(td)
      <4>0. td.bits \in 0 .. 31 /\ td.lb \in Int /\ td.range \in Int
        BY <3>1, PlainFields, Zenon
      <4>1. ~td.ext /\ ~td.wide
        BY <3>1, PlainFields, Zenon
      <4>2. r.val = td.lb + v.val /\ ~ (v.val > td.range) /\ v.val \in Nat
        <5>1. v.val \in Nat
          BY <2>3, <4>0, FieldWidth, Zenon
        <5>2. r.val = CASE td.wide -> v.val [] td.ext -> OctetsOf(td.lb + v.val) [] OTHER -> td.lb + v.val
          BY <2>2 DEF OK
        <5>3. r.val = td.lb + v.val
          BY <4>1, <5>2, Zenon
        <5>4. ~ (v.val > td.range)
          BY <2>1, <4>1, Zenon DEF Exceeds
        <5> QED
          BY <5>1, <5>3, <5>4
      <4>3. td.lb + v.val \in td.lb .. td.lb + td.range
        BY <4>0, <4>2
      <4> QED
        BY <4>1, <4>2, <4>3, Zenon DEF InIntegerRange
    <3>2. CASE ExtensibleInteger(td)
      <4>1. td.ext /\ ~td.wide
        BY <3>2, ExtensibleFields
      <4> QED
        BY <4>1 DEF InIntegerRange
    <3>3. CASE LongInteger(td)
      <4>0. td.bits \in 32 .. 64 /\ td.range \in Nat \X Nat
        BY <3>3, LongFields, Zenon
      <4>1. td.wide /\ ~td.ext
        BY <3>3, LongFields, Zenon
      <4>2. r.val = v.val /\ v.val \in Nat \X Nat
        <5>1. r.val = CASE td.wide -> v.val [] td.ext -> OctetsOf(td.lb + v.val) [] OTHER -> td.lb + v.val
          BY <2>2 DEF OK
        <5>2. r.val = v.val
          BY <4>1, <5>1, Zenon
        <5>3. td.bits > 31
          BY <4>0, FieldWidth, Zenon
        <5> QED
          BY <2>3, <5>2, <5>3
      <4> QED
        <5>1. ~ (v.val[1] > td.range[1]
                 \/ (v.val[1] = td.range[1] /\ v.val[2] > td.range[2]))
          BY <2>1, <4>1, Zenon DEF Exceeds
        <5>2. \/ r.val[1] < td.range[1]
              \/ r.val[1] = td.range[1] /\ r.val[2] <= td.range[2]
          BY <4>0, <4>2, <5>1
        <5> QED
          BY <4>1, <5>2, Zenon DEF InIntegerRange
    <3> QED
      BY <3>1, <3>2, <3>3
  <2> QED
    BY <1>2, <1>6, <2>3, <2>4, <2>5
<1> QED
  BY <1>4, <1>5

\* A decoded enumeration is an item of its root or of the items its descriptor knows behind it.
THEOREM EnumerationsInRange ==
  ASSUME NEW s \in Seq(Bit), NEW p \in 0 .. Len(s), NEW td, Enumeration(td),
         NEW r, r = NativeEnumerated_decode_uper(td, s, p), r.code = "OK"
  PROVE  r.val \in 0 .. td.count - 1 /\ r.pos \in p .. Len(s)
<1> DEFINE m == ExtensionBit(td, s, p)
           v == get_few_bits(s, m.pos, td.bits)
           x == uper_get_nsnnwn(s, m.pos)
<1>1. m.code = "OK"
  BY DEF NativeEnumerated_decode_uper, Then, ExtensionBit
<1>2. m.val \in Nat /\ m.pos \in p .. Len(s)
  BY <1>1, ExtensionBitReads
<1>3. td.bits \in Nat /\ td.roots \in Nat /\ td.count \in Nat /\ td.roots <= td.count
  BY EnumerationFields
<1>4. CASE m.val = 0
  <2>1. v.code = "OK" /\ ~(v.val >= td.roots) /\ r = OK(v.val, v.pos)
    BY <1>1, <1>4 DEF NativeEnumerated_decode_uper, Then, ExtensionBit, Failed
  <2>2. v.val \in Nat /\ v.pos = m.pos + td.bits /\ m.pos + td.bits <= Len(s)
    BY <1>2, <1>3, <2>1, FewBits
  <2> QED
    BY <1>2, <1>3, <2>1, <2>2 DEF OK
<1>5. CASE m.val # 0
  <2>1. x.code = "OK" /\ ~(x.val + td.roots >= td.count) /\ r = OK(x.val + td.roots, x.pos)
    BY <1>1, <1>5 DEF NativeEnumerated_decode_uper, Then, ExtensionBit, Failed
  <2>2. x.val \in Nat /\ x.pos \in m.pos .. Len(s)
    BY <1>2, <2>1, SmallNumberReads
  <2> QED
    BY <1>2, <1>3, <2>1, <2>2 DEF OK
<1> QED
  BY <1>4, <1>5

\* Two streams of which one is a beginning of the other, or that differ behind a beginning both have.
Agreeing(s, t) == \A i \in 1 .. Len(s) : i <= Len(t) => s[i] = t[i]

\* What was read as r from one of them is read from the other, if that has the bits; otherwise
\* nothing is.
Repeats(r, again, t) == IF r.pos <= Len(t) THEN again = r ELSE again.code # "OK"

LEMMA PieceItem ==
  ASSUME NEW s \in Seq(Bit), NEW p \in Nat, NEW n \in Nat, p + n <= Len(s)
  PROVE  /\ SubSeq(s, p + 1, p + n) \in Seq(Bit)
         /\ Len(SubSeq(s, p + 1, p + n)) = n
         /\ \A i \in 1 .. n : SubSeq(s, p + 1, p + n)[i] = s[p + i]
<1>1. PICK a \in Int : a = p + 1
  OBVIOUS
<1>2. PICK b \in Int : b = p + n
  OBVIOUS
<1>3. \A i \in a .. b : s[i] \in Bit
  <2>1. \A i \in a .. b : i \in 1 .. Len(s)
    BY <1>1, <1>2
  <2> QED
    BY <2>1
<1>4. /\ SubSeq(s, a, b) \in Seq(Bit)
      /\ Len(SubSeq(s, a, b)) = IF a <= b THEN b - a + 1 ELSE 0
      /\ \A i \in 1 .. b - a + 1 : SubSeq(s, a, b)[i] = s[a + i - 1]
  BY <1>3, SubSeqProperties
<1>5. b - a + 1 = n /\ (IF a <= b THEN b - a + 1 ELSE 0) = n
  BY <1>1, <1>2
<1>6. \A i \in 1 .. n : a + i - 1 = p + i
  BY <1>1
<1> QED
  BY <1>1, <1>2, <1>4, <1>5, <1>6, Zenon

LEMMA ManyAgain ==
  ASSUME NEW s \in Seq(Bit), NEW t \in Seq(Bit), Agreeing(s, t), NEW p \in Nat, NEW n \in Nat,
         NEW r, r = get_many_bits(s, p, n), r.code = "OK"
  PROVE  Repeats(r, get_many_bits(t, p, n), t)
<1>1. p + n <= Len(s) /\ r = OK(SubSeq(s, p + 1, p + n), p + n)
  BY DEF get_many_bits, Starved, OK
<1>2. r.pos = p + n
  BY <1>1 DEF OK
<1>3. CASE p + n <= Len(t)
  <2>1. SubSeq(s, p + 1, p + n) = SubSeq(t, p + 1, p + n)
    <3>1. /\ Len(SubSeq(s, p + 1, p + n)) = n
          /\ \A i \in 1 .. n : SubSeq(s, p + 1, p + n)[i] = s[p + i]
      BY <1>1, PieceItem, Zenon
    <3>2. /\ Len(SubSeq(t, p + 1, p + n)) = n
          /\ \A i \in 1 .. n : SubSeq(t, p + 1, p + n)[i] = t[p + i]
      BY <1>3, PieceItem, Zenon
    <3>3. \A i \in 1 .. n : s[p + i] = t[p + i]
      <4>1. ASSUME NEW i \in 1 .. n PROVE s[p + i] = t[p + i]
        <5>1. PICK j \in 1 .. Len(s) : j = p + i /\ j <= Len(t)
          BY <1>1, <1>3
        <5> QED
          BY <5>1 DEF Agreeing
      <4> QED
        BY <4>1
    <3>4. SubSeq(s, p + 1, p + n) \in Seq(Bit) /\ SubSeq(t, p + 1, p + n) \in Seq(Bit)
      BY <1>1, <1>3, PieceItem, Zenon
    <3> QED
      BY <3>1, <3>2, <3>3, <3>4, SeqEqual, Zenon
  <2>2. get_many_bits(t, p, n) = OK(SubSeq(t, p + 1, p + n), p + n)
    BY <1>3 DEF get_many_bits
  <2> QED
    BY <1>1, <1>2, <1>3, <2>1, <2>2 DEF Repeats
<1>4. CASE ~ (p + n <= Len(t))
  <2>1. get_many_bits(t, p, n) = Starved
    BY <1>4 DEF get_many_bits
  <2> QED
    BY <1>2, <1>4, <2>1 DEF Repeats, Starved
<1> QED
  BY <1>3, <1>4

LEMMA FewAgain ==
  ASSUME NEW s \in Seq(Bit), NEW t \in Seq(Bit), Agreeing(s, t), NEW p \in Nat, NEW n \in Nat,
         NEW r, r = get_few_bits(s, p, n), r.code = "OK"
  PROVE  Repeats(r, get_few_bits(t, p, n), t)
<1> DEFINE a == get_many_bits(s, p, n)
           again == get_many_bits(t, p, n)
<1>1. a.code = "OK" /\ r = OK(Value(a.val), a.pos)
  BY DEF get_few_bits, Then
<1>2. Repeats(a, again, t)
  BY <1>1, ManyAgain
<1>3. r.pos = a.pos
  BY <1>1 DEF OK
<1>4. CASE a.pos <= Len(t)
  <2>1. again = a
    BY <1>2, <1>4 DEF Repeats
  <2> QED
    BY <1>1, <1>3, <1>4, <2>1 DEF Repeats, get_few_bits, Then
<1>5. CASE ~ (a.pos <= Len(t))
  <2>1. again.code # "OK"
    BY <1>2, <1>5 DEF Repeats
  <2>2. get_few_bits(t, p, n) = again
    BY <2>1 DEF get_few_bits, Then
  <2> QED
    BY <1>3, <1>5, <2>1, <2>2 DEF Repeats
<1> QED
  BY <1>4, <1>5

LEMMA OctetsAgain ==
  ASSUME NEW s \in Seq(Bit), NEW t \in Seq(Bit), Agreeing(s, t), NEW p \in Nat, NEW n \in Nat,
         NEW r, r = GetOctets(s, p, n), r.code = "OK"
  PROVE  Repeats(r, GetOctets(t, p, n), t)
<1> DEFINE a == get_many_bits(s, p, 8 * n)
           again == get_many_bits(t, p, 8 * n)
<1>1. a.code = "OK" /\ r = OK([i \in 1 .. n |-> Value(SubSeq(a.val, 8 * i - 7, 8 * i))], a.pos)
  BY DEF GetOctets, Then
<1>2. Repeats(a, again, t)
  <2>1. PICK k \in Nat : k = 8 * n
    OBVIOUS
  <2>2. get_many_bits(s, p, k).code = "OK"
    BY <1>1, <2>1
  <2>3. Repeats(get_many_bits(s, p, k), get_many_bits(t, p, k), t)
    BY <2>2, ManyAgain, Zenon
  <2> QED
    BY <2>1, <2>3
<1>3. r.pos = a.pos
  BY <1>1 DEF OK
<1>4. CASE a.pos <= Len(t)
  <2>1. again = a
    BY <1>2, <1>4 DEF Repeats
  <2>2. GetOctets(t, p, n) = r
    BY <1>1, <2>1, Zenon DEF GetOctets, Then
  <2> QED
    BY <1>3, <1>4, <2>2 DEF Repeats
<1>5. CASE ~ (a.pos <= Len(t))
  <2>1. again.code # "OK"
    BY <1>2, <1>5 DEF Repeats
  <2>2. GetOctets(t, p, n) = again
    BY <2>1, Zenon DEF GetOctets, Then
  <2> QED
    BY <1>3, <1>5, <2>1, <2>2 DEF Repeats
<1> QED
  BY <1>4, <1>5

\* What comes behind a first part that ends at q cannot be repeated where that cannot.
LEMMA NotWithoutPart ==
  ASSUME NEW r, NEW q \in Int, NEW again, NEW t \in Seq(Bit), r.pos \in Int, q <= r.pos, ~ (q <= Len(t)),
         again.code # "OK"
  PROVE  Repeats(r, again, t)
BY DEF Repeats

LEMMA LengthAgain ==
  ASSUME NEW s \in Seq(Bit), NEW t \in Seq(Bit), Agreeing(s, t), NEW p \in Nat,
         NEW ebits, NEW lb, SizeField(ebits, lb),
         NEW r, r = uper_get_length(s, p, ebits, lb), r.code = "OK"
  PROVE  Repeats(r, uper_get_length(t, p, ebits, lb), t)
<1>1. CASE ebits \in Nat
  <2> DEFINE a == get_few_bits(s, p, ebits)
             again == get_few_bits(t, p, ebits)
  <2>1. a.code = "OK" /\ r = OK(a.val + lb, a.pos)
    BY <1>1 DEF uper_get_length, Then
  <2>2. Repeats(a, again, t)
    BY <1>1, <2>1, FewAgain
  <2>3. r.pos = a.pos
    BY <2>1 DEF OK
  <2>4. ebits >= 0
    BY <1>1
  <2>5. CASE a.pos <= Len(t)
    <3>1. again = a
      BY <2>2, <2>5 DEF Repeats
    <3>2. uper_get_length(t, p, ebits, lb) = r
      BY <2>1, <2>4, <3>1 DEF uper_get_length, Then
    <3> QED
      BY <2>3, <2>5, <3>2 DEF Repeats
  <2>6. CASE ~ (a.pos <= Len(t))
    <3>1. again.code # "OK"
      BY <2>2, <2>6 DEF Repeats
    <3>2. uper_get_length(t, p, ebits, lb) = again
      BY <2>4, <3>1 DEF uper_get_length, Then
    <3> QED
      BY <2>3, <2>6, <3>1, <3>2 DEF Repeats
  <2> QED
    BY <2>5, <2>6
<1>2. CASE ebits \notin Nat
  <2> DEFINE a == get_few_bits(s, p, 8)
             a2 == get_few_bits(t, p, 8)
             b == get_few_bits(s, a.pos, 8)
             b2 == get_few_bits(t, a.pos, 8)
             again == uper_get_length(t, p, ebits, lb)
  <2>0. ~ (ebits >= 0)
    BY <1>2 DEF SizeField, NoSize
  <2>1. a.code = "OK"
    BY <2>0 DEF uper_get_length, Then
  <2>2. a.val \in Nat /\ a.pos \in Nat
    BY <2>1, FewBits
  <2>3. Repeats(a, a2, t)
    BY <2>1, FewAgain
  <2>4. CASE ~ (a.pos <= Len(t))
    <3>1. a2.code # "OK"
      BY <2>3, <2>4 DEF Repeats
    <3>2. again = a2
      BY <2>0, <3>1 DEF uper_get_length, Then
    <3>3. r.pos \in Int /\ a.pos <= r.pos
      <4>1. CASE a.val < 128
        BY <2>0, <2>1, <2>2, <4>1 DEF uper_get_length, Then, OK
      <4>2. CASE ~ (a.val < 128) /\ a.val < 192
        <5>1. b.code = "OK" /\ r.pos = b.pos
          BY <2>0, <2>1, <4>2 DEF uper_get_length, Then, OK
        <5>2. b.pos = a.pos + 8
          BY <2>2, <5>1, FewBits
        <5> QED
          BY <2>2, <5>1, <5>2
      <4>3. CASE ~ (a.val < 192)
        BY <2>0, <2>1, <2>2, <4>3 DEF uper_get_length, Then, OK, Starved
      <4> QED
        BY <2>2, <4>1, <4>2, <4>3
    <3> QED
      BY <2>2, <2>4, <3>1, <3>2, <3>3, NotWithoutPart
  <2>5. CASE a.pos <= Len(t)
    <3>1. a2 = a
      BY <2>3, <2>5 DEF Repeats
    <3>2. CASE a.val < 128
      <4>1. r = OK(a.val, a.pos) /\ again = OK(a.val, a.pos)
        BY <2>0, <2>1, <3>1, <3>2 DEF uper_get_length, Then
      <4> QED
        BY <2>5, <4>1 DEF Repeats, OK
    <3>3. CASE ~ (a.val < 128) /\ a.val < 192
      <4>1. b.code = "OK" /\ r = OK((a.val % 64) * 256 + b.val, b.pos)
        BY <2>0, <2>1, <3>3 DEF uper_get_length, Then
      <4>2. Repeats(b, b2, t)
        BY <2>2, <4>1, FewAgain
      <4>3. r.pos = b.pos
        BY <4>1 DEF OK
      <4>4. CASE b.pos <= Len(t)
        <5>1. b2 = b
          BY <4>2, <4>4 DEF Repeats
        <5>2. again = OK((a.val % 64) * 256 + b.val, b.pos)
          BY <2>0, <2>1, <3>1, <3>3, <4>1, <5>1 DEF uper_get_length, Then
        <5> QED
          BY <4>1, <4>3, <4>4, <5>2 DEF Repeats
      <4>5. CASE ~ (b.pos <= Len(t))
        <5>1. b2.code # "OK"
          BY <4>2, <4>5 DEF Repeats
        <5>2. again = b2
          BY <2>0, <2>1, <3>1, <3>3, <5>1 DEF uper_get_length, Then
        <5> QED
          BY <4>3, <4>5, <5>1, <5>2 DEF Repeats
      <4> QED
        BY <4>4, <4>5
    <3>4. CASE ~ (a.val < 192)
      <4>1. r = OK(16384 * (a.val % 64), a.pos) /\ again = r
        BY <2>0, <2>1, <2>2, <3>1, <3>4 DEF uper_get_length, Then, Starved
      <4> QED
        BY <2>5, <4>1 DEF Repeats, OK
    <3> QED
      BY <2>2, <3>2, <3>3, <3>4
  <2> QED
    BY <2>4, <2>5
<1> QED
  BY <1>1, <1>2

\* A first part that is not there again, if what was read ends behind it, and a first part that is.
LEMMA PartOrNot ==
  ASSUME NEW a, NEW again, NEW t \in Seq(Bit), Repeats(a, again, t)
  PROVE  \/ ~ (a.pos <= Len(t)) /\ again.code # "OK"
         \/ a.pos <= Len(t) /\ again = a
BY DEF Repeats

LEMMA WholeNumberAgain ==
  ASSUME NEW s \in Seq(Bit), NEW t \in Seq(Bit), Agreeing(s, t), NEW p \in Nat, NEW nbits \in Nat,
         NEW r, r = uper_get_constrained_whole_number(s, p, nbits), r.code = "OK"
  PROVE  Repeats(r, uper_get_constrained_whole_number(t, p, nbits), t)
<1> DEFINE again == uper_get_constrained_whole_number(t, p, nbits)
<1>1. CASE nbits <= 31
  <2>1. r = get_few_bits(s, p, nbits) /\ again = get_few_bits(t, p, nbits)
    BY <1>1 DEF uper_get_constrained_whole_number
  <2> QED
    BY <2>1, FewAgain
<1>2. CASE nbits > 31
  <2> DEFINE a == get_few_bits(s, p, 31)
             a2 == get_few_bits(t, p, 31)
             b == get_few_bits(s, a.pos, nbits - 31)
             b2 == get_few_bits(t, a.pos, nbits - 31)
  <2>1. a.code = "OK" /\ b.code = "OK" /\ r = OK(<<a.val, b.val>>, b.pos)
    BY <1>2 DEF uper_get_constrained_whole_number, Then
  <2>2. a.pos = p + 31
    BY <2>1, FewBits
  <2>3. a.pos \in Nat /\ nbits - 31 \in Nat /\ a.pos <= p + nbits
    BY <1>2, <2>2
  <2>4. b.pos = p + nbits
    <3>1. b.pos = a.pos + (nbits - 31)
      BY <2>1, <2>3, FewBits
    <3> QED
      BY <2>2, <3>1
  <2>5. r.pos = b.pos
    BY <2>1 DEF OK
  <2>6. Repeats(a, a2, t)
    BY <2>1, FewAgain
  <2>7. Repeats(b, b2, t)
    BY <2>1, <2>3, FewAgain
  <2>8. CASE ~ (a.pos <= Len(t)) /\ a2.code # "OK"
    <3>1. again = a2
      BY <1>2, <2>8 DEF uper_get_constrained_whole_number, Then
    <3> QED
      BY <2>3, <2>4, <2>5, <2>8, <3>1, NotWithoutPart
  <2>9. CASE a.pos <= Len(t) /\ a2 = a
    <3>1. CASE ~ (b.pos <= Len(t)) /\ b2.code # "OK"
      <4>1. again = b2
        BY <1>2, <2>1, <2>9, <3>1 DEF uper_get_constrained_whole_number, Then
      <4> QED
        BY <2>5, <3>1, <4>1 DEF Repeats
    <3>2. CASE b.pos <= Len(t) /\ b2 = b
      <4>1. ~ (nbits <= 31) /\ a2.code = "OK" /\ get_few_bits(t, a2.pos, nbits - 31) = b2 /\ b2.code = "OK"
        BY <1>2, <2>1, <2>9, <3>2
      <4>2. again = OK(<<a2.val, b2.val>>, b2.pos)
        BY <4>1, Zenon DEF uper_get_constrained_whole_number, Then
      <4> QED
        BY <2>1, <2>5, <2>9, <3>2, <4>2 DEF Repeats
    <3> QED
      BY <2>7, <3>1, <3>2, PartOrNot
  <2> QED
    BY <2>6, <2>8, <2>9, PartOrNot
<1> QED
  BY <1>1, <1>2

LEMMA SmallNumberAgain ==
  ASSUME NEW s \in Seq(Bit), NEW t \in Seq(Bit), Agreeing(s, t), NEW p \in Nat,
         NEW r, r = uper_get_nsnnwn(s, p), r.code = "OK"
  PROVE  Repeats(r, uper_get_nsnnwn(t, p), t)
<1> DEFINE again == uper_get_nsnnwn(t, p)
           a == get_few_bits(s, p, 7)
           a2 == get_few_bits(t, p, 7)
           b == get_few_bits(s, a.pos, 2)
           b2 == get_few_bits(t, a.pos, 2)
           octets == (a.val % 64) * 4 + b.val
           c == get_few_bits(s, b.pos, 8 * octets)
           c2 == get_few_bits(t, b.pos, 8 * octets)
<1>1. a.code = "OK"
  BY DEF uper_get_nsnnwn, Then
<1>2. a.val \in Nat /\ a.pos \in Nat
  BY <1>1, FewBits
<1>3. Repeats(a, a2, t)
  BY <1>1, FewAgain
<1>4. CASE a.val < 64
  <2>1. r = OK(a.val, a.pos) /\ r.pos = a.pos
    BY <1>1, <1>4 DEF uper_get_nsnnwn, Then, OK
  <2>2. CASE ~ (a.pos <= Len(t)) /\ a2.code # "OK"
    <3>1. again = a2
      BY <2>2 DEF uper_get_nsnnwn, Then
    <3> QED
      BY <2>1, <2>2, <3>1 DEF Repeats
  <2>3. CASE a.pos <= Len(t) /\ a2 = a
    <3>1. again = r
      BY <1>1, <1>4, <2>1, <2>3 DEF uper_get_nsnnwn, Then
    <3> QED
      BY <2>1, <2>3, <3>1 DEF Repeats
  <2> QED
    BY <1>3, <2>2, <2>3, PartOrNot
<1>5. CASE ~ (a.val < 64)
  <2>1. b.code = "OK"
    BY <1>1, <1>5 DEF uper_get_nsnnwn, Then
  <2>2. b.val \in Nat /\ b.pos = a.pos + 2 /\ b.pos \in Nat
    BY <1>2, <2>1, FewBits
  <2>3. octets \in Nat /\ 8 * octets \in Nat
    <3>1. (a.val % 64) \in Nat
      BY <1>2
    <3>2. octets \in Nat
      BY <2>2, <3>1
    <3> HIDE DEF octets
    <3> QED
      BY <3>2
  <2>4. Repeats(b, b2, t)
    BY <1>2, <2>1, FewAgain
  <2>5. \/ octets = 0 /\ r = OK(0, b.pos)
        \/ octets \in {1, 2} /\ r = c
    <3>1. octets \in {0, 1, 2}
      <4>1. ASSUME octets \notin {0, 1, 2} PROVE FALSE
        <5>1. r = Starved
          BY <1>1, <1>5, <2>1, <4>1 DEF uper_get_nsnnwn, Then
        <5> QED
          BY <5>1 DEF Starved
      <4> QED
        BY <4>1
    <3> QED
      BY <1>1, <1>5, <2>1, <3>1 DEF uper_get_nsnnwn, Then
  <2>6. r.pos \in Int /\ a.pos <= b.pos /\ b.pos <= r.pos
    <3>1. CASE octets = 0 /\ r = OK(0, b.pos)
      BY <2>2, <3>1, <1>2 DEF OK
    <3>2. CASE octets \in {1, 2} /\ r = c
      <4> HIDE DEF octets
      <4>1. c.pos = b.pos + 8 * octets
        BY <2>2, <2>3, <3>2, FewBits
      <4> QED
        BY <1>2, <2>2, <2>3, <3>2, <4>1
    <3> QED
      BY <2>5, <3>1, <3>2
  <2>7. CASE ~ (a.pos <= Len(t)) /\ a2.code # "OK"
    <3>1. again = a2
      BY <2>7 DEF uper_get_nsnnwn, Then
    <3>2. a.pos <= r.pos
      BY <1>2, <2>2, <2>6
    <3> QED
      BY <1>2, <2>6, <2>7, <3>1, <3>2, NotWithoutPart
  <2>8. CASE a.pos <= Len(t) /\ a2 = a
    <3>1. CASE ~ (b.pos <= Len(t)) /\ b2.code # "OK"
      <4>1. again = b2
        BY <1>1, <1>5, <2>8, <3>1 DEF uper_get_nsnnwn, Then
      <4> QED
        BY <2>2, <2>6, <3>1, <4>1, NotWithoutPart
    <3>2. CASE b.pos <= Len(t) /\ b2 = b
      <4>1. CASE octets = 0 /\ r = OK(0, b.pos)
        <5>1. again = r
          BY <1>1, <1>5, <2>1, <2>8, <3>2, <4>1 DEF uper_get_nsnnwn, Then
        <5> QED
          BY <3>2, <4>1, <5>1 DEF Repeats, OK
      <4>2. CASE octets \in {1, 2} /\ r = c
        <5>1. again = c2
          BY <1>1, <1>5, <2>1, <2>8, <3>2, <4>2 DEF uper_get_nsnnwn, Then
        <5>2. Repeats(c, c2, t)
          <6> HIDE DEF octets
          <6> QED
            BY <2>2, <2>3, <4>2, FewAgain
        <5> QED
          BY <4>2, <5>1, <5>2
      <4> QED
        BY <2>5, <4>1, <4>2
    <3> QED
      BY <2>4, <3>1, <3>2, PartOrNot
  <2> QED
    BY <1>3, <2>7, <2>8, PartOrNot
<1> QED
  BY <1>4, <1>5

LEMMA ExtensionBitAgain ==
  ASSUME NEW s \in Seq(Bit), NEW t \in Seq(Bit), Agreeing(s, t), NEW p \in 0 .. Len(s), p <= Len(t), NEW td,
         NEW r, r = ExtensionBit(td, s, p), r.code = "OK"
  PROVE  Repeats(r, ExtensionBit(td, t, p), t)
<1>1. CASE td.ext
  <2>1. r = get_few_bits(s, p, 1) /\ ExtensionBit(td, t, p) = get_few_bits(t, p, 1)
    BY <1>1 DEF ExtensionBit
  <2> QED
    BY <2>1, FewAgain
<1>2. CASE ~td.ext
  BY <1>2 DEF ExtensionBit, OK, Repeats
<1> QED
  BY <1>1, <1>2

\* What a decoder makes of the stream behind its extension bit.
BehindRange(td, s, p) ==
    Then(uper_get_length(s, p, NoSize, 0), LAMBDA n, r :
    Then(GetOctets(s, r, n), LAMBDA o, t : IF Len(AsLong(o)) > 8 THEN Failed ELSE OK(AsLong(o), t)))

LEMMA BehindRangeReads ==
  ASSUME NEW s \in Seq(Bit), NEW p \in Nat, NEW td, NEW r, r = BehindRange(td, s, p), r.code = "OK"
  PROVE  r.pos \in p .. Len(s)
<1> DEFINE n == uper_get_length(s, p, NoSize, 0)
           o == GetOctets(s, n.pos, n.val)
<1>1. n.code = "OK" /\ o.code = "OK" /\ r.pos = o.pos
  BY DEF BehindRange, Then, Failed, OK
<1>2. n.val \in Nat /\ n.pos \in p .. Len(s)
  <2>1. SizeField(NoSize, 0)
    BY DEF SizeField
  <2> QED
    BY <1>1, <2>1, LengthReads
<1>3. o.pos \in n.pos .. Len(s)
  BY <1>1, <1>2, OctetsRead
<1> QED
  BY <1>1, <1>2, <1>3

LEMMA BehindRangeAgain ==
  ASSUME NEW s \in Seq(Bit), NEW t \in Seq(Bit), Agreeing(s, t), NEW p \in Nat, NEW td,
         NEW r, r = BehindRange(td, s, p), r.code = "OK"
  PROVE  Repeats(r, BehindRange(td, t, p), t)
<1> DEFINE again == BehindRange(td, t, p)
           n == uper_get_length(s, p, NoSize, 0)
           n2 == uper_get_length(t, p, NoSize, 0)
           o == GetOctets(s, n.pos, n.val)
           o2 == GetOctets(t, n.pos, n.val)
<1>0. SizeField(NoSize, 0)
  BY DEF SizeField
<1>1. n.code = "OK" /\ o.code = "OK" /\ r = OK(AsLong(o.val), o.pos) /\ ~ (Len(AsLong(o.val)) > 8)
  BY DEF BehindRange, Then, Failed
<1>2. n.val \in Nat /\ n.pos \in Nat
  BY <1>0, <1>1, LengthReads
<1>3. o.pos \in Nat /\ n.pos <= o.pos /\ r.pos = o.pos
  <2>1. o.pos \in n.pos .. Len(s)
    BY <1>1, <1>2, OctetsRead
  <2> QED
    BY <1>1, <1>2, <2>1 DEF OK
<1>4. Repeats(n, n2, t)
  BY <1>0, <1>1, LengthAgain
<1>5. Repeats(o, o2, t)
  BY <1>1, <1>2, OctetsAgain
<1>6. CASE ~ (n.pos <= Len(t)) /\ n2.code # "OK"
  <2>1. again = n2
    BY <1>6 DEF BehindRange, Then
  <2> QED
    BY <1>2, <1>3, <1>6, <2>1, NotWithoutPart
<1>7. CASE n.pos <= Len(t) /\ n2 = n
  <2>1. CASE ~ (o.pos <= Len(t)) /\ o2.code # "OK"
    <3>1. again = o2
      BY <1>1, <1>7, <2>1 DEF BehindRange, Then
    <3> QED
      BY <1>3, <2>1, <3>1 DEF Repeats
  <2>2. CASE o.pos <= Len(t) /\ o2 = o
    <3>1. again = OK(AsLong(o.val), o.pos)
      BY <1>1, <1>7, <2>2 DEF BehindRange, Then
    <3> QED
      BY <1>1, <1>3, <2>2, <3>1 DEF Repeats
  <2> QED
    BY <1>5, <2>1, <2>2, PartOrNot
<1> QED
  BY <1>4, <1>6, <1>7, PartOrNot

\* What the decoder of an INTEGER makes of the stream where the value lies in the range.
RangeValue(td, v) ==
    CASE td.wide -> v
      [] td.ext  -> OctetsOf(td.lb + v)
      [] OTHER   -> td.lb + v

FromRange(td, s, p) ==
    Then(uper_get_constrained_whole_number(s, p, td.bits), LAMBDA v, r :
         IF ~td.unsigned /\ Exceeds(td, v) THEN Failed ELSE OK(RangeValue(td, v), r))

LEMMA FromRangeAgain ==
  ASSUME NEW s \in Seq(Bit), NEW t \in Seq(Bit), Agreeing(s, t), NEW p \in Nat, NEW td, td.bits \in Nat,
         NEW r, r = FromRange(td, s, p), r.code = "OK"
  PROVE  Repeats(r, FromRange(td, t, p), t) /\ r.pos = p + td.bits
<1> DEFINE again == FromRange(td, t, p)
           v == uper_get_constrained_whole_number(s, p, td.bits)
           v2 == uper_get_constrained_whole_number(t, p, td.bits)
<1>1. v.code = "OK" /\ ~ (~td.unsigned /\ Exceeds(td, v.val)) /\ r = OK(RangeValue(td, v.val), v.pos)
  BY DEF FromRange, Then, Failed
<1>2. r.pos = v.pos
  BY <1>1 DEF OK
<1>3. v.pos = p + td.bits
  BY <1>1, WholeNumberReads
<1>4. Repeats(v, v2, t)
  BY <1>1, WholeNumberAgain
<1>5. CASE ~ (v.pos <= Len(t)) /\ v2.code # "OK"
  <2>1. again = v2
    BY <1>5 DEF FromRange, Then
  <2> QED
    BY <1>2, <1>3, <1>5, <2>1 DEF Repeats
<1>6. CASE v.pos <= Len(t) /\ v2 = v
  <2>1. again = OK(RangeValue(td, v.val), v.pos)
    BY <1>1, <1>6 DEF FromRange, Then
  <2> QED
    BY <1>1, <1>2, <1>3, <1>6, <2>1 DEF Repeats
<1> QED
  BY <1>4, <1>5, <1>6, PartOrNot

LEMMA IntegerParts ==
  ASSUME NEW td, NEW s, NEW p
  PROVE  INTEGER_decode_uper(td, s, p) =
            Then(ExtensionBit(td, s, p), LAMBDA inext, q :
                 IF inext = 1 THEN BehindRange(td, s, q) ELSE FromRange(td, s, q))
BY DEF INTEGER_decode_uper, ExtensionBit, BehindRange, FromRange, RangeValue, Then

LEMMA FromRangeReads ==
  ASSUME NEW s \in Seq(Bit), NEW p \in Nat, NEW td, td.bits \in Nat,
         NEW r, r = FromRange(td, s, p), r.code = "OK"
  PROVE  r.pos \in p .. Len(s)
<1> DEFINE v == uper_get_constrained_whole_number(s, p, td.bits)
<1>1. v.code = "OK" /\ r.pos = v.pos
  BY DEF FromRange, Then, Failed, OK
<1>2. v.pos = p + td.bits /\ v.pos <= Len(s)
  BY <1>1, WholeNumberReads
<1> QED
  BY <1>1, <1>2

\* What INTEGER_decode_uper reads depends on the bits up to the end of the number alone: a stream that
\* agrees with this one gives the same value if it has these bits, whatever follows them, and none if
\* it was cut before them.
THEOREM IntegersReadOnce ==
  ASSUME NEW s \in Seq(Bit), NEW t \in Seq(Bit), Agreeing(s, t), NEW p \in 0 .. Len(s), p <= Len(t),
         NEW td,
         PlainInteger(td) \/ ExtensibleInteger(td) \/ LongInteger(td) \/ UnsignedInteger(td),
         NEW r, r = INTEGER_decode_uper(td, s, p), r.code = "OK"
  PROVE  Repeats(r, INTEGER_decode_uper(td, t, p), t)
<1> DEFINE again == INTEGER_decode_uper(td, t, p)
           m == ExtensionBit(td, s, p)
           m2 == ExtensionBit(td, t, p)
           x == BehindRange(td, s, m.pos)
           x2 == BehindRange(td, t, m.pos)
           v == FromRange(td, s, m.pos)
           v2 == FromRange(td, t, m.pos)
<1>1. r = Then(m, LAMBDA inext, q : IF inext = 1 THEN BehindRange(td, s, q) ELSE FromRange(td, s, q))
  BY IntegerParts, Zenon
<1>2. again = Then(m2, LAMBDA inext, q : IF inext = 1 THEN BehindRange(td, t, q) ELSE FromRange(td, t, q))
  BY IntegerParts, Zenon
<1>3. m.code = "OK" /\ r = IF m.val = 1 THEN x ELSE v
  BY <1>1, Zenon DEF Then
<1>4. m.val \in Nat /\ m.pos \in Nat
  BY <1>3, ExtensionBitReads
<1>5. Repeats(m, m2, t)
  BY <1>3, ExtensionBitAgain
<1>6. td.bits \in Nat
  <2>1. td.bits \in 0 .. 31 \/ td.bits \in 32 .. 64
    BY PlainFields, ExtensibleFields, LongFields, UnsignedFields, Zenon
  <2> QED
    BY <2>1, FieldWidth, Zenon
<1>7. r.pos \in Int /\ m.pos <= r.pos
  <2>1. CASE m.val = 1
    <3>1. x.code = "OK" /\ r = x
      BY <1>3, <2>1
    <3>2. x.pos \in m.pos .. Len(s)
      BY <1>4, <3>1, BehindRangeReads
    <3> QED
      BY <1>4, <3>1, <3>2
  <2>2. CASE m.val # 1
    <3>1. v.code = "OK" /\ r = v
      BY <1>3, <2>2
    <3>2. v.pos \in m.pos .. Len(s)
      BY <1>4, <1>6, <3>1, FromRangeReads
    <3> QED
      BY <1>4, <3>1, <3>2
  <2> QED
    BY <2>1, <2>2
<1>8. CASE ~ (m.pos <= Len(t)) /\ m2.code # "OK"
  <2>1. again = m2
    BY <1>2, <1>8, Zenon DEF Then
  <2> QED
    BY <1>4, <1>7, <1>8, <2>1, NotWithoutPart
<1>9. CASE m.pos <= Len(t) /\ m2 = m
  <2>1. again = IF m.val = 1 THEN x2 ELSE v2
    BY <1>2, <1>3, <1>9, Zenon DEF Then
  <2>2. CASE m.val = 1
    <3>1. x.code = "OK" /\ r = x /\ again = x2
      BY <1>3, <2>1, <2>2
    <3>2. Repeats(x, x2, t)
      BY <1>4, <3>1, BehindRangeAgain
    <3> QED
      BY <3>1, <3>2
  <2>3. CASE m.val # 1
    <3>1. v.code = "OK" /\ r = v /\ again = v2
      BY <1>3, <2>1, <2>3
    <3>2. Repeats(v, v2, t)
      BY <1>4, <1>6, <3>1, FromRangeAgain
    <3> QED
      BY <3>1, <3>2
  <2> QED
    BY <2>2, <2>3
<1> QED
  BY <1>5, <1>8, <1>9, PartOrNot

\* What an ENUMERATED is read as depends on the bits up to the end of it alone, also behind its
\* extension marker, where the length of the number is read before it.
THEOREM EnumerationsReadOnce ==
  ASSUME NEW s \in Seq(Bit), NEW t \in Seq(Bit), Agreeing(s, t), NEW p \in 0 .. Len(s), p <= Len(t),
         NEW td, Enumeration(td),
         NEW r, r = NativeEnumerated_decode_uper(td, s, p), r.code = "OK"
  PROVE  Repeats(r, NativeEnumerated_decode_uper(td, t, p), t)
<1> DEFINE again == NativeEnumerated_decode_uper(td, t, p)
           m == ExtensionBit(td, s, p)
           m2 == ExtensionBit(td, t, p)
           v == get_few_bits(s, m.pos, td.bits)
           v2 == get_few_bits(t, m.pos, td.bits)
           x == uper_get_nsnnwn(s, m.pos)
           x2 == uper_get_nsnnwn(t, m.pos)
<1>1. m.code = "OK"
  BY DEF NativeEnumerated_decode_uper, Then, ExtensionBit
<1>2. m.val \in Nat /\ m.pos \in Nat
  BY <1>1, ExtensionBitReads
<1>3. td.bits \in Nat
  BY EnumerationFields
<1>4. Repeats(m, m2, t)
  BY <1>1, ExtensionBitAgain
<1>5. \/ /\ m.val = 0 /\ v.code = "OK" /\ ~(v.val >= td.roots) /\ r = OK(v.val, v.pos)
         /\ r.pos = v.pos
      \/ /\ m.val # 0 /\ x.code = "OK" /\ ~(x.val + td.roots >= td.count)
         /\ r = OK(x.val + td.roots, x.pos) /\ r.pos = x.pos
  BY <1>1 DEF NativeEnumerated_decode_uper, Then, ExtensionBit, Failed, OK
<1>6. r.pos \in Int /\ m.pos <= r.pos
  <2>1. CASE m.val = 0
    <3>1. v.pos = m.pos + td.bits
      BY <1>2, <1>3, <1>5, <2>1, FewBits
    <3> QED
      BY <1>2, <1>3, <1>5, <2>1, <3>1
  <2>2. CASE m.val # 0
    <3>1. x.pos \in m.pos .. Len(s)
      BY <1>2, <1>5, <2>2, SmallNumberReads
    <3> QED
      BY <1>2, <1>5, <2>2, <3>1
  <2> QED
    BY <2>1, <2>2
<1>7. CASE ~ (m.pos <= Len(t)) /\ m2.code # "OK"
  <2>1. again = m2
    BY <1>7 DEF NativeEnumerated_decode_uper, Then, ExtensionBit
  <2> QED
    BY <1>2, <1>6, <1>7, <2>1, NotWithoutPart
<1>8. CASE m.pos <= Len(t) /\ m2 = m
  <2>1. CASE m.val = 0
    <3>1. Repeats(v, v2, t)
      BY <1>2, <1>3, <1>5, <2>1, FewAgain
    <3>2. CASE ~ (v.pos <= Len(t)) /\ v2.code # "OK"
      <4>1. again = v2
        BY <1>1, <1>8, <2>1, <3>2 DEF NativeEnumerated_decode_uper, Then, ExtensionBit
      <4> QED
        BY <1>5, <2>1, <3>2, <4>1 DEF Repeats
    <3>3. CASE v.pos <= Len(t) /\ v2 = v
      <4>1. again = OK(v.val, v.pos)
        BY <1>1, <1>5, <1>8, <2>1, <3>3 DEF NativeEnumerated_decode_uper, Then, ExtensionBit
      <4> QED
        BY <1>5, <2>1, <3>3, <4>1 DEF Repeats
    <3> QED
      BY <3>1, <3>2, <3>3, PartOrNot
  <2>2. CASE m.val # 0
    <3>1. Repeats(x, x2, t)
      BY <1>2, <1>5, <2>2, SmallNumberAgain
    <3>2. CASE ~ (x.pos <= Len(t)) /\ x2.code # "OK"
      <4>1. again = x2
        BY <1>1, <1>8, <2>2, <3>2 DEF NativeEnumerated_decode_uper, Then, ExtensionBit
      <4> QED
        BY <1>5, <2>2, <3>2, <4>1 DEF Repeats
    <3>3. CASE x.pos <= Len(t) /\ x2 = x
      <4>1. again = OK(x.val + td.roots, x.pos)
        BY <1>1, <1>5, <1>8, <2>2, <3>3 DEF NativeEnumerated_decode_uper, Then, ExtensionBit
      <4> QED
        BY <1>5, <2>2, <3>3, <4>1 DEF Repeats
    <3> QED
      BY <3>1, <3>2, <3>3, PartOrNot
  <2> QED
    BY <2>1, <2>2
<1> QED
  BY <1>4, <1>7, <1>8, PartOrNot

\* The size of a string: announced, unless the type fixes it.
SizeOf(td, s, p) == IF td.bits = 0 THEN OK(td.ub, p) ELSE uper_get_length(s, p, td.bits, td.lb)

\* The descriptors of strings of bits: of a fixed size, and of a size with a field of its own.
FixedSize(td) == td.bits = 0 /\ td.ub \in Nat
OwnField(td) == td.bits \in Nat \ {0} /\ td.lb \in Nat

LEMMA SizeReads ==
  ASSUME NEW s \in Seq(Bit), NEW p \in 0 .. Len(s), NEW td, FixedSize(td) \/ OwnField(td),
         NEW r, r = SizeOf(td, s, p), r.code = "OK"
  PROVE  r.val \in Nat /\ r.pos \in p .. Len(s)
<1>1. CASE FixedSize(td)
  BY <1>1 DEF FixedSize, SizeOf, OK
<1>2. CASE OwnField(td)
  <2>1. r = uper_get_length(s, p, td.bits, td.lb) /\ SizeField(td.bits, td.lb)
    BY <1>2 DEF OwnField, SizeOf, SizeField
  <2> QED
    BY <2>1, LengthReads
<1> QED
  BY <1>1, <1>2

LEMMA SizeAgain ==
  ASSUME NEW s \in Seq(Bit), NEW t \in Seq(Bit), Agreeing(s, t), NEW p \in 0 .. Len(s), p <= Len(t),
         NEW td, FixedSize(td) \/ OwnField(td),
         NEW r, r = SizeOf(td, s, p), r.code = "OK"
  PROVE  Repeats(r, SizeOf(td, t, p), t)
<1>1. CASE FixedSize(td)
  BY <1>1 DEF FixedSize, SizeOf, OK, Repeats
<1>2. CASE OwnField(td)
  <2>1. /\ r = uper_get_length(s, p, td.bits, td.lb)
        /\ SizeOf(td, t, p) = uper_get_length(t, p, td.bits, td.lb)
        /\ SizeField(td.bits, td.lb)
    BY <1>2 DEF OwnField, SizeOf, SizeField
  <2> QED
    BY <2>1, LengthAgain
<1> QED
  BY <1>1, <1>2

\* What a BIT STRING is read as depends on the bits up to the end of it alone, of a fixed size or of
\* one that is read before it.
THEOREM BitStringsReadOnce ==
  ASSUME NEW s \in Seq(Bit), NEW t \in Seq(Bit), Agreeing(s, t), NEW p \in 0 .. Len(s), p <= Len(t),
         NEW td, FixedSize(td) \/ OwnField(td),
         NEW r, r = BIT_STRING_decode_uper(td, s, p), r.code = "OK"
  PROVE  Repeats(r, BIT_STRING_decode_uper(td, t, p), t)
<1> DEFINE again == BIT_STRING_decode_uper(td, t, p)
           m == SizeOf(td, s, p)
           m2 == SizeOf(td, t, p)
           v == get_many_bits(s, m.pos, m.val)
           v2 == get_many_bits(t, m.pos, m.val)
<1>1. m.code = "OK" /\ r = v
  BY DEF BIT_STRING_decode_uper, SizeOf, Then
<1>2. m.val \in Nat /\ m.pos \in Nat
  BY <1>1, SizeReads
<1>3. Repeats(m, m2, t)
  BY <1>1, SizeAgain
<1>4. Repeats(v, v2, t)
  BY <1>1, <1>2, ManyAgain
<1>5. r.pos \in Int /\ m.pos <= r.pos
  <2>1. v.pos = m.pos + m.val
    BY <1>1, <1>2, ManyBits
  <2> QED
    BY <1>1, <1>2, <2>1
<1>6. CASE ~ (m.pos <= Len(t)) /\ m2.code # "OK"
  <2>1. again = m2
    BY <1>6 DEF BIT_STRING_decode_uper, SizeOf, Then
  <2> QED
    BY <1>2, <1>5, <1>6, <2>1, NotWithoutPart
<1>7. CASE m.pos <= Len(t) /\ m2 = m
  <2>1. again = v2
    BY <1>1, <1>7 DEF BIT_STRING_decode_uper, SizeOf, Then
  <2> QED
    BY <1>1, <1>4, <2>1
<1> QED
  BY <1>3, <1>6, <1>7, PartOrNot
=============================================================================
