------------------------- MODULE ReadFramingProofs -------------------------
(***************************************************************************)
(* Proofs about ReadFraming, for any number of packets, any types and      *)
(* payloads, and reads of any lengths: its type invariant, and that the    *)
(* packets that come in a read of their own are handled and nothing that   *)
(* is not as a whole the encoding of a packet is.                          *)
(*                                                                         *)
(* A read of header size or more is judged by bytes of the stream alone.   *)
(* StreamInv says where in the stream a packet's bytes are.  Writing a     *)
(* word and reading it back are inverse both ways: WordReads gives what is *)
(* passed on of a packet, WordWrites that what is passed on was encoded.   *)
(***************************************************************************)
EXTENDS ReadFraming, SequenceTheorems, TLAPS

-----------------------------------------------------------------------------
(* Words.                                                                  *)

LEMMA Division ==
    ASSUME NEW n \in Nat, NEW B \in Nat \ {0}
    PROVE  /\ n \div B \in Nat
           /\ n % B \in 0 .. B - 1
           /\ n = B * (n \div B) + (n % B)
  OBVIOUS

LEMMA QuotientBelow ==
    ASSUME NEW n \in Nat, NEW B \in Nat \ {0}, NEW k \in Nat, n < B * k
    PROVE  n \div B < k
<1> PICK q \in Nat : q = n \div B
  BY Division
<1>1. B * q <= n
  BY Division
<1>2. CASE q >= k
  <2>1. B * (q - k) >= 0
    BY <1>2
  <2>2. B * (q - k) = B * q - B * k
    OBVIOUS
  <2>3. B * q \in Int /\ B * k \in Int
    OBVIOUS
  <2> QED
    OBVIOUS
<1> QED
  BY <1>2

\* One byte of a word and what is left of it.
LEMMA LowByte ==
    ASSUME NEW B \in Nat \ {0}, NEW n \in Nat, NEW p, p = n \div B
    PROVE  /\ p \in Nat
           /\ (n % B) + B * p = n
           /\ \A k \in Nat : n < B * k => p < k
<1>1. n = B * p + (n % B) /\ p \in Nat /\ n % B \in Int
  BY Division
<1>2. PICK c \in Int : c = B * p
  BY <1>1
<1> QED
  OBVIOUS

Quotients(B, v, p, q, r) == p = v \div B /\ q = p \div B /\ r = q \div B

Undone(B, v, p, q, r) ==
    (v % B) + B * ((p % B) + B * ((q % B) + B * (r % B))) = v

\* A word of at most four bytes is read as it was written.
LEMMA Horner ==
    ASSUME NEW B \in Nat \ {0}, NEW v \in Nat, v < B * (B * (B * B)),
           NEW p \in Nat, NEW q \in Nat, NEW r \in Nat, Quotients(B, v, p, q, r)
    PROVE  Undone(B, v, p, q, r)
<1> USE DEF Quotients, Undone
<1>1. PICK c \in Nat : c = B * B
  OBVIOUS
<1>2. PICK d \in Nat : d = B * c
  BY <1>1
<1>3. p \in Nat /\ (v % B) + B * p = v /\ p < d
  <2>1. v < B * d /\ p = v \div B
    BY <1>1, <1>2
  <2> QED
    BY <2>1, LowByte, Zenon
<1>4. q \in Nat /\ (p % B) + B * q = p /\ q < c
  <2>1. p < B * c /\ q = p \div B
    BY <1>2, <1>3
  <2> QED
    BY <2>1, LowByte, Zenon
<1>5. r \in Nat /\ (q % B) + B * r = q /\ r < B
  <2>1. PICK b \in Nat : b = B
    OBVIOUS
  <2>2. q < B * b /\ r = q \div B
    BY <1>1, <1>4, <2>1
  <2>3. r \in Nat /\ (q % B) + B * r = q /\ r < b
    BY <2>2, LowByte, Zenon
  <2> QED
    BY <2>1, <2>3, Zenon
<1>6. r % B = r
  BY <1>5
<1>7. (q % B) + B * (r % B) = q
  BY <1>5, <1>6, Zenon
<1>8. (p % B) + B * ((q % B) + B * (r % B)) = p
  BY <1>4, <1>7, Zenon
<1> QED
  BY <1>3, <1>8, Zenon

\* A byte and the rest of a word that begins with it.
LEMMA FirstByte ==
    ASSUME NEW B \in Nat \ {0}, NEW a \in 0 .. B - 1, NEW q \in Nat, NEW n, n = a + B * q
    PROVE  n \in Nat /\ n % B = a /\ n \div B = q
<1>1. n \in Nat
  <2>1. PICK c \in Nat : c = B * q
    OBVIOUS
  <2> QED
    BY <2>1
<1>2. PICK d \in Nat, m \in 0 .. B - 1 : d = n \div B /\ m = n % B /\ n = B * d + m
  BY <1>1, Division
<1>3. B * (q - d) = m - a
  BY <1>2
<1>4. CASE q - d >= 1
  <2>1. PICK e \in Nat : e = q - d - 1
    BY <1>4
  <2>2. PICK f \in Nat : f = B * e
    BY <2>1
  <2>3. B * (q - d) = B + f
    BY <2>1, <2>2
  <2> QED
    BY <1>2, <1>3, <2>3
<1>5. CASE q - d <= -1
  <2>1. PICK e \in Nat : e = d - q - 1
    BY <1>5
  <2>2. PICK f \in Nat : f = B * e
    BY <2>1
  <2>3. B * (q - d) = -(B + f)
    BY <2>1, <2>2
  <2> QED
    BY <1>2, <1>3, <2>3
<1>6. CASE q = d
  BY <1>1, <1>2, <1>3, <1>6
<1> QED
  BY <1>2, <1>4, <1>5, <1>6

LEMMA BaseType == Base \in Nat \ {0, 1} /\ 0 \in Bytes
  BY FramingAssumption DEF Bytes

LEMMA WordBytes ==
    ASSUME NEW v \in Nat
    PROVE  /\ append_int_vec_char_le(v) \in Seq(Bytes)
           /\ Len(append_int_vec_char_le(v)) = 4
<1>1. PICK p \in Nat : p = v \div Base
  BY BaseType
<1>2. PICK q \in Nat : q = p \div Base
  BY BaseType
<1>3. PICK r \in Nat : r = q \div Base
  BY BaseType
<1>4. v % Base \in Bytes /\ p % Base \in Bytes /\ q % Base \in Bytes /\ r % Base \in Bytes
  BY BaseType DEF Bytes
<1>5. append_int_vec_char_le(v) = <<v % Base, p % Base, q % Base, r % Base>>
  BY <1>1, <1>2, <1>3 DEF append_int_vec_char_le
<1> QED
  BY <1>4, <1>5

LEMMA WordReads ==
    ASSUME NEW v \in Nat, v < Base * (Base * (Base * Base)),
           NEW w, w = append_int_vec_char_le(v)
    PROVE  ReadInt(w, 1) = v
<1>1. PICK p \in Nat : p = v \div Base
  BY BaseType
<1>2. PICK q \in Nat : q = p \div Base
  BY BaseType
<1>3. PICK r \in Nat : r = q \div Base
  BY BaseType
<1>4. w = <<v % Base, p % Base, q % Base, r % Base>>
  BY <1>1, <1>2, <1>3 DEF append_int_vec_char_le
<1>5. Undone(Base, v, p, q, r)
  <2>1. Base \in Nat \ {0}
    BY BaseType
  <2>2. Quotients(Base, v, p, q, r)
    BY <1>1, <1>2, <1>3 DEF Quotients
  <2> QED
    BY <2>1, <2>2, Horner
<1> QED
  BY <1>4, <1>5 DEF ReadInt, Undone

LEMMA WordWrites ==
    ASSUME NEW hdr \in [1 .. HeaderSize -> Bytes], NEW i \in {5, 9}
    PROVE  /\ ReadInt(hdr, i) \in Nat
           /\ append_int_vec_char_le(ReadInt(hdr, i))
                = <<hdr[i], hdr[i + 1], hdr[i + 2], hdr[i + 3]>>
<1>1. PICK a \in Bytes, b \in Bytes, c \in Bytes, d \in Bytes :
        a = hdr[i] /\ b = hdr[i + 1] /\ c = hdr[i + 2] /\ d = hdr[i + 3]
  BY DEF HeaderSize
<1>2. Base \in Nat \ {0} /\ a \in 0 .. Base - 1 /\ b \in 0 .. Base - 1
      /\ c \in 0 .. Base - 1 /\ d \in 0 .. Base - 1 /\ d \in Nat
  BY BaseType DEF Bytes
<1>3. PICK r \in Nat : r = c + Base * d
  BY <1>2, FirstByte
<1>4. PICK q \in Nat : q = b + Base * r
  BY <1>2, FirstByte
<1>5. PICK v : v = a + Base * q
  OBVIOUS
<1>6. v \in Nat /\ v % Base = a /\ v \div Base = q
  BY <1>2, <1>5, FirstByte
<1>7. q % Base = b /\ q \div Base = r
  BY <1>2, <1>4, FirstByte
<1>8. r % Base = c /\ r \div Base = d
  BY <1>2, <1>3, FirstByte
<1>9. d % Base = d
  BY <1>2
<1>10. append_int_vec_char_le(v) = <<a, b, c, d>>
  BY <1>6, <1>7, <1>8, <1>9 DEF append_int_vec_char_le
<1>11. ReadInt(hdr, i) = v
  BY <1>1, <1>3, <1>4, <1>5 DEF ReadInt
<1> QED
  BY <1>1, <1>6, <1>10, <1>11

-----------------------------------------------------------------------------
(* Packets.                                                                *)

\* w is "prot", the words t and l, and the payload.
Parts(w, t, l, data) ==
    /\ w \in Seq(Bytes) /\ Len(w) = Total(data)
    /\ \A k \in 1 .. 4 : w[k] = Magic[k]
    /\ w[5] = t[1] /\ w[6] = t[2] /\ w[7] = t[3] /\ w[8] = t[4]
    /\ w[9] = l[1] /\ w[10] = l[2] /\ w[11] = l[3] /\ w[12] = l[4]
    /\ \A k \in 1 .. Len(data) : w[HeaderSize + k] = data[k]

\* What ReadAsync finds in w.
IsWire(w, type, data) ==
    /\ w \in Seq(Bytes) /\ Len(w) = Total(data)
    /\ \A k \in 1 .. 4 : w[k] = Magic[k]
    /\ ReadInt(w, 5) = type /\ ReadInt(w, 9) = Total(data)
    /\ \A k \in 1 .. Len(data) : w[HeaderSize + k] = data[k]

LEMMA FunctionIsSeq ==
    ASSUME NEW S, NEW n \in Nat, NEW s \in [1 .. n -> S]
    PROVE  s \in Seq(S) /\ Len(s) = n
  OBVIOUS

LEMMA MagicBytes == Magic \in Seq(Bytes) /\ Len(Magic) = 4
<1>1. Magic \in [1 .. 4 -> Bytes]
  BY FramingAssumption
<1> QED
  BY <1>1, FunctionIsSeq

\* s has n bytes; r is s, of a bytes, followed by t, of b bytes.
Run(s, n) == s \in Seq(Bytes) /\ Len(s) = n

Joins(r, s, a, t, b) ==
    /\ Run(r, a + b)
    /\ \A i \in 1 .. a + b : r[i] = IF i <= a THEN s[i] ELSE t[i - a]

LEMMA ConcatBytes ==
    ASSUME NEW s, NEW t, NEW a, NEW b, Run(s, a), Run(t, b)
    PROVE  Joins(s \o t, s, a, t, b)
<1>1. /\ s \o t \in Seq(Bytes)
      /\ Len(s \o t) = Len(s) + Len(t)
      /\ \A i \in 1 .. Len(s) + Len(t) :
           (s \o t)[i] = IF i <= Len(s) THEN s[i] ELSE t[i - Len(s)]
  BY DEF Run
<1> QED
  BY DEF Run, Joins

LEMMA WireParts ==
    ASSUME NEW type \in Nat, NEW data \in Seq(Bytes)
    PROVE  Parts(Wire(type, data), append_int_vec_char_le(type),
                 append_int_vec_char_le(Total(data)), data)
<1> DEFINE t == append_int_vec_char_le(type)
           l == append_int_vec_char_le(Total(data))
<1>1. Len(data) \in Nat /\ Total(data) \in Nat /\ Total(data) = 12 + Len(data)
  BY DEF Total, HeaderSize
<1>2. Run(Magic, 4)
  BY MagicBytes DEF Run
<1>3. Run(t, 4) /\ Run(l, 4)
  BY <1>1, WordBytes DEF Run
<1>4. Run(data, Len(data))
  BY DEF Run
<1>5. Wire(type, data) = ((Magic \o t) \o l) \o data
  BY DEF Wire, append_prot_packet
<1> HIDE DEF t, l
<1>6. PICK a : a = Magic \o t
  OBVIOUS
<1>7. Joins(a, Magic, 4, t, 4)
  BY <1>2, <1>3, <1>6, ConcatBytes
<1>8. PICK b : b = a \o l
  OBVIOUS
<1>9. Joins(b, a, 8, l, 4)
  <2>1. Run(a, 8)
    BY <1>7 DEF Joins
  <2> QED
    BY <1>3, <1>8, <2>1, ConcatBytes
<1>10. PICK w : w = b \o data
  OBVIOUS
<1>11. Joins(w, b, 12, data, Len(data))
  <2>1. Run(b, 12)
    BY <1>9 DEF Joins
  <2> QED
    BY <1>4, <1>10, <2>1, ConcatBytes
<1>12. Wire(type, data) = w
  BY <1>5, <1>6, <1>8, <1>10
<1>13. \A i \in 1 .. 12 : w[i] = b[i]
  BY <1>1, <1>11 DEF Joins
<1>14. \A i \in 1 .. 8 : w[i] = a[i]
  BY <1>9, <1>13 DEF Joins
<1>15. \A k \in 1 .. 4 : w[k] = Magic[k]
  BY <1>7, <1>14 DEF Joins
<1>16. w[5] = t[1] /\ w[6] = t[2] /\ w[7] = t[3] /\ w[8] = t[4]
  BY <1>7, <1>14 DEF Joins
<1>17. w[9] = l[1] /\ w[10] = l[2] /\ w[11] = l[3] /\ w[12] = l[4]
  BY <1>9, <1>13 DEF Joins
<1>18. \A k \in 1 .. Len(data) : w[12 + k] = data[k]
  BY <1>1, <1>11 DEF Joins
<1>19. w \in Seq(Bytes) /\ Len(w) = Total(data)
  BY <1>1, <1>11 DEF Joins, Run
<1>20. Parts(w, t, l, data)
  BY <1>15, <1>16, <1>17, <1>18, <1>19 DEF Parts, HeaderSize
<1> QED
  BY <1>12, <1>20 DEF t, l

LEMMA PayloadFits ==
    ASSUME NEW data \in Payloads
    PROVE  /\ data \in Seq(Bytes) /\ Len(data) \in Nat
           /\ Total(data) \in Nat /\ Total(data) = 12 + Len(data)
           /\ Total(data) < Base * (Base * (Base * Base))
<1>1. data \in Seq(Bytes) /\ HeaderSize + Len(data) < Base * (Base * (Base * Base))
  BY FramingAssumption
<1> QED
  BY <1>1 DEF Total, HeaderSize

LEMMA WireBytes ==
    ASSUME NEW type \in Types, NEW data \in Payloads
    PROVE  IsWire(Wire(type, data), type, data)
<1>1. type \in Nat /\ type < Base * (Base * (Base * Base))
  BY FramingAssumption
<1>2. /\ data \in Seq(Bytes) /\ Total(data) \in Nat
      /\ Total(data) < Base * (Base * (Base * Base))
  BY PayloadFits
<1>3. PICK t, l, w : /\ t = append_int_vec_char_le(type)
                    /\ l = append_int_vec_char_le(Total(data))
                    /\ w = Wire(type, data)
  OBVIOUS
<1>4. Parts(w, t, l, data)
  BY <1>1, <1>2, <1>3, WireParts
<1>5. ReadInt(t, 1) = type /\ ReadInt(l, 1) = Total(data)
  BY <1>1, <1>2, <1>3, WordReads
<1>6. ReadInt(w, 5) = ReadInt(t, 1) /\ ReadInt(w, 9) = ReadInt(l, 1)
  BY <1>4 DEF Parts, ReadInt
<1> QED
  BY <1>3, <1>4, <1>5, <1>6 DEF Parts, IsWire

-----------------------------------------------------------------------------
(* The header of a read.                                                   *)

\* The bytes of w follow the first at bytes of s.
Holds(s, at, w) ==
    /\ at + Len(w) <= Len(s)
    /\ \A k \in 1 .. Len(w) : s[at + k] = w[k]

LEMMA MagicMatch ==
    ASSUME NEW hdr \in [1 .. HeaderSize -> Bytes]
    PROVE  SubSeq(hdr, 1, 4) = Magic <=> \A k \in 1 .. 4 : hdr[k] = Magic[k]
<1>1. \A k \in 1 .. 4 : hdr[k] \in Bytes
  BY DEF HeaderSize
<1>2. /\ SubSeq(hdr, 1, 4) \in Seq(Bytes)
      /\ Len(SubSeq(hdr, 1, 4)) = 4
      /\ \A k \in 1 .. 4 : SubSeq(hdr, 1, 4)[k] = hdr[k]
  BY <1>1
<1>3. Magic \in Seq(Bytes) /\ Len(Magic) = 4
  BY MagicBytes
<1> QED
  BY <1>2, <1>3, SeqEqual

\* The header is made of the bytes of s after the first at.
Begins(hdr, s, at) ==
    /\ hdr \in [1 .. HeaderSize -> Bytes]
    /\ \A k \in 1 .. HeaderSize : hdr[k] = s[at + k]

LEMMA HeaderDecodes ==
    ASSUME NEW s, NEW w, NEW type, NEW data \in Payloads, IsWire(w, type, data),
           NEW start \in Nat, Holds(s, start, w),
           NEW hdr, Begins(hdr, s, start)
    PROVE  /\ SubSeq(hdr, 1, 4) = Magic
           /\ ReadInt(hdr, 5) = type
           /\ ReadInt(hdr, 9) = Total(data)
<1>1. Len(data) \in Nat /\ Len(w) = 12 + Len(data)
  BY PayloadFits DEF IsWire
<1>2. ASSUME NEW k \in 1 .. 12 PROVE hdr[k] = w[k]
  <2>1. k \in 1 .. Len(w) /\ k \in 1 .. HeaderSize
    BY <1>1 DEF HeaderSize
  <2> QED
    BY <2>1 DEF Holds, Begins
<1>3. ReadInt(hdr, 9) = ReadInt(w, 9) /\ ReadInt(hdr, 5) = ReadInt(w, 5)
  BY <1>2 DEF ReadInt
<1>4. SubSeq(hdr, 1, 4) = Magic
  <2>1. \A k \in 1 .. 4 : hdr[k] = w[k]
    BY <1>2
  <2>2. \A k \in 1 .. 4 : hdr[k] = Magic[k]
    BY <2>1 DEF IsWire
  <2> QED
    BY <2>2, MagicMatch DEF Begins
<1> QED
  BY <1>3, <1>4 DEF IsWire

-----------------------------------------------------------------------------
(* The invariant.                                                          *)

\* A packet's bytes are in the stream where it starts.
StreamInv ==
    \A i \in DOMAIN sent :
        Holds(stream, sent[i].start, Wire(sent[i].type, sent[i].data))

FramingInv == TypeOK /\ StreamInv

LEMMA FramingInit == Init => FramingInv
<1> SUFFICES ASSUME Init PROVE FramingInv
  OBVIOUS
<1>1. TypeOK
  <2>1. header \in [1 .. HeaderSize -> Bytes]
    BY FramingAssumption DEF Init
  <2>2. Len(stream) = 0 /\ pos \in 0 .. Len(stream)
    BY DEF Init
  <2> QED
    BY <2>1 DEF Init, TypeOK
<1>2. StreamInv
  BY DEF Init, StreamInv
<1> QED
  BY <1>1, <1>2 DEF FramingInv

LEMMA HoldsLonger ==
    ASSUME NEW s \in Seq(Bytes), NEW t \in Seq(Bytes), NEW w \in Seq(Bytes), NEW at \in Nat,
           Holds(s, at, w)
    PROVE  Holds(s \o t, at, w)
<1>1. Len(s) \in Nat /\ Len(t) \in Nat /\ Len(w) \in Nat
  BY LenProperties
<1>2. PICK r : r = s \o t
  OBVIOUS
<1>3. Joins(r, s, Len(s), t, Len(t))
  BY <1>2, ConcatBytes DEF Run
<1>4. ASSUME NEW k \in 1 .. Len(w) PROVE r[at + k] = w[k]
  <2>1. at + k \in 1 .. Len(s) + Len(t) /\ at + k <= Len(s)
    BY DEF Holds
  <2> QED
    BY <1>3 DEF Joins, Holds
<1>5. at + Len(w) <= Len(r)
  BY <1>3 DEF Joins, Run, Holds
<1> QED
  BY DEF Holds

LEMMA HoldsAtEnd ==
    ASSUME NEW s \in Seq(Bytes), NEW w \in Seq(Bytes)
    PROVE  Holds(s \o w, Len(s), w)
<1>1. Len(s) \in Nat /\ Len(w) \in Nat
  BY LenProperties
<1>2. PICK r : r = s \o w
  OBVIOUS
<1>3. Joins(r, s, Len(s), w, Len(w))
  BY <1>2, ConcatBytes DEF Run
<1>4. ASSUME NEW k \in 1 .. Len(w) PROVE r[Len(s) + k] = w[k]
  <2>1. /\ Len(s) + k \in 1 .. Len(s) + Len(w)
        /\ ~(Len(s) + k <= Len(s)) /\ (Len(s) + k) - Len(s) = k
    BY <1>1
  <2> QED
    BY <1>3 DEF Joins
<1>5. Len(s) + Len(w) <= Len(r)
  BY <1>3 DEF Joins, Run
<1> QED
  BY DEF Holds

LEMMA SentPacket ==
    ASSUME NEW s \in Seq(Packets), NEW i \in 1 .. Len(s)
    PROVE  s[i].type \in Types /\ s[i].data \in Payloads /\ s[i].start \in Nat
<1>1. s[i] \in Packets
  BY ElementOfSeq
<1> QED
  BY <1>1 DEF Packets

LEMMA SendKeeps ==
    ASSUME FramingInv, NEW type \in Types, NEW data \in Payloads, Send(type, data)
    PROVE  FramingInv'
<1> DEFINE w == Wire(type, data)
           p == [type |-> type, data |-> data, start |-> Len(stream)]
<1>1. w \in Seq(Bytes) /\ Len(w) \in Nat
  BY WireBytes, LenProperties DEF IsWire
<1>2. stream \in Seq(Bytes) /\ Len(stream) \in Nat
  BY DEF FramingInv, TypeOK
<1>3. p \in Packets /\ p.type = type /\ p.data = data /\ p.start = Len(stream)
  BY DEF Packets
<1>4. sent' = Append(sent, p) /\ stream' = stream \o w
  BY DEF Send
<1> HIDE DEF w, p
<1>5. Joins(stream', stream, Len(stream), w, Len(w))
  BY <1>1, <1>2, <1>4, ConcatBytes DEF Run
<1>6. stream' \in Seq(Bytes) /\ Len(stream') = Len(stream) + Len(w)
  BY <1>5 DEF Joins, Run
<1>7. /\ sent \in Seq(Packets) /\ Len(sent) \in Nat
      /\ sent' \in Seq(Packets) /\ Len(sent') = Len(sent) + 1
      /\ \A i \in 1 .. Len(sent) : sent'[i] = sent[i]
      /\ sent'[Len(sent) + 1] = p
  BY <1>3, <1>4 DEF FramingInv, TypeOK
<1>8. TypeOK'
  <2>1. pos' \in 0 .. Len(stream')
    BY DEF FramingInv, TypeOK, Send
  <2> QED
    BY <1>6, <1>7 DEF FramingInv, TypeOK, Send
<1>9. ASSUME NEW i \in DOMAIN sent'
      PROVE  Holds(stream', sent'[i].start, Wire(sent'[i].type, sent'[i].data))
  <2>1. i \in 1 .. Len(sent) \/ i = Len(sent) + 1
    BY <1>7
  <2>2. CASE i \in 1 .. Len(sent)
    <3>1. /\ sent[i].type \in Types /\ sent[i].data \in Payloads
          /\ sent[i].start \in Nat
      BY <1>7, <2>2, SentPacket
    <3>2. Wire(sent[i].type, sent[i].data) \in Seq(Bytes)
      BY <3>1, WireBytes DEF IsWire
    <3>3. Holds(stream, sent[i].start, Wire(sent[i].type, sent[i].data))
      BY <2>2 DEF FramingInv, StreamInv
    <3> QED
      BY <1>1, <1>2, <1>4, <2>2, <3>1, <3>2, <3>3, HoldsLonger
  <2>3. CASE i = Len(sent) + 1
    BY <1>1, <1>2, <1>3, <1>4, <2>3, HoldsAtEnd DEF w
  <2> QED
    BY <2>1, <2>2, <2>3
<1> QED
  BY <1>8, <1>9 DEF FramingInv, StreamInv
-----------------------------------------------------------------------------
(* Reads.                                                                  *)

\* The bytes of a read, and what the buffer begins with after it.
Chunk(n) == SubSeq(stream, pos + 1, pos + n)

Header(n) == [i \in 1 .. HeaderSize |-> IF i <= n THEN Chunk(n)[i] ELSE header[i]]

Passed(n) == [type    |-> ReadInt(Header(n), 5),
              payload |-> SubSeq(Chunk(n), HeaderSize + 1, n),
              length  |-> n - HeaderSize]

LEMMA ChunkBytes ==
    ASSUME TypeOK, NEW n \in ReadSizes, pos + n <= Len(stream)
    PROVE  /\ n \in Nat \ {0}
           /\ Run(Chunk(n), n)
           /\ \A i \in 1 .. n : Chunk(n)[i] = stream[pos + i]
<1>1. n \in Nat \ {0} /\ pos \in Nat /\ Len(stream) \in Nat
  BY FramingAssumption DEF TypeOK
<1>2. PICK a \in Int, b \in Int : a = pos + 1 /\ b = pos + n
  BY <1>1
<1>3. \A i \in a .. b : stream[i] \in Bytes
  BY <1>2 DEF TypeOK
<1>4. Chunk(n) = SubSeq(stream, a, b)
  BY <1>2 DEF Chunk
<1>5. /\ Chunk(n) \in Seq(Bytes)
      /\ Len(Chunk(n)) = IF a <= b THEN b - a + 1 ELSE 0
      /\ \A i \in 1 .. b - a + 1 : Chunk(n)[i] = stream[a + i - 1]
  BY <1>3, <1>4
<1>6. Len(Chunk(n)) = n
  BY <1>1, <1>2, <1>5
<1>7. ASSUME NEW i \in 1 .. n PROVE Chunk(n)[i] = stream[pos + i]
  <2>1. i \in 1 .. b - a + 1 /\ a + i - 1 = pos + i
    BY <1>1, <1>2
  <2> QED
    BY <1>5, <2>1
<1> QED
  BY <1>1, <1>5, <1>6, <1>7 DEF Run

LEMMA HeaderBytes ==
    ASSUME TypeOK, NEW n \in ReadSizes, pos + n <= Len(stream)
    PROVE  /\ Header(n) \in [1 .. HeaderSize -> Bytes]
           /\ \A i \in 1 .. HeaderSize : i <= n => Header(n)[i] = stream[pos + i]
<1>1. n \in Nat /\ \A i \in 1 .. n : Chunk(n)[i] \in Bytes /\ Chunk(n)[i] = stream[pos + i]
  BY ChunkBytes DEF Run
<1>2. ASSUME NEW i \in 1 .. HeaderSize
      PROVE  /\ (IF i <= n THEN Chunk(n)[i] ELSE header[i]) \in Bytes
             /\ i <= n => Header(n)[i] = stream[pos + i]
  <2>1. i <= n => i \in 1 .. n
    OBVIOUS
  <2> QED
    BY <1>1, <2>1 DEF TypeOK, Header
<1> QED
  BY <1>2 DEF Header

LEMMA PayloadBytes ==
    ASSUME TypeOK, NEW n \in ReadSizes, pos + n <= Len(stream)
    PROVE  /\ SubSeq(Chunk(n), HeaderSize + 1, n) \in Seq(Bytes)
           /\ n >= HeaderSize =>
                /\ Len(SubSeq(Chunk(n), HeaderSize + 1, n)) = n - HeaderSize
                /\ \A k \in 1 .. n - HeaderSize :
                      /\ SubSeq(Chunk(n), HeaderSize + 1, n)[k] = stream[pos + (HeaderSize + k)]
                      /\ SubSeq(Chunk(n), HeaderSize + 1, n)[k] = Chunk(n)[HeaderSize + k]
<1>1. n \in Nat /\ HeaderSize + 1 \in Int /\ HeaderSize = 12
  BY ChunkBytes DEF HeaderSize
<1>2. \A i \in 1 .. n : Chunk(n)[i] \in Bytes /\ Chunk(n)[i] = stream[pos + i]
  BY ChunkBytes DEF Run
<1>3. \A i \in HeaderSize + 1 .. n : Chunk(n)[i] \in Bytes
  BY <1>1, <1>2
<1>4. PICK y : y = SubSeq(Chunk(n), HeaderSize + 1, n)
  OBVIOUS
<1>5. /\ y \in Seq(Bytes)
      /\ Len(y) = IF HeaderSize + 1 <= n THEN n - (HeaderSize + 1) + 1 ELSE 0
      /\ \A k \in 1 .. n - (HeaderSize + 1) + 1 : y[k] = Chunk(n)[HeaderSize + 1 + k - 1]
  BY <1>1, <1>3, <1>4
<1>6. ASSUME n >= HeaderSize
      PROVE  /\ Len(y) = n - HeaderSize
             /\ \A k \in 1 .. n - HeaderSize : /\ y[k] = stream[pos + (HeaderSize + k)]
                                              /\ y[k] = Chunk(n)[HeaderSize + k]
  <2>1. Len(y) = n - HeaderSize
    BY <1>1, <1>5, <1>6
  <2>2. ASSUME NEW k \in 1 .. n - HeaderSize
        PROVE  y[k] = stream[pos + (HeaderSize + k)] /\ y[k] = Chunk(n)[HeaderSize + k]
    <3>1. /\ k \in 1 .. n - (HeaderSize + 1) + 1
          /\ HeaderSize + 1 + k - 1 = HeaderSize + k
          /\ HeaderSize + k \in 1 .. n
      BY <1>1, <1>6
    <3> QED
      BY <1>2, <1>5, <3>1
  <2> QED
    BY <2>1, <2>2
<1> QED
  BY <1>4, <1>5, <1>6

LEMMA ReadShape ==
    ASSUME NEW n \in ReadSizes, ReadSome(n)
    PROVE  /\ pos + n <= Len(stream) /\ pos' = pos + n
           /\ header' = Header(n)
           /\ handled' = IF Accepts(Header(n), n) /\ ReadInt(Header(n), 5) \in Handled
                         THEN Append(handled, Passed(n)) ELSE handled
           /\ UNCHANGED <<sent, stream, open>>
  BY DEF ReadSome, Header, Chunk, Passed

LEMMA ReadKeeps ==
    ASSUME FramingInv, NEW n \in ReadSizes, ReadSome(n)
    PROVE  FramingInv'
<1>1. TypeOK /\ n \in Nat
  BY FramingAssumption DEF FramingInv
<1>2. pos' \in 0 .. Len(stream')
  BY <1>1, ReadShape DEF TypeOK
<1>3. header' \in [1 .. HeaderSize -> Bytes]
  BY <1>1, ReadShape, HeaderBytes
<1>4. handled' \in Seq([type : Handled, payload : Seq(Bytes), length : Int])
  <2>1. ASSUME ReadInt(Header(n), 5) \in Handled
        PROVE  Passed(n) \in [type : Handled, payload : Seq(Bytes), length : Int]
    <3>1. SubSeq(Chunk(n), HeaderSize + 1, n) \in Seq(Bytes)
      BY <1>1, ReadShape, PayloadBytes
    <3>2. n - HeaderSize \in Int
      BY <1>1 DEF HeaderSize
    <3> QED
      BY <2>1, <3>1, <3>2 DEF Passed
  <2>2. handled \in Seq([type : Handled, payload : Seq(Bytes), length : Int])
    BY <1>1 DEF TypeOK
  <2>3. CASE Accepts(Header(n), n) /\ ReadInt(Header(n), 5) \in Handled
    <3>1. handled' = Append(handled, Passed(n))
      BY <2>3, ReadShape
    <3> QED
      BY <2>1, <2>2, <2>3, <3>1
  <2>4. CASE ~(Accepts(Header(n), n) /\ ReadInt(Header(n), 5) \in Handled)
    BY <2>2, <2>4, ReadShape
  <2> QED
    BY <2>3, <2>4
<1>5. StreamInv'
  BY ReadShape DEF FramingInv, StreamInv
<1> QED
  BY <1>2, <1>3, <1>4, <1>5, ReadShape DEF FramingInv, TypeOK

LEMMA FramingStep == FramingInv /\ [Next]_vars => FramingInv'
<1> SUFFICES ASSUME FramingInv, [Next]_vars PROVE FramingInv'
  OBVIOUS
<1>1. ASSUME NEW type \in Types, NEW data \in Payloads, Send(type, data)
      PROVE  FramingInv'
  BY <1>1, SendKeeps
<1>2. ASSUME NEW n \in ReadSizes, ReadSome(n) PROVE FramingInv'
  BY <1>2, ReadKeeps
<1>3. CASE ReadEnds
  BY <1>3 DEF ReadEnds, FramingInv, TypeOK, StreamInv
<1>4. CASE UNCHANGED vars
  BY <1>4 DEF vars, FramingInv, TypeOK, StreamInv
<1> QED
  BY <1>1, <1>2, <1>3, <1>4 DEF Next

-----------------------------------------------------------------------------
(* What a read passes on.                                                  *)

\* A read that begins where packet i does and holds its header decodes it.
LEMMA DecodesPacket ==
    ASSUME FramingInv, NEW n \in ReadSizes, pos + n <= Len(stream), n >= HeaderSize,
           NEW i \in DOMAIN sent, sent[i].start = pos
    PROVE  /\ SubSeq(Header(n), 1, 4) = Magic
           /\ ReadInt(Header(n), 5) = sent[i].type
           /\ ReadInt(Header(n), 9) = Total(sent[i].data)
<1>1. TypeOK /\ n \in Nat
  BY FramingAssumption DEF FramingInv
<1>2. /\ sent[i].type \in Types /\ sent[i].data \in Payloads /\ sent[i].start \in Nat
  BY <1>1, SentPacket DEF TypeOK
<1>3. PICK w : w = Wire(sent[i].type, sent[i].data)
  OBVIOUS
<1>4. IsWire(w, sent[i].type, sent[i].data) /\ Holds(stream, pos, w)
  BY <1>2, <1>3, WireBytes DEF FramingInv, StreamInv
<1>5. \A k \in 1 .. HeaderSize : Header(n)[k] = stream[pos + k]
  BY <1>1, HeaderBytes DEF HeaderSize
<1>6. Header(n) \in [1 .. HeaderSize -> Bytes]
  BY <1>1, HeaderBytes
<1>7. PICK type \in Types, data \in Payloads, start \in Nat :
        type = sent[i].type /\ data = sent[i].data /\ start = pos
  BY <1>2
<1>8. PICK h : h = Header(n)
  OBVIOUS
<1>9. /\ IsWire(w, type, data) /\ Holds(stream, start, w)
      /\ Begins(h, stream, start)
  BY <1>4, <1>5, <1>6, <1>7, <1>8 DEF Begins
<1>10. /\ SubSeq(h, 1, 4) = Magic
       /\ ReadInt(h, 5) = type
       /\ ReadInt(h, 9) = Total(data)
  BY <1>9, HeaderDecodes
<1> QED
  BY <1>7, <1>8, <1>10

\* What a read of header size or more passes on encodes to what it read.
LEMMA EncodesRead ==
    ASSUME TypeOK, NEW n \in ReadSizes, pos + n <= Len(stream), n >= HeaderSize,
           Accepts(Header(n), n)
    PROVE  /\ Chunk(n) = Wire(Passed(n).type, Passed(n).payload)
           /\ Passed(n).length = Len(Passed(n).payload)
<1>1. n \in Nat /\ HeaderSize = 12
  BY FramingAssumption DEF HeaderSize
<1>2. PICK h, c, y : /\ h = Header(n) /\ c = Chunk(n)
                     /\ y = SubSeq(Chunk(n), HeaderSize + 1, n)
  OBVIOUS
<1>3. /\ y \in Seq(Bytes) /\ Len(y) = n - HeaderSize
      /\ \A k \in 1 .. n - HeaderSize : y[k] = c[HeaderSize + k]
  BY <1>2, PayloadBytes
<1>4. c \in Seq(Bytes) /\ Len(c) = n /\ \A i \in 1 .. n : c[i] = stream[pos + i]
  BY <1>2, ChunkBytes DEF Run
<1>5. h \in [1 .. HeaderSize -> Bytes] /\ \A i \in 1 .. 12 : h[i] = c[i]
  <2>1. /\ h \in [1 .. HeaderSize -> Bytes]
        /\ \A i \in 1 .. HeaderSize : i <= n => h[i] = stream[pos + i]
    BY <1>2, HeaderBytes
  <2> QED
    BY <1>1, <1>4, <2>1
<1>6. /\ SubSeq(h, 1, 4) = Magic /\ ReadInt(h, 9) = n
  BY <1>2 DEF Accepts
<1>7. \A k \in 1 .. 4 : c[k] = Magic[k]
  BY <1>5, <1>6, MagicMatch
<1>8. PICK type : type = ReadInt(h, 5)
  OBVIOUS
<1>9. Total(y) = n
  BY <1>1, <1>3 DEF Total
<1>10. /\ type \in Nat
       /\ append_int_vec_char_le(type) = <<h[5], h[6], h[7], h[8]>>
       /\ append_int_vec_char_le(Total(y)) = <<h[9], h[10], h[11], h[12]>>
  <2>1. /\ ReadInt(h, 5) \in Nat
        /\ append_int_vec_char_le(ReadInt(h, 5)) = <<h[5], h[5 + 1], h[5 + 2], h[5 + 3]>>
    BY <1>5, WordWrites
  <2>2. append_int_vec_char_le(ReadInt(h, 9)) = <<h[9], h[9 + 1], h[9 + 2], h[9 + 3]>>
    BY <1>5, WordWrites
  <2> QED
    BY <1>6, <1>8, <1>9, <2>1, <2>2
<1>11. PICK t, l, w : /\ t = append_int_vec_char_le(type)
                     /\ l = append_int_vec_char_le(Total(y))
                     /\ w = Wire(type, y)
  OBVIOUS
<1>12. Parts(w, t, l, y)
  BY <1>3, <1>10, <1>11, WireParts
<1>13. w \in Seq(Bytes) /\ Len(w) = n
  BY <1>9, <1>12 DEF Parts
<1>14. ASSUME NEW k \in 1 .. n PROVE c[k] = w[k]
  <2>1. CASE k \in 1 .. 4
    BY <1>7, <1>12, <2>1 DEF Parts
  <2>2. CASE k \in 5 .. 12
    <3>1. t = <<h[5], h[6], h[7], h[8]>> /\ l = <<h[9], h[10], h[11], h[12]>>
      BY <1>10, <1>11
    <3>2. /\ w[5] = h[5] /\ w[6] = h[6] /\ w[7] = h[7] /\ w[8] = h[8]
          /\ w[9] = h[9] /\ w[10] = h[10] /\ w[11] = h[11] /\ w[12] = h[12]
      BY <1>12, <3>1 DEF Parts
    <3>3. h[k] = c[k]
      BY <1>5, <2>2
    <3> QED
      BY <2>2, <3>2, <3>3
  <2>3. CASE k > 12
    <3>1. PICK j \in 1 .. n - 12 : k = 12 + j
      BY <1>1, <2>3
    <3>2. y[j] = c[12 + j]
      BY <1>1, <1>3, <3>1
    <3>3. j \in 1 .. Len(y)
      BY <1>1, <1>3
    <3>4. w[12 + j] = y[j]
      BY <1>1, <1>12, <3>3 DEF Parts
    <3> QED
      BY <3>1, <3>2, <3>4
  <2> QED
    BY <1>1, <2>1, <2>2, <2>3
<1>15. c = w
  BY <1>4, <1>13, <1>14, SeqEqual
<1>16. Passed(n).type = type /\ Passed(n).payload = y /\ Passed(n).length = n - HeaderSize
  BY <1>2, <1>8 DEF Passed
<1> QED
  BY <1>2, <1>3, <1>11, <1>15, <1>16

LEMMA PassesPacket ==
    ASSUME FramingInv, NEW n \in ReadSizes, pos + n <= Len(stream),
           NEW i \in DOMAIN sent, sent[i].start = pos, n = Total(sent[i].data)
    PROVE  Passed(n) = [type    |-> sent[i].type,
                        payload |-> sent[i].data,
                        length  |-> Len(sent[i].data)]
<1>1. TypeOK /\ n \in Nat
  BY FramingAssumption DEF FramingInv
<1>2. /\ sent[i].type \in Types /\ sent[i].data \in Payloads /\ sent[i].start \in Nat
  BY <1>1, SentPacket DEF TypeOK
<1>3. PICK w, data : w = Wire(sent[i].type, sent[i].data) /\ data = sent[i].data
  OBVIOUS
<1>4. IsWire(w, sent[i].type, data) /\ Holds(stream, pos, w)
  BY <1>2, <1>3, WireBytes DEF FramingInv, StreamInv
<1>5. PICK y : y = SubSeq(Chunk(n), HeaderSize + 1, n)
  OBVIOUS
<1>6. /\ data \in Seq(Bytes) /\ Len(data) \in Nat
      /\ HeaderSize = 12 /\ n = 12 + Len(data) /\ Len(w) = n
  BY <1>2, <1>3, <1>4, PayloadFits DEF HeaderSize, IsWire
<1>7. /\ y \in Seq(Bytes) /\ Len(y) = Len(data)
      /\ \A k \in 1 .. Len(data) : y[k] = stream[pos + (HeaderSize + k)]
  BY <1>1, <1>5, <1>6, PayloadBytes
<1>8. ASSUME NEW k \in 1 .. Len(data) PROVE y[k] = data[k]
  <2>1. HeaderSize + k \in 1 .. Len(w)
    BY <1>6
  <2>2. stream[pos + (HeaderSize + k)] = w[HeaderSize + k]
    BY <1>4, <2>1 DEF Holds
  <2>3. w[HeaderSize + k] = data[k]
    BY <1>4 DEF IsWire
  <2> QED
    BY <1>7, <2>2, <2>3
<1>9. y = data
  BY <1>6, <1>7, <1>8, SeqEqual
<1>10. n >= HeaderSize /\ n - HeaderSize = Len(data)
  BY <1>6
<1>11. ReadInt(Header(n), 5) = sent[i].type
  BY <1>10, DecodesPacket
<1> QED
  BY <1>3, <1>5, <1>9, <1>10, <1>11 DEF Passed

LEMMA ReadHandles ==
    ASSUME FramingInv, NEW n \in ReadSizes, ReadSome(n)
    PROVE  HandlesCameAlone
<1>1. TypeOK /\ n \in Nat /\ pos \in Nat /\ pos + n <= Len(stream) /\ pos' = pos + n
  BY FramingAssumption, ReadShape DEF FramingInv, TypeOK
<1> SUFFICES ASSUME NEW i \in CameAlone, sent[i].type \in Handled
             PROVE  handled' = Append(handled, [type    |-> sent[i].type,
                                                payload |-> sent[i].data,
                                                length  |-> Len(sent[i].data)])
  BY DEF HandlesCameAlone
<1>2. i \in DOMAIN sent
  BY DEF CameAlone
<1>3. sent[i].start = pos /\ n = Total(sent[i].data) /\ n >= HeaderSize
  <2>1. Total(sent[i].data) \in Nat /\ Total(sent[i].data) >= HeaderSize
    BY <1>1, <1>2, SentPacket, PayloadFits DEF TypeOK, HeaderSize
  <2> QED
    BY <1>1, <2>1 DEF CameAlone
<1>4. Accepts(Header(n), n) /\ ReadInt(Header(n), 5) = sent[i].type
  BY <1>1, <1>2, <1>3, DecodesPacket DEF Accepts
<1>5. handled' = Append(handled, Passed(n))
  BY <1>4, ReadShape
<1> QED
  BY <1>1, <1>2, <1>3, <1>5, PassesPacket

LEMMA ReadMatches ==
    ASSUME TypeOK, NEW n \in ReadSizes, ReadSome(n)
    PROVE  HandlesWhatItRead
<1>1. n \in Nat /\ pos \in Nat /\ pos + n <= Len(stream) /\ pos' = pos + n
  BY FramingAssumption, ReadShape DEF TypeOK
<1> SUFFICES ASSUME pos' >= pos + HeaderSize, handled' # handled
             PROVE  \E type \in Handled :
                        LET chunk == SubSeq(stream, pos + 1, pos + n)
                            data  == SubSeq(chunk, HeaderSize + 1, n)
                        IN  /\ chunk = Wire(type, data)
                            /\ handled' = Append(handled, [type    |-> type,
                                                           payload |-> data,
                                                           length  |-> Len(data)])
  BY <1>1 DEF HandlesWhatItRead
<1>2. n >= HeaderSize
  BY <1>1 DEF HeaderSize
<1>3. /\ Accepts(Header(n), n) /\ ReadInt(Header(n), 5) \in Handled
      /\ handled' = Append(handled, Passed(n))
  BY ReadShape
<1>4. PICK type \in Handled : type = ReadInt(Header(n), 5)
  BY <1>3
<1>5. PICK chunk, data : chunk = Chunk(n) /\ data = SubSeq(Chunk(n), HeaderSize + 1, n)
  OBVIOUS
<1>6. Passed(n) = [type |-> type, payload |-> data, length |-> n - HeaderSize]
  BY <1>4, <1>5 DEF Passed
<1>7. chunk = Wire(type, data) /\ n - HeaderSize = Len(data)
  <2>1. /\ Chunk(n) = Wire(Passed(n).type, Passed(n).payload)
        /\ Passed(n).length = Len(Passed(n).payload)
    BY <1>1, <1>2, <1>3, EncodesRead
  <2>2. Passed(n).type = type /\ Passed(n).payload = data /\ Passed(n).length = n - HeaderSize
    BY <1>6
  <2> QED
    BY <1>5, <2>1, <2>2
<1>8. handled' = Append(handled, [type |-> type, payload |-> data, length |-> Len(data)])
  BY <1>3, <1>6, <1>7
<1> QED
  BY <1>5, <1>7, <1>8 DEF Chunk

-----------------------------------------------------------------------------
(* The theorems.                                                           *)

LEMMA TotalPositive ==
    ASSUME FramingInv, NEW i \in DOMAIN sent
    PROVE  Total(sent[i].data) \in Nat \ {0}
<1>1. sent[i].data \in Payloads
  BY SentPacket DEF FramingInv, TypeOK
<1> QED
  BY <1>1, PayloadFits

LEMMA FramingInvariance == Spec => []FramingInv
  BY FramingInit, FramingStep, PTL DEF Spec

\* Whatever is sent and however it is cut into reads, the stream and the
\* buffer hold bytes, no read goes beyond what was sent, and a handler is only
\* given a type it is registered for (ClientSocket.cpp:42-59).
THEOREM FramingTypeCorrect == Spec => []TypeOK
<1>1. FramingInv => TypeOK
  BY DEF FramingInv
<1> QED
  BY <1>1, FramingInvariance, PTL

\* For packets of any types and payloads, any way to cut them into reads, and
\* whatever the buffer held before, a packet that comes in a read of its own
\* is passed on with its type and its payload, and what a read of header size
\* or more passes on encodes to exactly the bytes of that read
\* (ClientSocket.cpp:42-59, util.cpp:5-18).
THEOREM WholePacketsHandled == Spec => WholePackets
<1>1. FramingInv /\ [Next]_vars => [HandlesCameAlone /\ HandlesWhatItRead]_vars
  <2> SUFFICES ASSUME FramingInv, Next
               PROVE  HandlesCameAlone /\ HandlesWhatItRead
    OBVIOUS
  <2>1. ASSUME pos' = pos, handled' = handled
        PROVE  HandlesCameAlone /\ HandlesWhatItRead
    <3>1. \A i \in DOMAIN sent : Total(sent[i].data) \in Nat \ {0}
      BY TotalPositive
    <3>2. CameAlone = {}
      BY <2>1, <3>1 DEF CameAlone, FramingInv, TypeOK
    <3> QED
      BY <2>1, <3>2 DEF HandlesCameAlone, HandlesWhatItRead
  <2>2. ASSUME NEW type \in Types, NEW data \in Payloads, Send(type, data)
        PROVE  HandlesCameAlone /\ HandlesWhatItRead
    BY <2>1, <2>2 DEF Send
  <2>3. ASSUME NEW n \in ReadSizes, ReadSome(n)
        PROVE  HandlesCameAlone /\ HandlesWhatItRead
    BY <2>3, ReadHandles, ReadMatches DEF FramingInv
  <2>4. CASE ReadEnds
    BY <2>1, <2>4 DEF ReadEnds
  <2> QED
    BY <2>2, <2>3, <2>4 DEF Next
<1> QED
  BY <1>1, FramingInvariance, PTL DEF Spec, WholePackets
=============================================================================
